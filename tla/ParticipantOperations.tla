----------------------- MODULE ParticipantOperations -----------------------
(***************************************************************************)
(* One device and its relationships: the transactions over its five stores *)
(* (participant registry, readiness profiles, credentials, Site membership *)
(* and Site configuration) that pairing, the participant actions of the    *)
(* HTTP API, the reset of all connections and the return to a standalone   *)
(* Site consist of.                                                        *)
(*                                                                         *)
(* Each transaction is a list of writes, one store at a time; any write    *)
(* may fail and power may be lost between two of them.  HTTP requests run  *)
(* in the task of the web server, pairing and reconciliation in the main   *)
(* loop: the two tasks interleave at each write.  A write happened or did  *)
(* not.  For credentials, membership and Directory TwoSlotStore shows that *)
(* this is so whatever interrupts them.  Registry, readiness and Site      *)
(* configuration, whose repair is strict, may not load again after a cut   *)
(* while their commit record is replaced; that outcome is left out here.   *)
(***************************************************************************)
EXTENDS FiniteSets, Naturals, Sequences

CONSTANTS
  Node,        \* the other NAMO Nodes
  Satellite,   \* the satellites
  Self,        \* this Node
  Unresolved,  \* the owner of a configuration that has none
  Nobody,      \* no candidate, no participant
  PeerSite,    \* the Site that other Nodes lead
  OwnSite,     \* the Sites this Node creates: the first, and one per reset
  Setup        \* states the stores may be in when the device boots, and how
               \* many operations, failed writes and power cuts follow

(* A configuration without an owner is nobody's, so not this Node's.       *)
ASSUME OwnerAssumption == Self # Unresolved

Participant == Node \cup Satellite
Site == OwnSite \cup {PeerSite}
Task == {"web", "loop"}

(* A participant's membership; "eligible" is ACTIVE with leader_eligible.  *)
Standing == {"none", "quarantined", "active", "eligible", "revoked"}
Active == {"active", "eligible"}
Gone == {"none", "revoked"}
Profile == {"none", "draft", "ready"}
Credential == {"none", "disabled", "enabled"}

Membership == [site : Site, mode : {"standalone", "enrolled"}]
Configuration == [site : Site, owner : Node \cup {Self, Unresolved},
                  member : [Participant -> Standing]]
Disk == [registry : [Participant -> Standing],
         readiness : [Participant -> Profile],
         credential : [Participant -> Credential],
         membership : Membership,
         config : Configuration]

(* The stores a device boots with are such as pairings leave: an ACTIVE    *)
(* participant has a profile and no disabled credential, a revoked one no  *)
(* credential that works, and a configuration of its own is for its Site.  *)
ASSUME SetupAssumption ==
  \A start \in Setup :
    /\ start.disk \in Disk
    /\ start.budget \in [operations : Nat, failures : Nat, cuts : Nat]
    /\ start.disk.config.owner = Self =>
         start.disk.config.site = start.disk.membership.site
    /\ \A p \in Participant :
         /\ start.disk.registry[p] \in Active =>
              /\ start.disk.readiness[p] # "none"
              /\ start.disk.credential[p] # "disabled"
         /\ start.disk.registry[p] = "revoked" =>
              start.disk.credential[p] # "enabled"

(* The stores a transaction writes; the Directory is written, not modelled.*)
Relations == {"registry", "readiness", "credential"}
Store == Relations \cup {"membership", "config", "directory"}

(* The operations of the engine that end with a refresh of the roster, ... *)
Refreshing == {"approve", "configure", "reconfigure", "activate",
               "quarantine", "revoke", "forget"}
(* ... those on a member of the roster that is no direct participant, ...  *)
Canonical == {"expel", "erase"}
Leased == Refreshing \cup Canonical \cup {"promote", "demote"}
Pairing == {"join", "lead"}
Operation == Leased \cup Pairing \cup {"roster", "reset", "settle"}

VARIABLES
  flash,    \* what the stores hold
  ram,      \* the snapshots the program works with
  ready,    \* whether the Site configuration was loaded
  recon,    \* StandaloneSiteReconciliationTracker::state_
  window,   \* the enrollment window: "closed", or its candidate
  job,      \* the transaction each task is in
  outcome,  \* what the engine's last operation came to, until the next
            \* transaction: "none", "ok", "refused" or "broken"
  broken,   \* the transactions that power or failures left half done:
            \* "reset" also when another transaction ran across one, and
            \* "settle" when an approval that is rolled back made the loop
            \* forget one that is pending or failed
  budget    \* the operations, failed writes and power cuts still to come

vars == <<flash, ram, ready, recon, window, job, outcome, broken, budget>>

Cleared(value) == [p \in Participant |-> value]
NoMembers == Cleared("none")
Created(site) == [site |-> site, owner |-> Self, member |-> NoMembers]
Joining(site) == [site |-> site, owner |-> Unresolved, member |-> NoMembers]

Saved == Relations \cup {"membership"}
NoSaved ==
  [registry |-> NoMembers, readiness |-> NoMembers, credential |-> NoMembers,
   membership |-> [site |-> PeerSite, mode |-> "standalone"]]
Idle == [op |-> "none", who |-> Nobody, arg |-> "none", todo |-> <<>>,
         done |-> {}, undo |-> FALSE, sound |-> TRUE, saved |-> NoSaved]

Busy(t) == job[t].op # "none"
Leasing == job["web"].op \in Leased \/ job["loop"].op \in Pairing

-----------------------------------------------------------------------------
(* What the program computes from its snapshots.                           *)

Related(d) == {p \in Participant : d.registry[p] \notin Gone}
OwnedHere(d) == d.config.owner = Self
SameSite(d) == d.config.site = d.membership.site

(* Mutant of OwnedRoster: a member keeps the standing the roster gave it.  *)
StaleRoster(d) ==
  LET Entry(p) ==
        IF d.registry[p] = "revoked" THEN "none"
        ELSE IF d.config.member[p] \notin Gone THEN d.config.member[p]
        ELSE d.registry[p]
  IN  [site |-> d.config.site, owner |-> Self,
       member |-> [p \in Participant |-> Entry(p)]]

(* The roster this Node commits as its owner: direct participants with the *)
(* standing they have here; members it has no record of stay, unless the   *)
(* configuration was another's.                                            *)
OwnedRoster(d) ==
  LET mine == d.config.owner \in {Self, Unresolved}
      Entry(p) ==
        CASE d.registry[p] = "revoked" -> "none"
          [] d.registry[p] = "none" ->
               IF mine /\ d.config.member[p] # "revoked"
                 THEN d.config.member[p] ELSE "none"
          [] OTHER -> d.registry[p]
  IN  [site |-> d.config.site, owner |-> Self,
       member |-> [p \in Participant |-> Entry(p)]]

Standalone(d) ==
  /\ SameSite(d) /\ OwnedHere(d) /\ d.config.member = NoMembers
  /\ Related(d) = {}

StandaloneConfiguration(d) ==
  IF Standalone(d) THEN d.config
  ELSE IF ~SameSite(d) THEN Created(d.membership.site)
  ELSE OwnedRoster(d)

(* prepare_local_pairing_site: may this Node commit the roster as Leader?  *)
MayLead(d, p) ==
  /\ SameSite(d)
  /\ \/ d.config.owner \in {Self, Unresolved}
     \/ /\ d.config.owner = p
        /\ \A q \in Participant \ {p} : /\ d.config.member[q] \in Gone
                                        /\ d.registry[q] \in Gone

AlreadyConverged(d, p, site) ==
  /\ d.membership.site = site /\ d.config.site = site
  /\ d.config.owner = p /\ d.config.member[p] = "eligible"

(* Mutant of MayMoveSite: the peer that is joined is not told from others. *)
MovesAnyway(d, p) == \A q \in Participant : d.config.member[q] \notin Active

MayMoveSite(d, p) ==
  /\ \A q \in Participant : d.config.member[q] \notin Active
  /\ Related(d) \subseteq {p}

(* A retried CONFIGURE of a participant the roster holds in quarantine     *)
(* leaves the roster to its activation.                                    *)
Staged(j) ==
  j.op = "configure" /\ ready /\ OwnedHere(ram)
    /\ ram.config.member[j.who] = "quarantined"

(* The roster is not written without relationships, or by another Node.    *)
Refreshed ==
  IF Related(ram) = {} THEN StandaloneConfiguration(ram)
  ELSE IF OwnedHere(ram) THEN OwnedRoster(ram) ELSE ram.config

Eligibility(j) == IF j.op = "promote" THEN "eligible" ELSE "active"

RegistryTarget(j) ==
  CASE j.op \in {"approve", "configure", "quarantine"} \cup Pairing ->
         "quarantined"
    [] j.op = "activate" -> "active"
    [] j.op = "revoke" -> "revoked"
    [] j.op = "forget" -> "none"
    [] OTHER -> Eligibility(j)

CredentialTarget(j) ==
  IF j.op \in Pairing THEN "enabled"
  ELSE IF j.op \in {"forget", "erase"} \/ ram.credential[j.who] = "none"
         THEN "none"
  ELSE IF j.op = "activate" THEN "enabled" ELSE "disabled"

ConfigTarget(j) ==
  CASE j.op = "reset" -> Created(j.arg)
    [] j.op = "join" -> Joining(ram.membership.site)
    [] j.op = "settle" -> StandaloneConfiguration(ram)
    [] j.op \in {"promote", "demote"} ->
         [ram.config EXCEPT !.member[j.who] = Eligibility(j)]
    [] j.op = "expel" -> [ram.config EXCEPT !.member[j.who] = "revoked"]
    [] j.op = "erase" -> [ram.config EXCEPT !.member[j.who] = "none"]
    [] j.op \in {"lead", "roster"} -> OwnedRoster(ram)
    [] Staged(j) -> ram.config
    [] OTHER -> Refreshed

MembershipTarget(j) ==
  CASE j.op = "reset" -> [site |-> j.arg, mode |-> "standalone"]
    [] j.op = "join" -> [site |-> j.arg, mode |-> "enrolled"]
    [] OTHER -> [site |-> ram.membership.site, mode |-> "standalone"]

(* The content the transaction's next write gives to its store.            *)
Target(j, s) ==
  LET one == j.op # "reset" IN
  CASE s \in Relations /\ ~one -> NoMembers
    [] s = "registry" /\ one ->
         [ram.registry EXCEPT ![j.who] = RegistryTarget(j)]
    [] s = "readiness" /\ one ->
         [ram.readiness EXCEPT ![j.who] = j.arg]
    [] s = "credential" /\ one ->
         [ram.credential EXCEPT ![j.who] = CredentialTarget(j)]
    [] s = "membership" -> MembershipTarget(j)
    [] OTHER -> ConfigTarget(j)

(* A store that already holds what the transaction would write is left     *)
(* alone, except where the code writes it all the same.                    *)
Rewritten(j) ==
  CASE j.op = "reset" -> Relations \cup {"config"}
    [] j.op \in {"configure", "reconfigure"} -> {"registry", "readiness"}
    [] j.op \in Refreshing \ {"configure", "reconfigure"} -> {"registry"}
    [] OTHER -> {}

Skips(j, s) ==
  IF s \in Rewritten(j) \cup {"directory"} THEN FALSE
  ELSE Target(j, s) = ram[s]

(* Errors found on the way, when earlier stores may have been written.     *)
Refused(j) ==
  LET s == Head(j.todo) IN
  \/ s = "registry" /\ j.op = "activate"
       /\ ram.registry[j.who] # "quarantined"
  \/ s = "registry" /\ j.op \in {"promote", "demote"}
       /\ ram.registry[j.who] \notin Active
  \/ s = "config" /\ j.op \in Refreshing
       /\ \/ ~ready
          \/ Related(ram) # {} /\ OwnedHere(ram) /\ ~SameSite(ram)
               /\ ~Staged(j)
  \/ s = "config" /\ j.op = "lead" /\ ~MayLead(ram, j.who)
  \/ s = "config" /\ j.op = "erase" /\ ram.config.member[j.who] # "revoked"

-----------------------------------------------------------------------------
(* Transactions begin.                                                     *)

Across(op) ==
  {"reset"} \cap UNION {{op, job[t].op} : t \in {u \in Task : Busy(u)}}

Begin(t, op, p, arg, steps) ==
  /\ ~Busy(t)
  /\ budget.operations > 0
  /\ op \in Leased \cup Pairing => ~Leasing
  /\ job' = [job EXCEPT ![t] =
       [Idle EXCEPT !.op = op, !.who = p, !.arg = arg, !.todo = steps,
                    !.saved = IF op \in Leased \cup {"join"}
                                THEN [s \in Saved |-> ram[s]]
                                ELSE NoSaved]]
  /\ budget' = [budget EXCEPT !.operations = @ - 1]
  /\ outcome' = "none"
  /\ broken' = broken \cup Across(op)
  /\ UNCHANGED <<flash, ram, ready, recon>>

Approve(p) ==
  /\ window = p /\ ram.registry[p] = "none"
  /\ Begin("web", "approve", p, "none", <<"registry", "config">>)
  /\ UNCHANGED window

(* An ACTIVE participant is quarantined before its profile changes.        *)
Configure(p) ==
  /\ ram.registry[p] \notin Gone
  /\ \E profile \in {"draft", "ready"} :
       Begin("web", "configure", p, profile,
             IF ram.registry[p] \in Active
               THEN <<"registry", "readiness", "config">>
               ELSE <<"readiness", "config">>)
  /\ UNCHANGED window

Reconfigure(p) ==
  /\ ram.registry[p] \in Active /\ ram.readiness[p] # "none"
  /\ \E profile \in {"draft", "ready"} :
       Begin("web", "reconfigure", p, profile, <<"readiness", "config">>)
  /\ UNCHANGED window

(* A NAMO Node must be in the roster; whether it is online, and has the    *)
(* Floorplan, is left to the request.  That the participant is quarantined *)
(* is found out only after its credential has been enabled.                *)
Activate(p) ==
  /\ ram.registry[p] # "none" /\ ram.readiness[p] = "ready"
  /\ p \in Node => /\ ready /\ ram.config.owner # Unresolved
                   /\ ram.config.member[p] \notin Gone
  /\ Begin("web", "activate", p, "none",
           IF ram.credential[p] = "disabled"
             THEN <<"credential", "registry", "config">>
             ELSE <<"registry", "config">>)
  /\ UNCHANGED window

Quarantine(p) ==
  /\ ram.registry[p] \notin Gone
  /\ Begin("web", "quarantine", p, "none", <<"registry", "config">>)
  /\ UNCHANGED window

(* Mutant of Revoke: the credential is left to a later FORGET.             *)
RevokeRegistryOnly(p) ==
  /\ ram.registry[p] # "none"
  /\ Begin("web", "revoke", p, "none", <<"registry", "config">>)
  /\ UNCHANGED window

Revoke(p) ==
  /\ ram.registry[p] # "none"
  /\ Begin("web", "revoke", p, "none", <<"registry", "credential", "config">>)
  /\ UNCHANGED window

(* Mutant of Forget: an ACTIVE participant is refused only when its record *)
(* would be deleted.                                                       *)
ForgetUnchecked(p) ==
  /\ ram.registry[p] # "none"
  /\ Begin("web", "forget", p, "none",
           <<"readiness", "registry", "credential", "config">>)
  /\ UNCHANGED window

Forget(p) ==
  /\ ram.registry[p] \in {"quarantined", "revoked"}
  /\ Begin("web", "forget", p, "none",
           <<"readiness", "registry", "credential", "config">>)
  /\ UNCHANGED window

SetCommunityLeader(p) ==
  /\ p \in Node
  /\ ready /\ OwnedHere(ram) /\ SameSite(ram)
  /\ ram.config.member[p] \in Active
  /\ \E op \in {"promote", "demote"} :
       Begin("web", op, p, "none",
             IF ram.registry[p] # "none"
                  /\ (op = "promote") # (ram.registry[p] = "eligible")
               THEN <<"registry", "config">> ELSE <<"config">>)
  /\ UNCHANGED window

(* REVOKE and FORGET of a member this Owner has no direct record of.       *)
ManageMember(p) ==
  /\ ready /\ OwnedHere(ram) /\ SameSite(ram)
  /\ ram.registry[p] = "none" /\ ram.config.member[p] # "none"
  /\ \/ Begin("web", "expel", p, "none", <<"credential", "config">>)
     \/ Begin("web", "erase", p, "none",
              <<"readiness", "credential", "config">>)
  /\ UNCHANGED window

(* claimOwnership and commitRoster take no lease.                          *)
CommitRoster ==
  /\ ready /\ SameSite(ram) /\ ram.config.owner \in {Self, Unresolved}
  /\ Begin("web", "roster", Nobody, "none", <<"config">>)
  /\ UNCHANGED window

(* The reset of all connections takes no lease either; it moves to a Site  *)
(* of its own.                                                             *)
Reset ==
  /\ ready
  /\ \E site \in OwnSite \ {ram.membership.site, ram.config.site} :
       Begin("web", "reset", Nobody, site,
             <<"credential", "readiness", "registry", "membership", "config",
               "directory">>)
  /\ UNCHANGED window

(* Both peers have confirmed; what this one commits depends on its role.   *)
(* A participant that an unfinished pairing left in quarantine may retry.  *)
CommitPairing(p) ==
  /\ recon \in {"not_required", "complete"}
  /\ \/ ram.registry[p] = "none" /\ window \in {Nobody, p}
     \/ ram.registry[p] = "quarantined"
  /\ \/ /\ ready => MayLead(ram, p)
        /\ Begin("loop", "lead", p, "none",
                 <<"registry", "credential">> \o
                   IF ready THEN <<"config">> ELSE <<>>)
     \/ \E site \in {PeerSite, ram.membership.site} :
          LET converged == /\ ram.registry[p] = "quarantined" /\ ready
                           /\ AlreadyConverged(ram, p, site)
          IN  /\ \/ ~ready \/ converged
                 \/ ram.config.owner \in {Self, Unresolved}
              /\ \/ ram.membership.site = site
                 \/ MayMoveSite(ram, p)
              /\ Begin("loop", "join", p, site,
                       <<"registry", "credential", "membership">> \o
                         IF ready /\ ~converged THEN <<"config">> ELSE <<>>)
  /\ UNCHANGED window

(* The loop returns the device to a Site of its own when a boot, or a      *)
(* membership that could not be saved, asked for it.                       *)
Settle ==
  /\ recon = "pending" /\ ~Busy("loop")
  /\ IF Related(ram) # {}
       THEN /\ recon' = "not_required"
            /\ broken' = broken \cup
                 (IF job["web"].op = "approve" THEN {"settle"} ELSE {})
            /\ UNCHANGED job
       ELSE /\ job' = [job EXCEPT !["loop"] =
                 [Idle EXCEPT
                    !.op = "settle",
                    !.todo = <<"config", "directory", "membership">>]]
            /\ broken' = broken \cup Across("settle")
            /\ UNCHANGED recon
  /\ UNCHANGED <<flash, ram, ready, window, outcome, budget>>

-----------------------------------------------------------------------------
(* Transactions proceed, one write at a time.                              *)

(* Mutant of Advanced: a refresh without relationships ends with the       *)
(* configuration.                                                          *)
RosterOnly(j, s) == Tail(j.todo)

Advanced(j, s) ==
  IF s = "config" /\ j.op \in Refreshing /\ Related(ram) = {}
       /\ ~Staged(j)
    THEN <<"directory", "membership">> ELSE Tail(j.todo)

Reconciled(j, s, rest) ==
  CASE j.op \in Refreshing /\ s = "config" /\ Related(ram) # {}
         /\ ~Staged(j) -> "not_required"
    [] j.op \in Refreshing /\ s = "membership" -> "complete"
    [] j.op = "settle" /\ rest = <<>> -> "complete"
    [] j.op \in Pairing \cup {"reset"} /\ rest = <<>> -> "not_required"
    [] OTHER -> recon

Concluded(j, result) ==
  IF j.op \in Leased THEN result ELSE outcome

Write(t) ==
  LET j == job[t]
      s == Head(j.todo)
      rest == Advanced(j, s)
      With(d) == IF s = "directory" \/ Skips(j, s) THEN d
                 ELSE [d EXCEPT ![s] = Target(j, s)]
  IN  /\ Busy(t) /\ ~j.undo /\ ~Refused(j)
      /\ flash' = With(flash)
      /\ ram' = With(ram)
      /\ job' = [job EXCEPT ![t] =
           IF rest = <<>> THEN Idle
           ELSE [j EXCEPT !.todo = rest,
                          !.done = @ \cup (IF Skips(j, s) THEN {} ELSE {s})]]
      /\ recon' = Reconciled(j, s, rest)
      /\ window' = IF \/ j.op \in Pairing \cup {"approve"} /\ s = "registry"
                           /\ ram.registry[j.who] = "none"
                      \/ j.op = "reset" /\ rest = <<>>
                     THEN "closed" ELSE window
      /\ outcome' = IF rest = <<>> THEN Concluded(j, "ok") ELSE outcome
      /\ UNCHANGED <<ready, broken, budget>>

Changed(j, s) == IF s \in j.done THEN <<s>> ELSE <<>>

(* The credentials of a member without a record are written back whether   *)
(* or not they had changed, when its roster cannot be replaced.            *)
ChangedCredential(j) ==
  IF j.op \in {"expel", "erase"} /\ Head(j.todo) = "config"
    THEN <<"credential">>
  ELSE Changed(j, "credential")

(* Mutant of Undoing: the profile is not restored.                         *)
UndoingTwo(j) ==
  IF j.op \in Leased
    THEN ChangedCredential(j) \o Changed(j, "registry")
  ELSE IF j.op = "join" THEN Changed(j, "membership") ELSE <<>>

(* What is taken back: by the engine the stores it changed, by a joiner    *)
(* that could not replace its configuration its former membership.         *)
Undoing(j) ==
  IF j.op \in Leased
    THEN Changed(j, "readiness") \o ChangedCredential(j)
           \o Changed(j, "registry")
  ELSE IF j.op = "join" THEN Changed(j, "membership") ELSE <<>>

(* How a transaction that cannot go on leaves the device: it is the end of *)
(* it, or the stores it changed are restored first.  What is lost is left  *)
(* half done all the same.                                                 *)
Abandon(t, lost) ==
  LET j == job[t]
      s == Head(j.todo)
      undo == Undoing(j)
      refreshing == j.op \in Refreshing /\ s \in {"config", "directory"}
                      /\ ready
  IN  /\ job' = [job EXCEPT ![t] =
           IF undo = <<>> THEN Idle
           ELSE [j EXCEPT !.todo = undo, !.undo = TRUE]]
      /\ outcome' = IF undo = <<>> THEN Concluded(j, "refused") ELSE outcome
      /\ broken' = broken \cup lost \cup
           (IF j.op \in Leased
              THEN IF refreshing /\ Related(ram) # {}
                        /\ recon \in {"pending", "failed"}
                     THEN {"settle"} ELSE {}
            ELSE IF j.op # "reset" /\ j.done = {} THEN {} ELSE {j.op})
      /\ recon' =
           CASE j.op = "settle" -> "failed"
             [] refreshing ->
                  IF Related(ram) = {} THEN "failed" ELSE "not_required"
             [] OTHER -> recon
      /\ UNCHANGED <<flash, ready, window>>

Refuse(t) ==
  /\ Busy(t) /\ ~job[t].undo /\ Refused(job[t])
  /\ Abandon(t, {})
  /\ UNCHANGED <<ram, budget>>

(* What the snapshot of a store holds after its write failed: the engine   *)
(* and pairing put the old content back, the reset does not.  Forgetting a *)
(* profile of a member without record restores it by a second write, and   *)
(* takes no notice when that one fails as well.                            *)
AfterFailure(j, s) ==
  LET changed == IF s = "directory" THEN ram
                 ELSE [ram EXCEPT ![s] = Target(j, s)]
  IN  CASE j.op = "reset" /\ s \in Relations -> {changed}
        [] j.op = "erase" /\ s = "readiness" /\ budget.failures > 1 ->
             {ram, changed}
        [] OTHER -> {ram}

Fail(t) ==
  LET j == job[t]
      s == Head(j.todo)
  IN  /\ Busy(t) /\ ~j.undo /\ ~Refused(j)
      /\ budget.failures > 0
      /\ ~Skips(j, s)
      /\ ~(j.op \in Refreshing /\ s = "membership")
      /\ \E after \in AfterFailure(j, s) :
           /\ Abandon(t, IF after = ram THEN {} ELSE {j.op})
           /\ ram' = after
           /\ budget' = [budget EXCEPT
                !.failures = @ - (IF after = ram \/ j.op = "reset"
                                    THEN 1 ELSE 2)]

(* A refreshed roster that only the membership could not follow is kept,   *)
(* and the loop tries again.                                               *)
DeferMembership ==
  LET j == job["web"] IN
  /\ Busy("web") /\ j.op \in Refreshing /\ ~j.undo
  /\ Head(j.todo) = "membership"
  /\ MembershipTarget(j) # ram.membership
  /\ budget.failures > 0
  /\ budget' = [budget EXCEPT !.failures = @ - 1]
  /\ job' = [job EXCEPT !["web"] = Idle]
  /\ outcome' = Concluded(j, "ok")
  /\ recon' = IF Related(ram) = {} THEN "pending" ELSE "not_required"
  /\ UNCHANGED <<flash, ram, ready, window, broken>>

(* One store is restored; the registry only when the others could be.      *)
Ended(t, j) ==
  /\ job' = [job EXCEPT ![t] = IF j.todo = <<>> THEN Idle ELSE j]
  /\ outcome' = IF j.todo # <<>> THEN outcome
                ELSE Concluded(j, IF j.sound THEN "refused" ELSE "broken")
  /\ broken' = IF j.todo # <<>> \/ j.sound THEN broken
               ELSE broken \cup {j.op}

Restore(t) ==
  LET j == job[t]
      s == Head(j.todo)
  IN  /\ Busy(t) /\ j.undo
      /\ flash' = [flash EXCEPT ![s] = j.saved[s]]
      /\ ram' = [ram EXCEPT ![s] = j.saved[s]]
      /\ Ended(t, [j EXCEPT !.todo = Tail(@)])
      /\ UNCHANGED <<ready, recon, window, budget>>

RestoreFails(t) ==
  LET j == job[t]
      others == Tail(j.todo)
      last == Len(others)
  IN  /\ Busy(t) /\ j.undo /\ budget.failures > 0
      /\ budget' = [budget EXCEPT !.failures = @ - 1]
      /\ Ended(t, [j EXCEPT
           !.todo = IF last > 0 /\ others[last] = "registry"
                      THEN SubSeq(others, 1, last - 1) ELSE others,
           !.sound = FALSE])
      /\ UNCHANGED <<flash, ram, ready, recon, window>>

-----------------------------------------------------------------------------
(* The enrollment window, replication and the power supply.                *)

OpenWindow ==
  /\ recon \in {"not_required", "complete"} /\ ~Leasing /\ ~Busy("web")
  /\ window # Nobody /\ budget.operations > 0
  /\ window' = Nobody
  /\ UNCHANGED <<flash, ram, ready, recon, job, outcome, broken, budget>>

Stage(p) ==
  /\ window = Nobody /\ ram.registry[p] = "none"
  /\ ~Leasing /\ ~Busy("web") /\ budget.operations > 0
  /\ window' = p
  /\ UNCHANGED <<flash, ram, ready, recon, job, outcome, broken, budget>>

(* By the user, or by its own timeout.                                     *)
CloseWindow ==
  /\ window # "closed"
  /\ window' = "closed"
  /\ UNCHANGED <<flash, ram, ready, recon, job, outcome, broken, budget>>

(* A joiner accepts its first roster from the Owner it has paired with.    *)
EnrollmentSource(p) ==
  /\ SameSite(ram) /\ ram.config.owner = Unresolved
  /\ ram.registry[p] = "quarantined" /\ ram.credential[p] = "enabled"
  /\ \A q \in Participant \ {p} :
       /\ ram.registry[q] \in Gone
       /\ \/ ram.credential[q] = "none"
          \/ ram.registry[q] = "revoked" /\ ram.credential[q] = "disabled"

(* A standalone membership of a Site that another Node owns is put right.  *)
Repaired(d) ==
  IF /\ d.membership.mode = "standalone" /\ Related(d) # {}
     /\ SameSite(d) /\ d.config.owner \in Node
     /\ \E p \in Participant : d.config.member[p] \in Active
    THEN [d EXCEPT !.membership.mode = "enrolled"] ELSE d

PullConfiguration(p) ==
  /\ ready /\ ~Busy("loop") /\ EnrollmentSource(p)
  /\ \E others \in SUBSET (Node \ {p}) :
       LET config == [site |-> ram.membership.site, owner |-> p,
                      member |-> [q \in Participant |->
                        IF q = p THEN "eligible"
                        ELSE IF q \in others THEN "active" ELSE "none"]]
       IN  /\ flash' = Repaired([flash EXCEPT !.config = config])
           /\ ram' = Repaired([ram EXCEPT !.config = config])
  /\ UNCHANGED <<ready, recon, window, job, outcome, broken, budget>>

(* Power is lost, and the device boots: a configuration of its own that is *)
(* for another Site than the membership's is not accepted.                 *)
Loaded(d) == d.config.owner # Self \/ SameSite(d)
Scheduled(d) ==
  IF Loaded(d) /\ Related(d) = {} THEN "pending" ELSE "not_required"

PowerCut ==
  /\ budget.cuts > 0
  /\ budget' = [budget EXCEPT !.cuts = @ - 1]
  /\ broken' = broken \cup {job[t].op : t \in {u \in Task : Busy(u)}}
  /\ flash' = Repaired(flash)
  /\ ram' = Repaired(flash)
  /\ ready' = Loaded(flash)
  /\ recon' = Scheduled(flash)
  /\ window' = "closed"
  /\ job' = [t \in Task |-> Idle]
  /\ outcome' = "none"

-----------------------------------------------------------------------------
Init ==
  \E start \in Setup :
    /\ flash = start.disk /\ ram = start.disk
    /\ ready = Loaded(start.disk)
    /\ recon = Scheduled(start.disk)
    /\ window = "closed"
    /\ job = [t \in Task |-> Idle]
    /\ outcome = "none"
    /\ broken = {}
    /\ budget = start.budget

Requested(p) ==
  \/ Approve(p) \/ Configure(p) \/ Reconfigure(p) \/ Activate(p)
  \/ Quarantine(p) \/ Revoke(p) \/ Forget(p) \/ SetCommunityLeader(p)
  \/ ManageMember(p)

Proceeds(t) ==
  Write(t) \/ Refuse(t) \/ Fail(t) \/ Restore(t) \/ RestoreFails(t)

Next ==
  \/ \E p \in Participant : Requested(p) \/ Stage(p)
  \/ \E p \in Node : CommitPairing(p) \/ PullConfiguration(p)
  \/ CommitRoster \/ Reset \/ OpenWindow \/ CloseWindow
  \/ Settle \/ DeferMembership \/ PowerCut
  \/ \E t \in Task : Proceeds(t)

Spec == Init /\ [][Next]_vars

-----------------------------------------------------------------------------
Jobs ==
  [op : Operation \cup {"none"}, who : Participant \cup {Nobody},
   arg : Profile \cup Site, todo : Seq(Store), done : SUBSET Store,
   undo : BOOLEAN, sound : BOOLEAN,
   saved : [registry : [Participant -> Standing],
            readiness : [Participant -> Profile],
            credential : [Participant -> Credential],
            membership : Membership]]

(* Every variable has a value of its kind, and a transaction at work has   *)
(* something left to write.                                                *)
TypeOK ==
  /\ flash \in Disk /\ ram \in Disk
  /\ ready \in BOOLEAN
  /\ recon \in {"not_required", "pending", "complete", "failed"}
  /\ window \in Participant \cup {Nobody, "closed"}
  /\ job \in [Task -> Jobs]
  /\ \A t \in Task : Busy(t) <=> job[t].todo # <<>>
  /\ outcome \in {"none", "ok", "refused", "broken"}
  /\ broken \subseteq Operation
  /\ budget \in [operations : Nat, failures : Nat, cuts : Nat]

Quiet == \A t \in Task : ~Busy(t)

(* A participant that is ACTIVE has a profile by which its observations    *)
(* are admitted, on flash and in memory, between any two writes of any     *)
(* transaction and after any power cut (unless a reset was interrupted,    *)
(* which clears the profiles first).                                       *)
ActiveHasProfile ==
  "reset" \in broken \/ job["web"].op = "reset" \/
    \A p \in Participant :
      /\ flash.registry[p] \in Active => flash.readiness[p] # "none"
      /\ ram.registry[p] \in Active => ram.readiness[p] # "none"

(* When no transaction is at work, and none was left half done, a revoked  *)
(* participant has no credential that works and an ACTIVE one none that    *)
(* has been disabled.                                                      *)
CredentialsFollow ==
  Quiet /\ broken = {} =>
    \A p \in Participant :
      /\ flash.registry[p] = "revoked" => flash.credential[p] # "enabled"
      /\ flash.registry[p] \in Active => flash.credential[p] # "disabled"

(* When the engine reports an operation as done, the roster of a           *)
(* configuration owner gives the participant the standing the registry     *)
(* gives it, on flash.                                                     *)
RosterFollows ==
  [][ LET j == job["web"] IN
      Busy("web") /\ outcome' = "ok" /\ outcome # "ok" /\ OwnedHere(flash')
        /\ j.op \in Refreshing \ {"forget"} =>
        flash'.config.member[j.who] =
          IF flash'.registry[j.who] = "revoked" THEN "none"
          ELSE flash'.registry[j.who] ]_vars

(* An operation reported as refused has left registry, profiles and        *)
(* credentials on flash as it found them (unless an interrupted reset, or  *)
(* a profile that could not be put back, had left the memory with another  *)
(* content than flash).                                                    *)
RefusedRestores ==
  [][ LET j == job["web"] IN
      Busy("web") /\ outcome' = "refused" /\ outcome # "refused"
        /\ broken \cap {"erase", "reset"} = {} =>
        \A s \in Relations : flash'[s] = j.saved[s] ]_vars

(* A device whose resets and pairings all ran to their end has its Site    *)
(* configuration, so that it can be reset, paired and managed (one that    *)
(* was cut short between membership and configuration may never have it    *)
(* again); without relationships, and with nothing left to reconcile, it   *)
(* owns the configuration of the Site it is a standalone member of.        *)
AloneOwns ==
  Quiet /\ broken \cap {"join", "reset"} = {} =>
    /\ ready
    /\ Related(ram) = {} /\ broken = {} /\ recon \notin {"pending", "failed"}
         => /\ OwnedHere(flash) /\ SameSite(flash)
            /\ flash.membership.mode = "standalone"

(* Pairing moves the device to another Site only when it leaves nobody     *)
(* behind but the peer it joins, neither a participant nor, as an owner, a *)
(* member of its roster; unless it ran across a reset.                     *)
NobodyOrphaned ==
  [][ job["loop"].op = "join" /\ ram'.membership.site # ram.membership.site
        /\ ram'.membership.site = job["loop"].arg /\ "reset" \notin broken =>
        /\ Related(ram) \subseteq {job["loop"].who}
        /\ OwnedHere(ram) =>
             \A p \in Participant : ram.config.member[p] \notin Active ]_vars
=============================================================================
