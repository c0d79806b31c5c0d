---------------------------- MODULE TwoSlotStore ----------------------------
(* The persistent stores of a node.  Each keeps two slots and a commit      *)
(* record that names one of them; an update writes the other slot and then  *)
(* the commit record.  The stores differ in three ways:                     *)
(*   medium   "nvs": a key is replaced as a whole;                          *)
(*            "flash": a sector is erased, then written, so that a power    *)
(*            cut or a fault in between leaves it erased or torn            *)
(*   repair   what a boot makes of an unusable commit record: "sole" takes  *)
(*            the only valid slot if the record is absent, "absent" the     *)
(*            newest valid slot if the record is absent, "newest" the       *)
(*            newest valid slot whatever is wrong with the record           *)
(*   base     an update starts from what is "stored", reloaded, or from     *)
(*            the copy in "ram"                                             *)
(* "wraps" stores start over at generation 1; the others stop at the limit. *)
EXTENDS Integers

CONSTANTS
  Value,            \* what a store can hold
  None,
  Lost,             \* the outcome of a load that finds the store corrupt
  GenerationLimit,  \* the code's UINT32_MAX
  Setup             \* the stores, each with or without a first generation

ASSUME GenerationLimitAssumption == GenerationLimit \in Nat \ {0}
ASSUME NoneAssumption == None \notin Value
ASSUME LostAssumption == Lost \notin Value \cup {None}

Slot == {0, 1}
Generation == 1..GenerationLimit
Kind == [medium : {"nvs", "flash"}, repair : {"sole", "absent", "newest"},
         base : {"stored", "ram"}, wraps : BOOLEAN]

ASSUME SetupAssumption ==
  Setup \subseteq [kind : Kind, first : Value \cup {None}]

VARIABLES
  kind,    \* which store this is
  slots,   \* its two slots
  commit,  \* its commit record
  on,      \* the node has power
  job,     \* the write in progress
  used     \* the generation and value the running node works with

vars == <<kind, slots, commit, on, job, used>>

Content(g, v) == [state |-> "whole", gen |-> g, value |-> v]
Erased == [state |-> "erased", gen |-> 0, value |-> None]
Torn == [state |-> "torn", gen |-> 0, value |-> None]

Record(s, g) == [state |-> "whole", slot |-> s, gen |-> g]
ErasedRecord == [state |-> "erased", slot |-> 0, gen |-> 0]
TornRecord == [state |-> "torn", slot |-> 0, gen |-> 0]

(* stage: the sector the job writes next, or "idle"; task: the operation it *)
(* serves; begun: a flash sector has been erased and not yet written.       *)
Job(stage, task, begun, s, g, v) ==
  [stage |-> stage, task |-> task, begun |-> begun,
   slot |-> s, gen |-> g, value |-> v]

Idle == Job("idle", "none", FALSE, 0, 0, None)

Copy(g, v) == [gen |-> g, value |-> v]
NoCopy == Copy(0, None)

TypeOK ==
  /\ kind \in Kind
  /\ slots \in [Slot -> {Erased, Torn} \cup
                        {Content(g, v) : g \in Generation, v \in Value}]
  /\ commit \in {ErasedRecord, TornRecord} \cup
                {Record(s, g) : s \in Slot, g \in Generation}
  /\ on \in BOOLEAN
  /\ job \in [stage : {"idle", "slot", "commit", "repair"},
              task : {"none", "load", "create", "update"}, begun : BOOLEAN,
              slot : Slot, gen : 0..GenerationLimit, value : Value \cup {None}]
  /\ used \in {NoCopy} \cup {Copy(g, v) : g \in Generation, v \in Value}

-----------------------------------------------------------------------------
(* Loading *)

Whole(s) == slots[s].state = "whole"

(* The commit record is intact and so is the slot it names. *)
Usable ==
  /\ commit.state = "whole"
  /\ Whole(commit.slot)
  /\ slots[commit.slot].gen = commit.gen

(* Slot 1 wins only with a higher generation. *)
Newest ==
  IF Whole(1) /\ (Whole(0) => slots[1].gen > slots[0].gen) THEN 1 ELSE 0

SoleRepair ==
  /\ kind.repair = "sole" /\ commit.state = "erased"
  /\ Whole(0) # Whole(1)

AbsentRepair ==
  /\ kind.repair = "absent" /\ commit.state = "erased"
  /\ Whole(0) \/ Whole(1)

MutantErasedOnly ==  \* a torn record is not repaired
  /\ kind.repair = "newest" /\ commit.state = "erased"
  /\ Whole(0) \/ Whole(1)

NewestRepair ==
  /\ kind.repair = "newest" /\ ~Usable
  /\ Whole(0) \/ Whole(1)

Repairable == SoleRepair \/ AbsentRepair \/ NewestRepair

Empty ==
  /\ \A s \in Slot : slots[s].state = "erased"
  /\ kind.repair # "newest" => commit.state = "erased"

Selected == IF Usable THEN commit.slot ELSE Newest

(* What a load returns now: the state of the store as a reboot sees it *)
Recovered ==
  IF Usable \/ Repairable THEN slots[Selected].value
  ELSE IF Empty THEN None ELSE Lost

RecoveredGeneration ==
  IF Usable \/ Repairable THEN slots[Selected].gen ELSE 0

-----------------------------------------------------------------------------
(* Operations *)

MutantNoLimit(g) == TRUE  \* no check for the last generation

MayAdvance(g) == g < GenerationLimit \/ kind.wraps

NextGeneration(g) == IF g = GenerationLimit THEN 1 ELSE g + 1

MutantInPlace(s) == s  \* overwrites the committed slot

OtherSlot(s) == 1 - s

Init ==
  /\ \E s \in Setup :
       /\ kind = s.kind
       /\ slots = [t \in Slot |-> IF t = 0 /\ s.first # None
                                  THEN Content(1, s.first) ELSE Erased]
       /\ commit = IF s.first # None THEN Record(0, 1) ELSE ErasedRecord
  /\ on = FALSE
  /\ job = Idle
  /\ used = NoCopy

(* A boot loads the store, repairs its commit record, or creates it; from a *)
(* corrupt store the node has nothing to work with.                         *)
Load ==
  /\ Usable \/ Recovered = Lost
  /\ used' = IF Usable THEN Copy(RecoveredGeneration, Recovered) ELSE NoCopy
  /\ UNCHANGED job

LoadAndRepair ==
  /\ ~Usable /\ Repairable
  /\ job' = Job("repair", "load", FALSE, Selected, RecoveredGeneration, None)
  /\ UNCHANGED used

Create(v) ==
  /\ ~Usable /\ ~Repairable /\ Empty
  /\ job' = Job("slot", "create", FALSE, 0, 1, v)
  /\ UNCHANGED used

Boot ==
  /\ ~on /\ on' = TRUE
  /\ Load \/ LoadAndRepair \/ \E v \in Value : Create(v)
  /\ UNCHANGED <<kind, slots, commit>>

(* An update reloads the store first, and may find a commit record to       *)
(* repair that an earlier failed write left behind.                         *)
UpdateStored(v) ==
  /\ kind.base = "stored"
  /\ \/ /\ Usable /\ MayAdvance(RecoveredGeneration)
        /\ job' = Job("slot", "update", FALSE, OtherSlot(Selected),
                      NextGeneration(RecoveredGeneration), v)
     \/ /\ ~Usable /\ Repairable
        /\ job' = Job("repair", "update", FALSE, Selected,
                      RecoveredGeneration, v)

(* The credential and trust stores continue from the copy in RAM, and only  *)
(* while the commit record still agrees with it.                            *)
UpdateCopy(v) ==
  /\ kind.base = "ram"
  /\ used # NoCopy
  /\ commit.state = "whole" /\ commit.gen = used.gen
  /\ MayAdvance(used.gen)
  /\ job' = Job("slot", "update", FALSE, OtherSlot(commit.slot),
                NextGeneration(used.gen), v)

Update(v) ==
  /\ on /\ job = Idle
  /\ UpdateStored(v) \/ UpdateCopy(v)
  /\ UNCHANGED <<kind, slots, commit, on, used>>

-----------------------------------------------------------------------------
(* Writing a sector *)

Put(content) ==
  /\ slots' = [slots EXCEPT ![job.slot] = content]
  /\ UNCHANGED commit

PutRecord(record) ==
  /\ commit' = record
  /\ UNCHANGED slots

WriteWhole ==
  \/ job.stage = "slot" /\ Put(Content(job.gen, job.value))
  \/ job.stage \in {"commit", "repair"} /\ PutRecord(Record(job.slot, job.gen))

(* The sector is being erased or written: a power cut finds it empty or torn. *)
EraseSector ==
  /\ on /\ job.stage # "idle" /\ ~job.begun
  /\ kind.medium = "flash"
  /\ \/ job.stage = "slot" /\ (Put(Erased) \/ Put(Torn))
     \/ /\ job.stage \in {"commit", "repair"}
        /\ PutRecord(ErasedRecord) \/ PutRecord(TornRecord)
  /\ job' = Job(job.stage, job.task, TRUE, job.slot, job.gen, job.value)
  /\ UNCHANGED <<kind, on, used>>

ReadyToWrite == on /\ (kind.medium = "flash" => job.begun)

FinishSlot ==
  /\ ReadyToWrite /\ job.stage = "slot"
  /\ WriteWhole
  /\ job' = Job("commit", job.task, FALSE, job.slot, job.gen, job.value)
  /\ UNCHANGED <<kind, on, used>>

FinishCommit ==
  /\ ReadyToWrite /\ job.stage = "commit"
  /\ WriteWhole
  /\ job' = Idle
  /\ used' = Copy(job.gen, job.value)
  /\ UNCHANGED <<kind, on>>

(* A repaired load is done; a repaired update goes on to the other slot. *)
FinishRepair ==
  /\ ReadyToWrite /\ job.stage = "repair"
  /\ WriteWhole
  /\ \/ /\ job.task = "load"
        /\ job' = Idle
        /\ used' = Copy(job.gen, slots[job.slot].value)
     \/ /\ job.task = "update"
        /\ job' = IF MayAdvance(job.gen)
                  THEN Job("slot", "update", FALSE, OtherSlot(job.slot),
                           NextGeneration(job.gen), job.value)
                  ELSE Idle
        /\ UNCHANGED used
  /\ UNCHANGED <<kind, on>>

(* The driver reports an error: the sector is as far as it got, or even     *)
(* complete.                                                                *)
FailWrite ==
  /\ on /\ job.stage # "idle"
  /\ UNCHANGED <<slots, commit>> \/ (ReadyToWrite /\ WriteWhole)
  /\ job' = Idle
  /\ UNCHANGED <<kind, on, used>>

PowerLoss ==
  /\ on /\ on' = FALSE
  /\ job' = Idle /\ used' = NoCopy
  /\ UNCHANGED <<kind, slots, commit>>

Next ==
  \/ Boot \/ (\E v \in Value : Update(v))
  \/ EraseSector \/ FinishSlot \/ FinishCommit \/ FinishRepair
  \/ FailWrite \/ PowerLoss

Spec == Init /\ [][Next]_vars

-----------------------------------------------------------------------------
(* Properties *)

(* What an update in progress is going to store *)
Pending == IF job.task \in {"create", "update"} THEN job.value ELSE None

Register == INSTANCE DurableValue
              WITH stored <- Recovered, pending <- Pending, used <- used.value

(* Through every power cut, failed write and repair, the store is one value *)
(* replaced as a whole: what a reboot finds is the value of the last update *)
(* reported done, or of a later one that took effect when it was made.      *)
AtomicUpdate == Register!Spec

(* A reboot never falls back behind a generation it would have found       *)
(* before, except where the membership's generation starts over.            *)
GenerationAdvances ==
  [][kind.wraps \/ RecoveredGeneration' >= RecoveredGeneration]_vars

(* The running node never works with a value that a power cut would take    *)
(* back to an earlier one, or with another value of the same generation.    *)
NothingUnsaved ==
  used # NoCopy /\ ~kind.wraps =>
    \/ used.gen < RecoveredGeneration
    \/ used = Copy(RecoveredGeneration, Recovered)

(* "interrupted writes retain a complete old or new generation"             *)
(* (docs/platform/implementation-roadmap.md, on membership and registry).   *)
InterruptedWriteRetains == Recovered # Lost
=============================================================================
