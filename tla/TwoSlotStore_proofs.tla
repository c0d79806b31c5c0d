------------------------- MODULE TwoSlotStore_proofs -------------------------
(***************************************************************************)
(* A store whose medium and repair rule fit each other is one value,       *)
(* replaced as a whole, for every set of values and generation limit.      *)
(***************************************************************************)
EXTENDS TwoSlotStore, TLAPS

(* What the stores of Setup need: on flash, a first generation, a repair    *)
(* that does not depend on how the commit record was damaged, and           *)
(* generations that tell new from old.                                      *)
Crashproof ==
  \A s \in Setup : s.kind.medium = "flash" =>
    s.kind.repair = "newest" /\ ~s.kind.wraps /\ s.first # None

-----------------------------------------------------------------------------
(* Types                                                                   *)

(* The sectors a store writes and the jobs it sets up are well formed.     *)
LEMMA Shapes ==
  /\ \A g \in Generation, v \in Value : Content(g, v).state = "whole"
  /\ 1 \in Generation /\ Generation \subseteq 0..GenerationLimit
  /\ \A g \in Generation : MayAdvance(g) => NextGeneration(g) \in Generation
  /\ \A g \in Generation : NextGeneration(g) \in Generation
  /\ \A g \in Generation : MayAdvance(g) /\ ~kind.wraps
                             => NextGeneration(g) = g + 1
  /\ \A s \in Slot : OtherSlot(s) \in Slot /\ OtherSlot(s) # s
  /\ \A s, t \in Slot : s # t => t = OtherSlot(s)
BY GenerationLimitAssumption
   DEF Content, Generation, MayAdvance, NextGeneration, OtherSlot, Slot

(* What the fields of a sector and of the commit record can be.            *)
LEMMA Fields ==
  TypeOK =>
    /\ \A s \in Slot : /\ slots[s].state \in {"erased", "torn", "whole"}
                       /\ Whole(s) => /\ slots[s].gen \in Generation
                                      /\ slots[s].value \in Value
                                      /\ slots[s] = Content(slots[s].gen, slots[s].value)
                       /\ ~Whole(s) => slots[s].gen = 0
    /\ commit.state \in {"erased", "torn", "whole"}
    /\ commit.state = "whole" => /\ commit.slot \in Slot
                                 /\ commit.gen \in Generation
    /\ job.slot \in Slot /\ job.gen \in 0..GenerationLimit
    /\ job.value \in Value \cup {None}
    /\ used # NoCopy => used.gen \in Generation /\ used.value \in Value
<1> SUFFICES ASSUME TypeOK
             PROVE  /\ \A s \in Slot :
                         /\ slots[s].state \in {"erased", "torn", "whole"}
                         /\ Whole(s) => /\ slots[s].gen \in Generation
                                        /\ slots[s].value \in Value
                                        /\ slots[s] = Content(slots[s].gen, slots[s].value)
                         /\ ~Whole(s) => slots[s].gen = 0
                    /\ commit.state \in {"erased", "torn", "whole"}
                    /\ commit.state = "whole" => /\ commit.slot \in Slot
                                                 /\ commit.gen \in Generation
                    /\ job.slot \in Slot /\ job.gen \in 0..GenerationLimit
                    /\ job.value \in Value \cup {None}
                    /\ used # NoCopy => /\ used.gen \in Generation
                                        /\ used.value \in Value
  OBVIOUS
<1>1. ASSUME NEW s \in Slot
      PROVE  /\ slots[s].state \in {"erased", "torn", "whole"}
             /\ Whole(s) => /\ slots[s].gen \in Generation
                            /\ slots[s].value \in Value
                            /\ slots[s] = Content(slots[s].gen, slots[s].value)
             /\ ~Whole(s) => slots[s].gen = 0
  BY DEF TypeOK, Whole, Content, Erased, Torn
<1>2. /\ commit.state \in {"erased", "torn", "whole"}
      /\ commit.state = "whole" => /\ commit.slot \in Slot
                                   /\ commit.gen \in Generation
  BY DEF TypeOK, Record, ErasedRecord, TornRecord
<1>3. /\ job.slot \in Slot /\ job.gen \in 0..GenerationLimit
      /\ job.value \in Value \cup {None}
  BY DEF TypeOK
<1>4. used # NoCopy => used.gen \in Generation /\ used.value \in Value
  BY DEF TypeOK, Copy
<1> QED BY <1>1, <1>2, <1>3, <1>4

-----------------------------------------------------------------------------
(* The inductive invariant                                                 *)

SafeKind ==
  kind.medium = "flash" => kind.repair = "newest" /\ ~kind.wraps

(* The slot a commit record names is never the one being written. *)
CommitHolds ==
  commit.state = "whole" => /\ Whole(commit.slot)
                            /\ slots[commit.slot].gen = commit.gen

(* Without a commit record, flash holds two generations that differ, and    *)
(* NVS at most the first slot.                                              *)
CommitMissing ==
  commit.state # "whole" =>
    IF kind.medium = "flash"
    THEN Whole(0) /\ Whole(1) /\ slots[0].gen # slots[1].gen
    ELSE ~Whole(1)

NvsIntact ==
  kind.medium # "flash" =>
    /\ commit.state # "torn" /\ ~job.begun
    /\ \A s \in Slot : slots[s].state # "torn"

Resting ==
  /\ job.stage = "idle" => job.task = "none" /\ job.value = None
  /\ ~on => job.stage = "idle" /\ used = NoCopy

(* The slot written first is not the committed one, and its generation is   *)
(* higher unless the store wraps; a store being created holds nothing.      *)
SlotJob ==
  job.stage = "slot" =>
    /\ job.value \in Value /\ job.gen \in Generation
    /\ \/ /\ job.task = "update" /\ commit.state = "whole"
          /\ job.slot = OtherSlot(commit.slot)
          /\ kind.wraps \/ job.gen > commit.gen
       \/ /\ job.task = "create" /\ commit.state # "whole"
          /\ kind.medium # "flash" /\ job.slot = 0
          /\ ~Whole(0) /\ ~Whole(1)

(* Once that slot is whole it is the newest one. *)
CommitJob ==
  job.stage = "commit" =>
    /\ job.value \in Value /\ job.gen \in Generation
    /\ slots[job.slot] = Content(job.gen, job.value)
    /\ kind.medium = "flash" \/ job.task = "update" =>
         /\ job.task = "update" /\ Whole(OtherSlot(job.slot))
         /\ kind.wraps \/ job.gen > slots[OtherSlot(job.slot)].gen
    /\ job.task = "update" =>
         \/ commit.state = "whole" /\ commit.slot = OtherSlot(job.slot)
         \/ commit.state # "whole" /\ kind.medium = "flash"
    /\ job.task # "update" =>
         job.task = "create" /\ commit.state # "whole" /\ job.slot = 0

RepairJob ==
  job.stage = "repair" =>
    /\ commit.state # "whole" /\ Whole(job.slot)
    /\ job.slot = Newest /\ job.gen = slots[job.slot].gen
    /\ \/ job.task = "load" /\ job.value = None
       \/ job.task = "update" /\ job.value \in Value

Consistent ==
  /\ TypeOK /\ SafeKind /\ CommitHolds /\ CommitMissing /\ NvsIntact
  /\ Resting /\ SlotJob /\ CommitJob /\ RepairJob

-----------------------------------------------------------------------------
(* What a load returns                                                     *)

Evaluated ==
  /\ commit.state = "whole" =>
       /\ Usable /\ Selected = commit.slot
       /\ RecoveredGeneration = commit.gen
       /\ Recovered = slots[commit.slot].value
  /\ commit.state # "whole" /\ (Whole(0) \/ Whole(1)) =>
       /\ ~Usable /\ Repairable /\ Selected = Newest
       /\ Newest \in Slot /\ Whole(Newest)
       /\ \A s \in Slot : Whole(s) => slots[s].gen <= slots[Newest].gen
       /\ RecoveredGeneration = slots[Newest].gen
       /\ Recovered = slots[Newest].value
  /\ commit.state # "whole" /\ ~Whole(0) /\ ~Whole(1) =>
       /\ ~Usable /\ ~Repairable /\ Empty /\ kind.medium # "flash"
       /\ RecoveredGeneration = 0 /\ Recovered = None

(* A consistent store is never corrupt: its commit record is good, or the   *)
(* newest whole slot is taken, or it is empty.                              *)
LEMMA Evaluation == Consistent => Evaluated
<1> SUFFICES ASSUME Consistent PROVE Evaluated
  OBVIOUS
<1> USE DEF Consistent
<1>0. /\ commit.state \in {"erased", "torn", "whole"}
      /\ \A s \in Slot : /\ slots[s].state \in {"erased", "torn", "whole"}
                         /\ Whole(s) => slots[s].gen \in Generation
      /\ Generation \subseteq Nat
      /\ 0 \in Slot /\ 1 \in Slot
      /\ kind.repair \in {"sole", "absent", "newest"}
      /\ kind.medium \in {"nvs", "flash"}
  BY Fields, GenerationLimitAssumption DEF Generation, Slot, TypeOK, Kind
<1>1. ASSUME commit.state = "whole"
      PROVE  /\ Usable /\ Selected = commit.slot
             /\ RecoveredGeneration = commit.gen
             /\ Recovered = slots[commit.slot].value
  BY <1>1 DEF CommitHolds, Usable, Selected, RecoveredGeneration, Recovered
<1>2. ASSUME commit.state # "whole", Whole(0) \/ Whole(1)
      PROVE  /\ ~Usable /\ Repairable /\ Selected = Newest
             /\ Newest \in Slot /\ Whole(Newest)
             /\ \A s \in Slot : Whole(s) => slots[s].gen <= slots[Newest].gen
             /\ RecoveredGeneration = slots[Newest].gen
             /\ Recovered = slots[Newest].value
  <2>1. ~Usable /\ Selected = Newest
    BY <1>2 DEF Usable, Selected
  <2>2. ASSUME kind.medium = "flash" PROVE Repairable
    BY <2>1, <2>2, <1>2 DEF Repairable, NewestRepair, SafeKind
  <2>3. ASSUME kind.medium # "flash" PROVE Repairable
    <3>1. commit.state = "erased" /\ Whole(0) /\ ~Whole(1)
      BY <2>3, <1>0, <1>2 DEF NvsIntact, CommitMissing
    <3> QED BY <3>1, <2>1, <1>0
            DEF Repairable, SoleRepair, AbsentRepair, NewestRepair, Whole
  <2>4. Repairable
    BY <2>2, <2>3
  <2>5. /\ Newest \in Slot /\ Whole(Newest)
        /\ \A s \in Slot : Whole(s) => slots[s].gen <= slots[Newest].gen
    <3> DEFINE Ahead == Whole(1) /\ (Whole(0) => slots[1].gen > slots[0].gen)
    <3>1. \A s \in Slot : Whole(s) => slots[s].gen \in Nat
      BY <1>0
    <3>2. CASE Ahead
      <4>1. Newest = 1
        BY <3>2 DEF Newest
      <4> QED BY <4>1, <3>1, <3>2 DEF Slot
    <3>3. CASE ~Ahead
      <4>1. Newest = 0
        BY <3>3 DEF Newest
      <4>2. Whole(0)
        BY <3>3, <1>2
      <4> QED BY <4>1, <4>2, <3>1, <3>3 DEF Slot
    <3> QED BY <3>2, <3>3
  <2> QED BY <2>1, <2>4, <2>5 DEF RecoveredGeneration, Recovered
<1>3. ASSUME commit.state # "whole", ~Whole(0), ~Whole(1)
      PROVE  /\ ~Usable /\ ~Repairable /\ Empty /\ kind.medium # "flash"
             /\ RecoveredGeneration = 0 /\ Recovered = None
  <2>1. kind.medium # "flash"
    BY <1>3 DEF CommitMissing
  <2>2. ~Usable /\ ~Repairable
    BY <1>3 DEF Usable, Repairable, SoleRepair, AbsentRepair, NewestRepair,
                   Whole
  <2>3. commit.state = "erased" /\ \A s \in Slot : slots[s].state = "erased"
    BY <2>1, <1>0, <1>3 DEF NvsIntact, Whole, Slot
  <2>4. Empty
    BY <2>3 DEF Empty
  <2> QED BY <2>1, <2>2, <2>4 DEF RecoveredGeneration, Recovered
<1> QED BY <1>1, <1>2, <1>3 DEF Evaluated

-----------------------------------------------------------------------------
(* The invariant holds                                                     *)

(* Every store of Setup starts consistent. *)
LEMMA InitConsistent == Crashproof /\ Init => Consistent
<1> SUFFICES ASSUME Crashproof, Init PROVE Consistent
  OBVIOUS
<1>1. PICK s \in Setup :
        /\ kind = s.kind
        /\ slots = [t \in Slot |-> IF t = 0 /\ s.first # None
                                   THEN Content(1, s.first) ELSE Erased]
        /\ commit = IF s.first # None THEN Record(0, 1) ELSE ErasedRecord
  BY DEF Init
<1>2. s.kind \in Kind /\ s.first \in Value \cup {None}
  BY SetupAssumption
<1>3. ~on /\ job = Idle /\ used = NoCopy
  BY DEF Init
<1>4. 1 \in Generation
  BY Shapes
<1>5. /\ slots[0] = IF s.first # None THEN Content(1, s.first) ELSE Erased
      /\ slots[1] = Erased
  BY <1>1 DEF Slot
<1>6. kind \in Kind /\ on \in BOOLEAN /\ used \in {NoCopy}
  BY <1>1, <1>2, <1>3 DEF Init
<1>7. slots \in [Slot -> {Erased, Torn} \cup
                         {Content(g, v) : g \in Generation, v \in Value}]
  BY <1>1, <1>2, <1>4 DEF Slot
<1>8. commit \in {ErasedRecord, TornRecord} \cup
                 {Record(t, g) : t \in Slot, g \in Generation}
  BY <1>1, <1>4 DEF Slot
<1>9. job \in [stage : {"idle", "slot", "commit", "repair"},
               task : {"none", "load", "create", "update"}, begun : BOOLEAN,
               slot : Slot, gen : 0..GenerationLimit, value : Value \cup {None}]
  BY <1>3, GenerationLimitAssumption DEF Idle, Job, Slot
<1>10. TypeOK
  BY <1>6, <1>7, <1>8, <1>9 DEF TypeOK
<1>11. SafeKind
  BY <1>1 DEF SafeKind, Crashproof
<1>12. CommitHolds
  BY <1>1, <1>5 DEF CommitHolds, Whole, Record, ErasedRecord, Content
<1>13. CommitMissing
  BY <1>1, <1>5 DEF CommitMissing, Crashproof, Whole, Record, Erased
<1>14. NvsIntact
  BY <1>1, <1>3, <1>5
     DEF NvsIntact, Slot, Content, Erased, Record, ErasedRecord, Idle, Job
<1>15. Resting /\ SlotJob /\ CommitJob /\ RepairJob
  BY <1>3 DEF Resting, SlotJob, CommitJob, RepairJob, Idle, Job
<1> QED BY <1>10, <1>11, <1>12, <1>13, <1>14, <1>15 DEF Consistent

(* A job that is set up or dropped while every sector stays as it is. *)
LEMMA SectorsKept ==
  ASSUME Consistent, UNCHANGED <<kind, slots, commit>>
  PROVE  /\ SafeKind' /\ CommitHolds' /\ CommitMissing'
         /\ Newest' = Newest /\ \A s \in Slot : Whole(s)' = Whole(s)
         /\ Recovered' = Recovered /\ RecoveredGeneration' = RecoveredGeneration
         /\ kind.medium # "flash" /\ ~job'.begun => NvsIntact'
         /\ kind.medium = "flash" => NvsIntact'
<1>1. SafeKind' /\ CommitHolds' /\ CommitMissing'
  BY DEF Consistent, SafeKind, CommitHolds, CommitMissing, Whole
<1>2. Newest' = Newest /\ \A s \in Slot : Whole(s)' = Whole(s)
  BY DEF Newest, Whole
<1>3. Recovered' = Recovered /\ RecoveredGeneration' = RecoveredGeneration
  BY DEF Recovered, RecoveredGeneration, Usable, Repairable, SoleRepair,
         AbsentRepair, NewestRepair, Empty, Selected, Newest, Whole
<1>4. /\ kind.medium # "flash" /\ ~job'.begun => NvsIntact'
      /\ kind.medium = "flash" => NvsIntact'
  BY DEF Consistent, NvsIntact
<1> QED BY <1>1, <1>2, <1>3, <1>4

(* Dropping the job leaves the rest consistent. *)
LEMMA IdleConsistent ==
  ASSUME Consistent, UNCHANGED <<kind, slots, commit>>,
         job' = Idle, on' \in BOOLEAN, ~on' => used' = NoCopy,
         used' \in {NoCopy} \cup {Copy(g, v) : g \in Generation, v \in Value}
  PROVE  Consistent'
<1>1. /\ job'.stage = "idle" /\ job'.task = "none" /\ job'.value = None
      /\ ~job'.begun
  BY DEF Idle, Job
<1>2. job' \in [stage : {"idle", "slot", "commit", "repair"},
               task : {"none", "load", "create", "update"}, begun : BOOLEAN,
               slot : Slot, gen : 0..GenerationLimit, value : Value \cup {None}]
  BY GenerationLimitAssumption DEF Idle, Job, Slot
<1>3. TypeOK'
  BY <1>2 DEF Consistent, TypeOK
<1>4. SafeKind' /\ CommitHolds' /\ CommitMissing' /\ NvsIntact'
  BY <1>1, SectorsKept
<1>5. Resting' /\ SlotJob' /\ CommitJob' /\ RepairJob'
  BY <1>1 DEF Resting, SlotJob, CommitJob, RepairJob
<1> QED BY <1>3, <1>4, <1>5 DEF Consistent

(* A step that only changes the job is well typed if the job is. *)
LEMMA JobTyped ==
  ASSUME TypeOK, UNCHANGED <<kind, slots, commit, used>>, on' \in BOOLEAN,
         job' \in [stage : {"idle", "slot", "commit", "repair"},
               task : {"none", "load", "create", "update"}, begun : BOOLEAN,
               slot : Slot, gen : 0..GenerationLimit, value : Value \cup {None}]
  PROVE  TypeOK'
BY DEF TypeOK

(* Setting up the write of a slot, for a new store or an update. *)
LEMMA SlotJobConsistent ==
  ASSUME Consistent, UNCHANGED <<kind, slots, commit, used>>, on' = TRUE,
         NEW task \in {"create", "update"}, NEW s \in Slot,
         NEW g \in Generation, NEW v \in Value,
         job' = Job("slot", task, FALSE, s, g, v),
         \/ /\ task = "update" /\ commit.state = "whole"
            /\ s = OtherSlot(commit.slot)
            /\ (kind.wraps \/ g > commit.gen)
         \/ /\ task = "create" /\ commit.state # "whole"
            /\ kind.medium # "flash" /\ s = 0 /\ ~Whole(0) /\ ~Whole(1)
  PROVE  Consistent'
<1>1. /\ job'.stage = "slot" /\ job'.task = task /\ ~job'.begun
      /\ job'.slot = s /\ job'.gen = g /\ job'.value = v
  BY DEF Job
<1>2. g \in 0..GenerationLimit
  BY Shapes
<1>3. job' \in [stage : {"idle", "slot", "commit", "repair"},
               task : {"none", "load", "create", "update"}, begun : BOOLEAN,
               slot : Slot, gen : 0..GenerationLimit, value : Value \cup {None}]
  BY <1>2 DEF Job
<1>4. TypeOK'
  BY <1>3, JobTyped DEF Consistent
<1>5. SafeKind' /\ CommitHolds' /\ CommitMissing' /\ NvsIntact'
  BY <1>1, SectorsKept
<1>7. SlotJob'
  <2>1. CASE task = "update"
    <3>1. /\ commit'.state = "whole" /\ s = OtherSlot(commit'.slot)
          /\ (kind'.wraps \/ g > commit'.gen)
      BY <2>1
    <3> QED BY <1>1, <2>1, <3>1 DEF SlotJob, OtherSlot
  <2>2. CASE task = "create"
    <3>1. /\ commit'.state # "whole" /\ kind'.medium # "flash" /\ s = 0
          /\ ~Whole(0)' /\ ~Whole(1)'
      BY <2>2 DEF Whole
    <3> QED BY <1>1, <2>2, <3>1 DEF SlotJob
  <2> QED BY <2>1, <2>2
<1>8. Resting' /\ CommitJob' /\ RepairJob'
  BY <1>1 DEF Resting, CommitJob, RepairJob
<1> QED BY <1>4, <1>5, <1>7, <1>8 DEF Consistent

(* Setting up the repair of the commit record, in a load or an update. *)
LEMMA RepairJobConsistent ==
  ASSUME Consistent, UNCHANGED <<kind, slots, commit, used>>, on' = TRUE,
         NEW task, NEW v,
         \/ task = "load" /\ v = None
         \/ task = "update" /\ v \in Value,
         ~Usable, Repairable,
         job' = Job("repair", task, FALSE, Selected, RecoveredGeneration, v)
  PROVE  Consistent'
<1>1. Evaluated
  BY Evaluation
<1>2. /\ commit.state # "whole" /\ Selected = Newest /\ Newest \in Slot
      /\ Whole(Newest) /\ RecoveredGeneration = slots[Newest].gen
  BY <1>1 DEF Evaluated
<1>3. /\ job'.stage = "repair" /\ job'.task = task /\ ~job'.begun
      /\ job'.slot = Newest /\ job'.gen = slots[Newest].gen /\ job'.value = v
  BY <1>2 DEF Job
<1>4. slots[Newest].gen \in 0..GenerationLimit
  BY <1>2, Fields, Shapes DEF Consistent
<1>5. job' \in [stage : {"idle", "slot", "commit", "repair"},
               task : {"none", "load", "create", "update"}, begun : BOOLEAN,
               slot : Slot, gen : 0..GenerationLimit, value : Value \cup {None}]
  BY <1>2, <1>4 DEF Job
<1>6. TypeOK'
  BY <1>5, JobTyped DEF Consistent
<1>7. SafeKind' /\ CommitHolds' /\ CommitMissing' /\ NvsIntact'
  BY <1>3, SectorsKept
<1>8. RepairJob'
  <2>1. Newest' = Newest /\ Whole(Newest)'
    BY <1>2, SectorsKept DEF Whole
  <2>2. job'.gen = slots'[job'.slot].gen
    BY <1>3
  <2> QED BY <2>1, <2>2, <1>2, <1>3 DEF RepairJob, Whole
<1>9. Resting' /\ SlotJob' /\ CommitJob'
  BY <1>3 DEF Resting, SlotJob, CommitJob
<1> QED BY <1>6, <1>7, <1>8, <1>9 DEF Consistent

(* What a power cut or a failure can leave in the slot being written. *)
SlotContent == {Erased, Torn, Content(job.gen, job.value)}

Written(c) == [slots EXCEPT ![job.slot] = c]

(* Whatever becomes of the slot being written, the committed one stands. *)
LEMMA SlotPut ==
  ASSUME Consistent, job.stage = "slot", kind' = kind, commit' = commit,
         NEW c \in SlotContent,
         slots' = Written(c),
         kind.medium = "flash" \/ c = Content(job.gen, job.value)
  PROVE  /\ slots' \in [Slot -> {Erased, Torn} \cup
                           {Content(g, v) : g \in Generation, v \in Value}]
         /\ slots'[job.slot] = c
         /\ \A s \in Slot : s # job.slot => slots'[s] = slots[s]
         /\ SafeKind' /\ CommitHolds' /\ CommitMissing'
         /\ kind.medium # "flash" => /\ commit'.state # "torn"
                                     /\ \A s \in Slot : slots'[s].state # "torn"
<1>1. job.slot \in Slot /\ job.gen \in Generation /\ job.value \in Value
  BY Fields DEF Consistent, SlotJob
<1>2. slots \in [Slot -> {Erased, Torn} \cup
                         {Content(g, v) : g \in Generation, v \in Value}]
  BY DEF Consistent, TypeOK
<1>3. slots' \in [Slot -> {Erased, Torn} \cup
                         {Content(g, v) : g \in Generation, v \in Value}]
  BY <1>1, <1>2 DEF SlotContent, Written
<1>4. /\ slots'[job.slot] = c
      /\ \A s \in Slot : s # job.slot => slots'[s] = slots[s]
  BY <1>1, <1>2 DEF Written
<1>5. SafeKind'
  BY DEF Consistent, SafeKind
<1>6. CommitHolds'
  <2>1. SUFFICES ASSUME commit.state = "whole"
                 PROVE  slots'[commit.slot] = slots[commit.slot]
    BY DEF CommitHolds, Consistent, Whole
  <2>2. commit.slot \in Slot /\ job.slot = OtherSlot(commit.slot)
    BY <2>1, Fields DEF Consistent, SlotJob
  <2> QED BY <2>2, <1>4, Shapes
<1>7. CommitMissing'
  <2>1. SUFFICES ASSUME commit.state # "whole"
                 PROVE  kind.medium # "flash" /\ ~Whole(1)'
    BY DEF CommitMissing
  <2>2. kind.medium # "flash" /\ job.slot = 0 /\ ~Whole(1)
    BY <2>1 DEF Consistent, SlotJob
  <2> QED BY <2>2, <1>4 DEF Whole, Slot
<1>8. ASSUME kind.medium # "flash"
      PROVE  /\ commit'.state # "torn"
             /\ \A s \in Slot : slots'[s].state # "torn"
  BY <1>8, <1>4 DEF Consistent, NvsIntact, Content
<1> QED BY <1>3, <1>4, <1>5, <1>6, <1>7, <1>8

(* The commit record is only rewritten once the slot it is to name is       *)
(* whole, and on flash while the other one is whole too.                    *)
LEMMA CommitPut ==
  ASSUME Consistent, job.stage \in {"commit", "repair"},
         kind' = kind, slots' = slots,
         NEW r \in {ErasedRecord, TornRecord, Record(job.slot, job.gen)},
         commit' = r,
         kind.medium = "flash" \/ r = Record(job.slot, job.gen)
  PROVE  /\ commit' \in {ErasedRecord, TornRecord} \cup
                         {Record(s, g) : s \in Slot, g \in Generation}
         /\ SafeKind' /\ CommitHolds' /\ CommitMissing'
         /\ kind.medium # "flash" => /\ commit'.state # "torn"
                                     /\ \A s \in Slot : slots'[s].state # "torn"
<1>1. /\ job.slot \in Slot /\ job.gen \in Generation
      /\ Whole(job.slot) /\ slots[job.slot].gen = job.gen
  <2>1. job.slot \in Slot
    BY Fields DEF Consistent
  <2>2. CASE job.stage = "commit"
    BY <2>1, <2>2 DEF Consistent, CommitJob, Whole, Content
  <2>3. CASE job.stage = "repair"
    <3>1. Whole(job.slot) /\ slots[job.slot].gen = job.gen
      BY <2>3 DEF Consistent, RepairJob
    <3> QED BY <2>1, <3>1, Fields DEF Consistent
  <2> QED BY <2>1, <2>2, <2>3
<1>2. commit' \in {ErasedRecord, TornRecord} \cup
                  {Record(s, g) : s \in Slot, g \in Generation}
  BY <1>1
<1>3. SafeKind'
  BY DEF Consistent, SafeKind
<1>4. CommitHolds'
  BY <1>1 DEF CommitHolds, Whole, Record, ErasedRecord, TornRecord
<1>5. CommitMissing'
  <2>1. SUFFICES ASSUME kind.medium = "flash"
                 PROVE  Whole(0) /\ Whole(1) /\ slots[0].gen # slots[1].gen
    BY DEF CommitMissing, Whole, Record
  <2>2. CASE job.stage = "commit"
    <3>1. Whole(OtherSlot(job.slot)) /\ job.gen > slots[OtherSlot(job.slot)].gen
      BY <2>1, <2>2 DEF Consistent, CommitJob, SafeKind
    <3>2. /\ slots[OtherSlot(job.slot)].gen \in Nat /\ job.gen \in Nat
          /\ {job.slot, OtherSlot(job.slot)} = {0, 1}
      BY <3>1, <1>1, Fields, Shapes, GenerationLimitAssumption
         DEF Consistent, Generation, Slot, OtherSlot
    <3>3. slots[OtherSlot(job.slot)].gen # slots[job.slot].gen
      BY <3>1, <3>2, <1>1
    <3> QED BY <3>1, <3>2, <3>3, <1>1
  <2>3. CASE job.stage = "repair"
    BY <2>1, <2>3 DEF Consistent, RepairJob, CommitMissing
  <2> QED BY <2>2, <2>3
<1>6. ASSUME kind.medium # "flash"
      PROVE  /\ commit'.state # "torn"
             /\ \A s \in Slot : slots'[s].state # "torn"
  BY <1>6 DEF Consistent, NvsIntact, Record
<1> QED BY <1>2, <1>3, <1>4, <1>5, <1>6

(* A boot leaves the store consistent. *)
LEMMA BootConsistent == Consistent /\ Boot => Consistent'
<1> SUFFICES ASSUME Consistent, Boot PROVE Consistent'
  OBVIOUS
<1>1. ~on /\ on' = TRUE /\ UNCHANGED <<kind, slots, commit>>
  BY DEF Boot
<1>3. Evaluated
  BY Evaluation
<1>4. CASE Load
  <2>1. used' \in {NoCopy} \cup {Copy(g, v) : g \in Generation, v \in Value}
    <3>1. CASE Usable
      <4>1. /\ RecoveredGeneration = commit.gen /\ commit.state = "whole"
            /\ Recovered = slots[commit.slot].value
        BY <1>3, <3>1 DEF Evaluated, Usable
      <4>2. commit.gen \in Generation /\ slots[commit.slot].value \in Value
        BY <4>1, Fields DEF Consistent, CommitHolds
      <4> QED BY <3>1, <4>1, <4>2, <1>4 DEF Load
    <3>2. CASE ~Usable
      BY <3>2, <1>4 DEF Load
    <3> QED BY <3>1, <3>2
  <2>2. job' = job /\ job.stage = "idle"
    BY <1>1, <1>4 DEF Load, Consistent, Resting
  <2>3. TypeOK'
    BY <1>1, <2>1, <2>2 DEF Consistent, TypeOK
  <2>4. SafeKind' /\ CommitHolds' /\ CommitMissing'
    BY <1>1, SectorsKept
  <2>5. NvsIntact'
    BY <1>1, <2>2 DEF Consistent, NvsIntact
  <2>6. Resting' /\ SlotJob' /\ CommitJob' /\ RepairJob'
    BY <1>1, <2>2 DEF Consistent, Resting, SlotJob, CommitJob, RepairJob
  <2> QED BY <2>3, <2>4, <2>5, <2>6 DEF Consistent
<1>5. CASE LoadAndRepair
  BY <1>1, <1>5, RepairJobConsistent DEF LoadAndRepair
<1>6. ASSUME NEW v \in Value, Create(v)
      PROVE  Consistent'
  <2>1. commit.state # "whole" /\ ~Whole(0) /\ ~Whole(1) /\ kind.medium # "flash"
    BY <1>3, <1>6 DEF Evaluated, Create
  <2>2. job' = Job("slot", "create", FALSE, 0, 1, v) /\ used' = used
    BY <1>6 DEF Create
  <2>3. 0 \in Slot /\ 1 \in Generation
    BY Shapes DEF Slot
  <2> QED BY <1>1, <2>1, <2>2, <2>3, SlotJobConsistent
<1> QED BY <1>4, <1>5, <1>6 DEF Boot

(* So does the beginning of an update. *)
LEMMA UpdateConsistent ==
  ASSUME Consistent, NEW v \in Value, Update(v)
  PROVE  Consistent'
<1>1. on' = TRUE /\ UNCHANGED <<kind, slots, commit, used>>
  BY DEF Update, Consistent, TypeOK
<1>2. Evaluated
  BY Evaluation
<1>3. ASSUME NEW g \in Generation, MayAdvance(g)
      PROVE  /\ NextGeneration(g) \in Generation
             /\ kind.wraps \/ NextGeneration(g) > g
  BY <1>3, Shapes, GenerationLimitAssumption DEF Generation
<1>4. ASSUME NEW g \in Generation, MayAdvance(g), commit.state = "whole",
             commit.gen = g,
             job' = Job("slot", "update", FALSE, OtherSlot(commit.slot),
                        NextGeneration(g), v)
      PROVE  Consistent'
  <2>1. OtherSlot(commit.slot) \in Slot
    BY <1>4, Fields, Shapes DEF Consistent
  <2> QED BY <1>1, <1>3, <1>4, <2>1, SlotJobConsistent
<1>5. CASE UpdateStored(v)
  <2>1. CASE Usable
    <3>1. commit.state = "whole" /\ Selected = commit.slot
          /\ RecoveredGeneration = commit.gen /\ commit.gen \in Generation
      BY <2>1, <1>2, Fields DEF Usable, Evaluated, Consistent
    <3> QED BY <1>4, <1>5, <2>1, <3>1 DEF UpdateStored
  <2>2. CASE ~Usable
    BY <1>1, <1>5, <2>2, RepairJobConsistent DEF UpdateStored
  <2> QED BY <2>1, <2>2
<1>6. CASE UpdateCopy(v)
  <2>1. commit.state = "whole" /\ commit.gen = used.gen
        /\ commit.gen \in Generation /\ MayAdvance(used.gen)
    BY <1>6, Fields DEF UpdateCopy, Consistent
  <2> QED BY <1>4, <1>6, <2>1 DEF UpdateCopy
<1> QED BY <1>5, <1>6 DEF Update

(* And a power cut. *)
LEMMA PowerConsistent == Consistent /\ PowerLoss => Consistent'
<1> SUFFICES ASSUME Consistent, PowerLoss PROVE Consistent'
  OBVIOUS
<1>1. /\ UNCHANGED <<kind, slots, commit>> /\ job' = Idle
      /\ on' \in BOOLEAN /\ used' = NoCopy
  BY DEF PowerLoss
<1> QED BY <1>1, IdleConsistent

(* A job that ended is consistent with whatever it left in the sectors. *)
LEMMA EndedConsistent ==
  ASSUME kind' \in Kind, on' \in BOOLEAN, job' = Idle, on',
         slots' \in [Slot -> {Erased, Torn} \cup
                            {Content(g, v) : g \in Generation, v \in Value}],
         commit' \in {ErasedRecord, TornRecord} \cup
                    {Record(s, g) : s \in Slot, g \in Generation},
         used' \in {NoCopy} \cup {Copy(g, v) : g \in Generation, v \in Value},
         SafeKind', CommitHolds', CommitMissing',
         kind'.medium # "flash" => /\ commit'.state # "torn"
                                  /\ \A s \in Slot : slots'[s].state # "torn"
  PROVE  Consistent'
<1>1. /\ job'.stage = "idle" /\ job'.task = "none" /\ job'.value = None
      /\ ~job'.begun
  BY DEF Idle, Job
<1>2. job' \in [stage : {"idle", "slot", "commit", "repair"},
               task : {"none", "load", "create", "update"}, begun : BOOLEAN,
               slot : Slot, gen : 0..GenerationLimit, value : Value \cup {None}]
  BY GenerationLimitAssumption DEF Idle, Job, Slot
<1>3. TypeOK'
  BY <1>2 DEF TypeOK
<1>4. NvsIntact'
  BY <1>1 DEF NvsIntact
<1>5. Resting' /\ SlotJob' /\ CommitJob' /\ RepairJob'
  BY <1>1 DEF Resting, SlotJob, CommitJob, RepairJob
<1> QED BY <1>3, <1>4, <1>5 DEF Consistent

(* A sector that is being erased leaves the store consistent. *)
LEMMA EraseConsistent == Consistent /\ EraseSector => Consistent'
<1> SUFFICES ASSUME Consistent, EraseSector PROVE Consistent'
  OBVIOUS
<1>1. /\ on' = TRUE /\ kind' = kind /\ used' = used
      /\ kind.medium = "flash" /\ job.stage # "idle"
      /\ job' = Job(job.stage, job.task, TRUE, job.slot, job.gen, job.value)
  BY DEF EraseSector, Consistent, TypeOK
<1>2. /\ job'.stage = job.stage /\ job'.task = job.task
      /\ job'.slot = job.slot /\ job'.gen = job.gen /\ job'.value = job.value
  BY <1>1 DEF Job
<1>3. /\ job' \in [stage : {"idle", "slot", "commit", "repair"},
                  task : {"none", "load", "create", "update"}, begun : BOOLEAN,
                  slot : Slot, gen : 0..GenerationLimit,
                  value : Value \cup {None}]
      /\ kind' \in Kind /\ on' \in BOOLEAN
      /\ used' \in {NoCopy} \cup {Copy(g, v) : g \in Generation, v \in Value}
  BY <1>1 DEF Consistent, TypeOK, Job
<1>4. Resting' /\ NvsIntact'
  BY <1>1, <1>2 DEF Consistent, Resting, NvsIntact
<1>5. CASE job.stage = "slot"
  <2>1. PICK c \in {Erased, Torn} :
          commit' = commit /\ slots' = Written(c)
    BY <1>5 DEF EraseSector, Put, Written
  <2>2. /\ slots' \in [Slot -> {Erased, Torn} \cup
                           {Content(g, v) : g \in Generation, v \in Value}]
        /\ SafeKind' /\ CommitHolds' /\ CommitMissing'
    <3>1. c \in SlotContent
      BY DEF SlotContent
    <3> QED BY <1>1, <1>5, <2>1, <3>1, SlotPut
  <2>3. TypeOK'
    BY <1>3, <2>1, <2>2 DEF Consistent, TypeOK
  <2>4. SlotJob'
    BY <1>1, <1>2, <1>5, <2>1 DEF Consistent, SlotJob
  <2>5. CommitJob' /\ RepairJob'
    BY <1>2, <1>5 DEF CommitJob, RepairJob
  <2> QED BY <1>4, <2>2, <2>3, <2>4, <2>5 DEF Consistent
<1>6. CASE job.stage \in {"commit", "repair"}
  <2>1. /\ slots' = slots
        /\ commit' \in {ErasedRecord, TornRecord}
        /\ commit'.state # "whole"
    BY <1>6 DEF EraseSector, PutRecord, ErasedRecord, TornRecord
  <2>2. /\ commit' \in {ErasedRecord, TornRecord} \cup
                      {Record(s, g) : s \in Slot, g \in Generation}
        /\ SafeKind' /\ CommitHolds' /\ CommitMissing'
    BY <1>1, <1>6, <2>1, CommitPut
  <2>3. TypeOK'
    BY <1>3, <2>1, <2>2 DEF Consistent, TypeOK
  <2>4. CASE job.stage = "commit"
    <3>1. CommitJob'
      BY <1>1, <1>2, <2>1, <2>4 DEF Consistent, CommitJob, Whole, OtherSlot
    <3>2. SlotJob' /\ RepairJob'
      BY <1>2, <2>4 DEF SlotJob, RepairJob
    <3> QED BY <1>4, <2>2, <2>3, <3>1, <3>2 DEF Consistent
  <2>5. CASE job.stage = "repair"
    <3>1. RepairJob'
      BY <1>1, <1>2, <2>1, <2>5 DEF Consistent, RepairJob, Newest, Whole
    <3>2. SlotJob' /\ CommitJob'
      BY <1>2, <2>5 DEF SlotJob, CommitJob
    <3> QED BY <1>4, <2>2, <2>3, <3>1, <3>2 DEF Consistent
  <2> QED BY <1>6, <2>4, <2>5
<1>7. job.stage \in {"idle", "slot", "commit", "repair"}
  BY DEF Consistent, TypeOK
<1> QED BY <1>1, <1>5, <1>6, <1>7

(* A slot that is complete becomes the one the commit record is to name. *)
LEMMA FinishSlotConsistent == Consistent /\ FinishSlot => Consistent'
<1> SUFFICES ASSUME Consistent, FinishSlot PROVE Consistent'
  OBVIOUS
<1>1. /\ on' = TRUE /\ kind' = kind /\ used' = used /\ commit' = commit
      /\ job.stage = "slot" /\ slots' = Written(Content(job.gen, job.value))
  BY DEF FinishSlot, ReadyToWrite, WriteWhole, Put, Written, Consistent, TypeOK
<1>2. /\ job'.stage = "commit" /\ job'.task = job.task /\ ~job'.begun
      /\ job'.slot = job.slot /\ job'.gen = job.gen /\ job'.value = job.value
      /\ job' \in [stage : {"idle", "slot", "commit", "repair"},
                  task : {"none", "load", "create", "update"}, begun : BOOLEAN,
                  slot : Slot, gen : 0..GenerationLimit,
                  value : Value \cup {None}]
  BY DEF FinishSlot, Job, Consistent, TypeOK
<1>3. /\ job.slot \in Slot /\ job.gen \in Generation /\ job.value \in Value
      /\ OtherSlot(job.slot) \in Slot /\ OtherSlot(job.slot) # job.slot
  BY <1>1, Fields, Shapes DEF Consistent, SlotJob
<1>4. /\ slots' \in [Slot -> {Erased, Torn} \cup
                         {Content(g, v) : g \in Generation, v \in Value}]
      /\ slots'[job.slot] = Content(job.gen, job.value)
      /\ \A s \in Slot : s # job.slot => slots'[s] = slots[s]
      /\ SafeKind' /\ CommitHolds' /\ CommitMissing'
      /\ kind.medium # "flash" => /\ commit'.state # "torn"
                                  /\ \A s \in Slot : slots'[s].state # "torn"
  <2>1. Content(job.gen, job.value) \in SlotContent
    BY DEF SlotContent
  <2> QED BY <1>1, <2>1, SlotPut
<1>5. /\ kind' \in Kind /\ on' \in BOOLEAN
      /\ used' \in {NoCopy} \cup {Copy(g, v) : g \in Generation, v \in Value}
  BY <1>1 DEF Consistent, TypeOK
<1>6. TypeOK'
  <2>1. commit' \in {ErasedRecord, TornRecord} \cup
                    {Record(s, g) : s \in Slot, g \in Generation}
    BY <1>1 DEF Consistent, TypeOK
  <2> QED BY <1>2, <1>4, <1>5, <2>1 DEF TypeOK
<1>7. NvsIntact'
  <2>1. kind' = kind /\ ~job'.begun
    BY <1>1, <1>2
  <2> QED BY <2>1, <1>4 DEF NvsIntact
<1>8. CommitJob'
  <2>1. CASE job.task = "update" /\ commit.state = "whole"
    <3>1. /\ commit.slot = OtherSlot(job.slot)
          /\ (kind.wraps \/ job.gen > commit.gen)
      <4>1. /\ job.slot = OtherSlot(commit.slot)
            /\ (kind.wraps \/ job.gen > commit.gen)
        BY <1>1, <2>1 DEF Consistent, SlotJob
      <4>2. commit.slot \in Slot
        BY <2>1, Fields DEF Consistent
      <4> QED BY <4>1, <4>2 DEF OtherSlot, Slot
    <3>2. Whole(commit.slot) /\ slots[commit.slot].gen = commit.gen
      BY <2>1 DEF Consistent, CommitHolds
    <3>3. /\ slots'[OtherSlot(job.slot)].state = "whole"
          /\ slots'[OtherSlot(job.slot)].gen = commit.gen
      BY <3>1, <3>2, <1>3, <1>4 DEF Whole
    <3> QED BY <1>1, <1>2, <1>3, <1>4, <2>1, <3>1, <3>3
            DEF CommitJob, Whole, OtherSlot
  <2>2. CASE /\ job.task = "create" /\ commit.state # "whole"
             /\ kind.medium # "flash" /\ job.slot = 0
    BY <1>1, <1>2, <1>3, <1>4, <2>2 DEF CommitJob
  <2> QED BY <1>1, <2>1, <2>2 DEF Consistent, SlotJob
<1>9. Resting' /\ SlotJob' /\ RepairJob'
  BY <1>1, <1>2 DEF Resting, SlotJob, RepairJob
<1> QED BY <1>4, <1>6, <1>7, <1>8, <1>9 DEF Consistent

(* A commit record that is complete ends the update. *)
LEMMA FinishCommitConsistent == Consistent /\ FinishCommit => Consistent'
<1> SUFFICES ASSUME Consistent, FinishCommit PROVE Consistent'
  OBVIOUS
<1>1. /\ on' = TRUE /\ kind' = kind /\ slots' = slots
      /\ job.stage = "commit" /\ commit' = Record(job.slot, job.gen)
      /\ job' = Idle /\ used' = Copy(job.gen, job.value)
  BY DEF FinishCommit, ReadyToWrite, WriteWhole, PutRecord, Consistent, TypeOK
<1>2. job.gen \in Generation /\ job.value \in Value
  BY <1>1 DEF Consistent, CommitJob
<1>3. /\ kind' \in Kind /\ on' \in BOOLEAN
      /\ slots' \in [Slot -> {Erased, Torn} \cup
                         {Content(g, v) : g \in Generation, v \in Value}]
      /\ used' \in {NoCopy} \cup {Copy(g, v) : g \in Generation, v \in Value}
  BY <1>1, <1>2 DEF Consistent, TypeOK
<1>4. /\ commit' \in {ErasedRecord, TornRecord} \cup
                    {Record(s, g) : s \in Slot, g \in Generation}
      /\ SafeKind' /\ CommitHolds' /\ CommitMissing'
      /\ kind.medium # "flash" => /\ commit'.state # "torn"
                                  /\ \A s \in Slot : slots'[s].state # "torn"
  BY <1>1, CommitPut
<1> QED BY <1>1, <1>3, <1>4, EndedConsistent

(* A repaired commit record names the newest slot; an update goes on. *)
LEMMA FinishRepairConsistent == Consistent /\ FinishRepair => Consistent'
<1> SUFFICES ASSUME Consistent, FinishRepair PROVE Consistent'
  OBVIOUS
<1>1. /\ on' = TRUE /\ kind' = kind /\ slots' = slots
      /\ job.stage = "repair" /\ commit' = Record(job.slot, job.gen)
  BY DEF FinishRepair, ReadyToWrite, WriteWhole, PutRecord, Consistent, TypeOK
<1>2. /\ job.slot \in Slot /\ Whole(job.slot)
      /\ job.gen \in Generation /\ job.gen = slots[job.slot].gen
      /\ slots[job.slot].value \in Value
  <2>1. Whole(job.slot) /\ job.gen = slots[job.slot].gen
    BY <1>1 DEF Consistent, RepairJob
  <2> QED BY <2>1, Fields DEF Consistent
<1>3. /\ kind' \in Kind /\ on' \in BOOLEAN
      /\ slots' \in [Slot -> {Erased, Torn} \cup
                         {Content(g, v) : g \in Generation, v \in Value}]
      /\ used \in {NoCopy} \cup {Copy(g, v) : g \in Generation, v \in Value}
  BY <1>1 DEF Consistent, TypeOK
<1>4. /\ commit' \in {ErasedRecord, TornRecord} \cup
                    {Record(s, g) : s \in Slot, g \in Generation}
      /\ SafeKind' /\ CommitHolds' /\ CommitMissing'
      /\ kind.medium # "flash" => /\ commit'.state # "torn"
                                  /\ \A s \in Slot : slots'[s].state # "torn"
  BY <1>1, CommitPut
<1>5. /\ commit'.state = "whole" /\ commit'.slot = job.slot
      /\ commit'.gen = job.gen
  BY <1>1 DEF Record
<1>6. ASSUME job' = Idle,
             used' = Copy(job.gen, slots[job.slot].value) \/ used' = used
      PROVE  Consistent'
  <2>1. used' \in {NoCopy} \cup {Copy(g, v) : g \in Generation, v \in Value}
    BY <1>2, <1>3, <1>6
  <2> QED BY <1>1, <1>3, <1>4, <1>6, <2>1, EndedConsistent
<1>7. ASSUME used' = used, MayAdvance(job.gen), job.task = "update",
             job' = Job("slot", "update", FALSE, OtherSlot(job.slot),
                        NextGeneration(job.gen), job.value)
      PROVE  Consistent'
  <2>1. /\ job'.stage = "slot" /\ job'.task = "update" /\ ~job'.begun
        /\ job'.slot = OtherSlot(job.slot)
        /\ job'.gen = NextGeneration(job.gen) /\ job'.value = job.value
    BY <1>7 DEF Job
  <2>2. /\ OtherSlot(job.slot) \in Slot
        /\ NextGeneration(job.gen) \in Generation
        /\ NextGeneration(job.gen) \in 0..GenerationLimit
        /\ (kind.wraps \/ NextGeneration(job.gen) > job.gen)
    BY <1>2, <1>7, Shapes, GenerationLimitAssumption DEF Generation
  <2>3. job.value \in Value
    <3>1. job.task # "load"
      BY <1>7
    <3> QED BY <1>1, <3>1 DEF Consistent, RepairJob
  <2>4. job' \in [stage : {"idle", "slot", "commit", "repair"},
               task : {"none", "load", "create", "update"}, begun : BOOLEAN,
               slot : Slot, gen : 0..GenerationLimit, value : Value \cup {None}]
    BY <1>7, <2>2, <2>3 DEF Job
  <2>5. TypeOK'
    <3>1. used' \in {NoCopy} \cup {Copy(g, v) : g \in Generation, v \in Value}
      BY <1>3, <1>7
    <3> QED BY <1>3, <1>4, <2>4, <3>1 DEF TypeOK
  <2>6. NvsIntact'
    BY <1>1, <1>4, <2>1 DEF NvsIntact
  <2>7. SlotJob'
    <3>1. kind'.wraps \/ job'.gen > commit'.gen
      BY <1>1, <1>5, <2>1, <2>2
    <3>2. job'.slot = OtherSlot(commit'.slot)
      BY <1>5, <2>1
    <3> QED BY <1>5, <2>1, <2>2, <2>3, <3>1, <3>2 DEF SlotJob, OtherSlot
  <2>8. Resting' /\ CommitJob' /\ RepairJob'
    BY <1>1, <2>1 DEF Resting, CommitJob, RepairJob
  <2> QED BY <1>4, <2>5, <2>6, <2>7, <2>8 DEF Consistent
<1> QED BY <1>6, <1>7 DEF FinishRepair

(* A failed write leaves what a power cut at that moment would find. *)
LEMMA FailConsistent == Consistent /\ FailWrite => Consistent'
<1> SUFFICES ASSUME Consistent, FailWrite PROVE Consistent'
  OBVIOUS
<1>1. /\ on' = TRUE /\ kind' = kind /\ used' = used /\ job' = Idle
  BY DEF FailWrite, Consistent, TypeOK
<1>2. /\ kind' \in Kind /\ on' \in BOOLEAN
      /\ used' \in {NoCopy} \cup {Copy(g, v) : g \in Generation, v \in Value}
  BY <1>1 DEF Consistent, TypeOK
<1>3. CASE UNCHANGED <<slots, commit>>
  <2>1. UNCHANGED <<kind, slots, commit>> /\ (~on' => used' = NoCopy)
    BY <1>1, <1>3
  <2> QED BY <1>1, <1>2, <2>1, IdleConsistent
<1>4. CASE job.stage = "slot" /\ Put(Content(job.gen, job.value))
  <2>1. commit' = commit /\ slots' = Written(Content(job.gen, job.value))
    BY <1>4 DEF Put, Written
  <2>2. Content(job.gen, job.value) \in SlotContent
    BY DEF SlotContent
  <2>3. /\ slots' \in [Slot -> {Erased, Torn} \cup
                           {Content(g, v) : g \in Generation, v \in Value}]
        /\ SafeKind' /\ CommitHolds' /\ CommitMissing'
        /\ kind.medium # "flash" => /\ commit'.state # "torn"
                                    /\ \A s \in Slot : slots'[s].state # "torn"
    BY <1>1, <1>4, <2>1, <2>2, SlotPut
  <2>4. commit' \in {ErasedRecord, TornRecord} \cup
                    {Record(s, g) : s \in Slot, g \in Generation}
    BY <2>1 DEF Consistent, TypeOK
  <2> QED BY <1>1, <1>2, <2>3, <2>4, EndedConsistent
<1>5. CASE /\ job.stage \in {"commit", "repair"}
           /\ PutRecord(Record(job.slot, job.gen))
  <2>1. slots' = slots /\ commit' = Record(job.slot, job.gen)
    BY <1>5 DEF PutRecord
  <2>2. /\ commit' \in {ErasedRecord, TornRecord} \cup
                      {Record(s, g) : s \in Slot, g \in Generation}
        /\ SafeKind' /\ CommitHolds' /\ CommitMissing'
        /\ kind.medium # "flash" => /\ commit'.state # "torn"
                                    /\ \A s \in Slot : slots'[s].state # "torn"
    BY <1>1, <1>5, <2>1, CommitPut
  <2>3. slots' \in [Slot -> {Erased, Torn} \cup
                           {Content(g, v) : g \in Generation, v \in Value}]
    BY <2>1 DEF Consistent, TypeOK
  <2> QED BY <1>1, <1>2, <2>2, <2>3, EndedConsistent
<1> QED BY <1>3, <1>4, <1>5 DEF FailWrite, WriteWhole

(* Every step, and a step that changes nothing, keeps a store consistent. *)
LEMMA NextConsistent == Consistent /\ [Next]_vars => Consistent'
<1> SUFFICES ASSUME Consistent, [Next]_vars PROVE Consistent'
  OBVIOUS
<1>1. CASE UNCHANGED vars
  BY <1>1 DEF vars, Consistent, TypeOK, SafeKind, CommitHolds, CommitMissing,
              NvsIntact, Resting, SlotJob, CommitJob, RepairJob, Newest, Whole
<1>2. ASSUME NEW v \in Value, Update(v) PROVE Consistent'
  BY <1>2, UpdateConsistent
<1> QED BY <1>1, <1>2, BootConsistent, EraseConsistent, FinishSlotConsistent,
           FinishCommitConsistent, FinishRepairConsistent, FailConsistent,
           PowerConsistent
        DEF Next

(* The invariant holds throughout, for stores that are crash-proof. *)
THEOREM StoreConsistent == Crashproof => (Spec => []Consistent)
<1> SUFFICES ASSUME Crashproof PROVE Spec => []Consistent
  OBVIOUS
<1>1. Init => Consistent
  BY InitConsistent
<1> QED BY <1>1, NextConsistent, PTL DEF Spec

(* Every store keeps the types of its sectors and jobs. *)
THEOREM StoreTyped == Crashproof => (Spec => []TypeOK)
<1>1. Consistent => TypeOK
  BY DEF Consistent
<1> QED BY <1>1, StoreConsistent, PTL

-----------------------------------------------------------------------------
(* What a step does to the value a reboot would find                       *)

(* A load finds a generation and a value, or an empty store. *)
LEMMA RecoveredTyped ==
  Consistent => /\ RecoveredGeneration \in 0..GenerationLimit
                /\ Recovered \in Value \cup {None}
                /\ Recovered # Lost
<1> SUFFICES ASSUME Consistent
             PROVE  /\ RecoveredGeneration \in 0..GenerationLimit
                    /\ Recovered \in Value \cup {None}
  BY LostAssumption
<1>1. Evaluated
  BY Evaluation
<1>2. CASE commit.state = "whole"
  <2>1. /\ RecoveredGeneration = commit.gen /\ commit.gen \in Generation
        /\ Recovered = slots[commit.slot].value
    BY <1>1, <1>2, Fields DEF Evaluated, Consistent
  <2>2. slots[commit.slot].value \in Value
    BY <1>2, Fields DEF Consistent, CommitHolds
  <2> QED BY <2>1, <2>2, Shapes
<1>3. CASE commit.state # "whole" /\ (Whole(0) \/ Whole(1))
  <2>1. /\ Newest \in Slot /\ Whole(Newest)
        /\ RecoveredGeneration = slots[Newest].gen
        /\ Recovered = slots[Newest].value
    BY <1>1, <1>3 DEF Evaluated
  <2> QED BY <2>1, Fields, Shapes DEF Consistent
<1>4. CASE commit.state # "whole" /\ ~Whole(0) /\ ~Whole(1)
  BY <1>1, <1>4, GenerationLimitAssumption DEF Evaluated
<1> QED BY <1>2, <1>3, <1>4

LoadTyped ==
  RecoveredGeneration \in Nat /\ Recovered \in Value \cup {None}

(* The store that a step leaves behind is evaluated the same way. *)
LEMMA EvaluationAfter == Consistent' => Evaluated'
BY Evaluation, PTL

(* And its load is typed the same way. *)
LEMMA LoadTypedAfter == (Consistent => LoadTyped) /\ (Consistent' => LoadTyped')
<1>1. Consistent => LoadTyped
  BY RecoveredTyped, GenerationLimitAssumption DEF LoadTyped
<1> QED BY <1>1, PTL

Kept == Recovered' = Recovered /\ RecoveredGeneration' = RecoveredGeneration

TakenOver ==
  /\ Pending \in Value /\ Recovered' = Pending
  /\ kind.wraps \/ RecoveredGeneration' > RecoveredGeneration

(* Writing a slot changes what a reboot finds only in a new store. *)
LEMMA SlotEffect ==
  ASSUME Consistent, Consistent', job.stage = "slot",
         kind' = kind, commit' = commit,
         NEW c \in SlotContent, slots' = Written(c),
         kind.medium = "flash" \/ c = Content(job.gen, job.value)
  PROVE  Kept \/ TakenOver
<1>1. Evaluated /\ Evaluated'
  BY Evaluation, EvaluationAfter
<1>2. /\ slots'[job.slot] = c
      /\ \A s \in Slot : s # job.slot => slots'[s] = slots[s]
  BY SlotPut
<1>3. job.slot \in Slot /\ job.gen \in Generation /\ job.value \in Value
  BY Fields DEF Consistent, SlotJob
<1>4. CASE commit.state = "whole"
  <2>1. commit.slot \in Slot /\ job.slot = OtherSlot(commit.slot)
    BY <1>4, Fields DEF Consistent, SlotJob
  <2>2. slots'[commit.slot] = slots[commit.slot]
    BY <2>1, <1>2, Shapes
  <2>3. Recovered = slots[commit.slot].value /\ RecoveredGeneration = commit.gen
    BY <1>1, <1>4 DEF Evaluated
  <2>4. /\ Recovered' = slots'[commit.slot].value
        /\ RecoveredGeneration' = commit.gen
    BY <1>1, <1>4 DEF Evaluated
  <2> QED BY <2>2, <2>3, <2>4 DEF Kept
<1>5. CASE commit.state # "whole"
  <2>1. /\ job.task = "create" /\ kind.medium # "flash" /\ job.slot = 0
        /\ ~Whole(0) /\ ~Whole(1)
    BY <1>5 DEF Consistent, SlotJob
  <2>2. RecoveredGeneration = 0
    BY <1>1, <1>5, <2>1 DEF Evaluated
  <2>3. slots'[0] = Content(job.gen, job.value) /\ slots'[1] = slots[1]
    BY <1>2, <2>1 DEF Slot
  <2>4. Whole(0)' /\ ~Whole(1)'
    BY <2>1, <2>3 DEF Whole, Content
  <2>5. Newest' = 0
    BY <2>4 DEF Newest
  <2>6. /\ Recovered' = slots'[Newest'].value
        /\ RecoveredGeneration' = slots'[Newest'].gen
    BY <1>1, <1>5, <2>4 DEF Evaluated
  <2>7. Recovered' = job.value /\ RecoveredGeneration' = job.gen
    BY <2>3, <2>5, <2>6 DEF Content
  <2>8. job.gen > 0
    BY <1>3, GenerationLimitAssumption DEF Generation
  <2> QED BY <1>3, <2>1, <2>2, <2>7, <2>8 DEF TakenOver, Pending
<1> QED BY <1>4, <1>5

(* From the first moment the commit record is touched, a reboot finds the   *)
(* update it is written for.                                                *)
LEMMA CommitEffect ==
  ASSUME Consistent, Consistent', job.stage = "commit",
         kind' = kind, slots' = slots,
         NEW r \in {ErasedRecord, TornRecord, Record(job.slot, job.gen)},
         commit' = r,
         kind.medium = "flash" \/ r = Record(job.slot, job.gen)
  PROVE  /\ Recovered' = job.value /\ RecoveredGeneration' = job.gen
         /\ Kept \/ TakenOver
<1>1. Evaluated /\ Evaluated'
  BY Evaluation, EvaluationAfter
<1>2. /\ job.slot \in Slot /\ job.gen \in Generation /\ job.value \in Value
      /\ Whole(job.slot) /\ slots[job.slot].gen = job.gen
      /\ slots[job.slot].value = job.value
  BY Fields DEF Consistent, CommitJob, Whole, Content
<1>3. Newest' = Newest
  BY DEF Newest, Whole
<1>4. ASSUME commit.state # "whole" \/ commit'.state # "whole"
      PROVE  Newest = job.slot
  <2>1. CASE kind.medium = "flash"
    <3>1. /\ Whole(OtherSlot(job.slot))
          /\ job.gen > slots[OtherSlot(job.slot)].gen
      BY <2>1 DEF Consistent, CommitJob, SafeKind
    <3>2. /\ slots[OtherSlot(job.slot)].gen \in Nat /\ job.gen \in Nat
      BY <3>1, <1>2, Fields, Shapes, GenerationLimitAssumption
         DEF Consistent, Generation
    <3>3. CASE job.slot = 0
      BY <3>1, <3>2, <3>3, <1>2 DEF Newest, OtherSlot
    <3>4. CASE job.slot = 1
      BY <3>1, <3>2, <3>4, <1>2 DEF Newest, OtherSlot
    <3> QED BY <1>2, <3>3, <3>4 DEF Slot
  <2>2. CASE kind.medium # "flash"
    <3>1. commit.state # "whole"
      BY <1>4, <2>2 DEF Record
    <3>2. ~Whole(1)
      BY <2>2, <3>1 DEF Consistent, CommitMissing
    <3>3. job.slot = 0
      BY <1>2, <3>2 DEF Slot
    <3> QED BY <3>2, <3>3 DEF Newest
  <2> QED BY <2>1, <2>2
<1>5. Whole(0) \/ Whole(1)
  BY <1>2 DEF Slot
<1>6. Recovered' = job.value /\ RecoveredGeneration' = job.gen
  <2>1. CASE commit'.state = "whole"
    <3>1. commit'.slot = job.slot /\ commit'.gen = job.gen
      BY <2>1 DEF Record, ErasedRecord, TornRecord
    <3>2. /\ Recovered' = slots[commit'.slot].value
          /\ RecoveredGeneration' = commit'.gen
      BY <1>1, <2>1 DEF Evaluated
    <3> QED BY <1>2, <3>1, <3>2
  <2>2. CASE commit'.state # "whole"
    <3>1. /\ Recovered' = slots[Newest].value
          /\ RecoveredGeneration' = slots[Newest].gen
      BY <1>1, <1>3, <1>5, <2>2 DEF Evaluated, Whole
    <3> QED BY <1>2, <1>4, <2>2, <3>1
  <2> QED BY <2>1, <2>2
<1>7. CASE commit.state # "whole"
  <2>1. /\ Recovered = slots[Newest].value
        /\ RecoveredGeneration = slots[Newest].gen
    BY <1>1, <1>5, <1>7 DEF Evaluated
  <2> QED BY <1>2, <1>4, <1>6, <1>7, <2>1 DEF Kept
<1>8. CASE commit.state = "whole"
  <2>1. job.task = "update" /\ commit.slot = OtherSlot(job.slot)
    BY <1>8 DEF Consistent, CommitJob
  <2>2. slots[commit.slot].gen = commit.gen
    BY <1>8 DEF Consistent, CommitHolds
  <2>3. kind.wraps \/ job.gen > commit.gen
    BY <2>1, <2>2 DEF Consistent, CommitJob
  <2>4. RecoveredGeneration = commit.gen
    BY <1>1, <1>8 DEF Evaluated
  <2> QED BY <1>2, <1>6, <2>1, <2>3, <2>4 DEF TakenOver, Pending
<1> QED BY <1>6, <1>7, <1>8

(* A repair writes down what a reboot finds anyway. *)
LEMMA RepairEffect ==
  ASSUME Consistent, Consistent', job.stage = "repair",
         kind' = kind, slots' = slots,
         NEW r \in {ErasedRecord, TornRecord, Record(job.slot, job.gen)},
         commit' = r
  PROVE  /\ Kept
         /\ Recovered = slots[job.slot].value /\ RecoveredGeneration = job.gen
<1>1. Evaluated /\ Evaluated'
  BY Evaluation, EvaluationAfter
<1>2. /\ commit.state # "whole" /\ Whole(job.slot)
      /\ job.slot = Newest /\ job.gen = slots[job.slot].gen
      /\ job.slot \in Slot
  BY Fields DEF Consistent, RepairJob
<1>3. Whole(0) \/ Whole(1)
  BY <1>2 DEF Slot
<1>4. Recovered = slots[job.slot].value /\ RecoveredGeneration = job.gen
  BY <1>1, <1>2, <1>3 DEF Evaluated
<1>5. Newest' = Newest
  BY DEF Newest, Whole
<1>6. CASE commit'.state = "whole"
  <2>1. commit'.slot = job.slot /\ commit'.gen = job.gen
    BY <1>6 DEF Record, ErasedRecord, TornRecord
  <2>2. /\ Recovered' = slots[commit'.slot].value
        /\ RecoveredGeneration' = commit'.gen
    BY <1>1, <1>6 DEF Evaluated
  <2> QED BY <1>4, <2>1, <2>2 DEF Kept
<1>7. CASE commit'.state # "whole"
  <2>1. /\ Recovered' = slots[Newest].value
        /\ RecoveredGeneration' = slots[Newest].gen
    BY <1>1, <1>3, <1>5, <1>7 DEF Evaluated, Whole
  <2> QED BY <1>2, <1>4, <2>1 DEF Kept
<1> QED BY <1>4, <1>6, <1>7

-----------------------------------------------------------------------------
(* Every step is a step of the register                                    *)

RegisterStep == [Register!Next]_(Register!vars)

Outcome ==
  /\ Kept \/ TakenOver
  /\ used' \in {used, NoCopy, Copy(RecoveredGeneration', Recovered')}
  /\ RegisterStep

(* A step within a job may make its value take effect, and no other. *)
LEMMA WithinJob ==
  ASSUME Consistent, Kept \/ TakenOver, used' = used, Pending' = Pending
  PROVE  Outcome
<1>1. CASE Kept
  BY <1>1 DEF Outcome, Kept, RegisterStep, Register!vars
<1>2. CASE TakenOver
  <2>1. Pending # None
    BY <1>2, NoneAssumption DEF TakenOver
  <2>2. Register!Take
    BY <1>2, <2>1 DEF TakenOver, Register!Take
  <2> QED BY <1>2, <2>2 DEF Outcome, RegisterStep, Register!Next
<1> QED BY <1>1, <1>2

(* A job that is dropped has taken effect by then, or never does. *)
LEMMA JobDropped ==
  ASSUME Consistent, Kept \/ TakenOver, used' = used, Pending' = None
  PROVE  Outcome
<1>1. CASE Pending = None
  BY <1>1, NoneAssumption
     DEF Outcome, Kept, TakenOver, RegisterStep, Register!vars
<1>2. CASE Pending # None
  <2>1. Register!Abandon
    BY <1>2 DEF Kept, TakenOver, Register!Abandon
  <2> QED BY <2>1 DEF Outcome, RegisterStep, Register!Next
<1> QED BY <1>1, <1>2

(* Without a job nothing is pending. *)
LEMMA NothingPending ==
  /\ Consistent /\ job.stage = "idle" => Pending = None
  /\ job' = Idle => Pending' = None
  /\ Consistent /\ job.stage = "commit" => Pending = job.value
  /\ Consistent => Pending \in Value \cup {None}
<1>1. Consistent /\ job.stage = "idle" => Pending = None
  BY DEF Consistent, Resting, Pending
<1>2. job' = Idle => Pending' = None
  BY DEF Pending, Idle, Job
<1>3. Consistent /\ job.stage = "commit" => Pending = job.value
  BY DEF Consistent, CommitJob, Pending
<1>4. Consistent => Pending \in Value \cup {None}
  BY Fields DEF Consistent, Pending
<1> QED BY <1>1, <1>2, <1>3, <1>4

(* A boot reads the register, or begins to create it. *)
LEMMA BootOutcome == Consistent /\ Boot => Outcome
<1> SUFFICES ASSUME Consistent, Boot PROVE Outcome
  OBVIOUS
<1>1. ~on /\ UNCHANGED <<kind, slots, commit>>
  BY DEF Boot
<1>2. Kept
  BY <1>1, SectorsKept DEF Kept
<1>3. used = NoCopy /\ job.stage = "idle" /\ Pending = None
  BY <1>1, NothingPending DEF Consistent, Resting
<1>4. CASE Load
  <2>1. Pending' = Pending
    BY <1>4 DEF Load, Pending
  <2>2. CASE Usable
    <3>1. used' = Copy(RecoveredGeneration, Recovered)
      BY <1>4, <2>2 DEF Load
    <3>2. used'.value = Recovered
      BY <3>1 DEF Copy
    <3>3. Recovered # None
      <4>1. /\ commit.state = "whole" /\ Whole(commit.slot)
            /\ Recovered = slots[commit.slot].value
        BY <2>2, Evaluation DEF Evaluated, Usable
      <4> QED BY <4>1, Fields, NoneAssumption DEF Consistent
    <3>4. Register!Read
      BY <1>2, <2>1, <3>2, <3>3 DEF Register!Read, Kept
    <3> QED BY <1>2, <3>1, <3>4 DEF Outcome, Kept, RegisterStep, Register!Next
  <2>3. CASE ~Usable
    <3>1. used' = used
      BY <1>3, <1>4, <2>3 DEF Load
    <3> QED BY <1>2, <2>1, <3>1, WithinJob
  <2> QED BY <2>2, <2>3
<1>5. CASE LoadAndRepair
  <2>1. used' = used /\ Pending' = None
    BY <1>5 DEF LoadAndRepair, Pending, Job
  <2> QED BY <1>2, <1>3, <2>1, WithinJob
<1>6. ASSUME NEW v \in Value, Create(v) PROVE Outcome
  <2>1. used' = used /\ Pending' = v
    BY <1>6 DEF Create, Pending, Job
  <2>2. Register!Begin
    BY <1>2, <1>3, <2>1 DEF Register!Begin, Kept
  <2> QED BY <1>2, <2>1, <2>2 DEF Outcome, RegisterStep, Register!Next
<1> QED BY <1>4, <1>5, <1>6 DEF Boot

(* An update begins one of the register. *)
LEMMA UpdateOutcome ==
  ASSUME Consistent, NEW v \in Value, Update(v)
  PROVE  Outcome
<1>1. UNCHANGED <<kind, slots, commit>> /\ used' = used /\ job = Idle
  BY DEF Update
<1>2. Kept
  BY <1>1, SectorsKept DEF Kept
<1>3. Pending = None
  <2>1. job.stage = "idle"
    BY <1>1 DEF Idle, Job
  <2> QED BY <2>1, NothingPending
<1>4. Pending' = v
  BY DEF Update, UpdateStored, UpdateCopy, Pending, Job
<1>5. Register!Begin
  BY <1>1, <1>2, <1>3, <1>4 DEF Register!Begin, Kept
<1> QED BY <1>1, <1>2, <1>5 DEF Outcome, RegisterStep, Register!Next

(* Erasing a sector can make the update take effect. *)
LEMMA EraseOutcome == Consistent /\ EraseSector => Outcome
<1> SUFFICES ASSUME Consistent, EraseSector PROVE Outcome
  OBVIOUS
<1>1. /\ kind' = kind /\ kind.medium = "flash" /\ used' = used
      /\ Pending' = Pending
  BY DEF EraseSector, Pending, Job
<1>2. Consistent'
  BY EraseConsistent
<1>3. CASE job.stage = "slot"
  <2>1. PICK c \in {Erased, Torn} : commit' = commit /\ slots' = Written(c)
    BY <1>3 DEF EraseSector, Put, Written
  <2>2. c \in SlotContent
    BY DEF SlotContent
  <2>3. Kept \/ TakenOver
    BY <1>1, <1>2, <1>3, <2>1, <2>2, SlotEffect
  <2> QED BY <1>1, <2>3, WithinJob
<1>4. CASE job.stage \in {"commit", "repair"}
  <2>1. slots' = slots /\ commit' \in {ErasedRecord, TornRecord}
    BY <1>4 DEF EraseSector, PutRecord
  <2>2. CASE job.stage = "commit"
    <3>1. Kept \/ TakenOver
      BY <1>1, <1>2, <2>1, <2>2, CommitEffect
    <3> QED BY <1>1, <3>1, WithinJob
  <2>3. CASE job.stage = "repair"
    <3>1. Kept
      BY <1>1, <1>2, <2>1, <2>3, RepairEffect
    <3> QED BY <1>1, <3>1, WithinJob
  <2> QED BY <1>4, <2>2, <2>3
<1> QED BY <1>3, <1>4 DEF EraseSector

(* So can writing the first slot of a new store. *)
LEMMA FinishSlotOutcome == Consistent /\ FinishSlot => Outcome
<1> SUFFICES ASSUME Consistent, FinishSlot PROVE Outcome
  OBVIOUS
<1>1. /\ kind' = kind /\ used' = used /\ commit' = commit
      /\ job.stage = "slot" /\ slots' = Written(Content(job.gen, job.value))
      /\ Pending' = Pending
  BY DEF FinishSlot, WriteWhole, Put, Written, Pending, Job
<1>2. Consistent' /\ Content(job.gen, job.value) \in SlotContent
  BY FinishSlotConsistent DEF SlotContent
<1>3. Kept \/ TakenOver
  BY <1>1, <1>2, SlotEffect
<1> QED BY <1>1, <1>3, WithinJob

(* An update is reported done once a reboot finds it. *)
LEMMA FinishCommitOutcome == Consistent /\ FinishCommit => Outcome
<1> SUFFICES ASSUME Consistent, FinishCommit PROVE Outcome
  OBVIOUS
<1>1. /\ kind' = kind /\ slots' = slots /\ job.stage = "commit"
      /\ commit' = Record(job.slot, job.gen)
      /\ job' = Idle /\ used' = Copy(job.gen, job.value)
  BY DEF FinishCommit, WriteWhole, PutRecord
<1>2. Consistent'
  BY FinishCommitConsistent
<1>3. /\ Recovered' = job.value /\ RecoveredGeneration' = job.gen
      /\ Kept \/ TakenOver
  BY <1>1, <1>2, CommitEffect
<1>4. Pending = job.value /\ Pending' = None /\ job.value \in Value
  BY <1>1, NothingPending DEF Consistent, CommitJob
<1>5. used'.value = job.value
  BY <1>1 DEF Copy
<1>6. Register!Confirm
  BY <1>3, <1>4, <1>5, NoneAssumption DEF Register!Confirm
<1> QED BY <1>1, <1>3, <1>6 DEF Outcome, RegisterStep, Register!Next

(* A repaired load reads the register; a repaired update keeps it. *)
LEMMA FinishRepairOutcome == Consistent /\ FinishRepair => Outcome
<1> SUFFICES ASSUME Consistent, FinishRepair PROVE Outcome
  OBVIOUS
<1>1. /\ kind' = kind /\ slots' = slots /\ job.stage = "repair"
      /\ commit' = Record(job.slot, job.gen)
  BY DEF FinishRepair, WriteWhole, PutRecord
<1>2. Consistent'
  BY FinishRepairConsistent
<1>3. /\ Kept
      /\ Recovered = slots[job.slot].value /\ RecoveredGeneration = job.gen
  BY <1>1, <1>2, RepairEffect
<1>4. CASE job.task = "load"
  <2>1. job' = Idle /\ used' = Copy(job.gen, slots[job.slot].value)
    BY <1>4 DEF FinishRepair
  <2>2. Pending = None /\ Pending' = None
    BY <1>4, <2>1, NothingPending DEF Pending
  <2>3. used'.value = Recovered
    BY <1>3, <2>1 DEF Copy
  <2>4. Recovered # None
    <3>1. Whole(job.slot) /\ job.slot \in Slot
      BY <1>1, Fields DEF Consistent, RepairJob
    <3> QED BY <1>3, <3>1, Fields, NoneAssumption DEF Consistent
  <2>5. Register!Read
    BY <1>3, <2>2, <2>3, <2>4 DEF Register!Read, Kept
  <2> QED BY <1>3, <2>1, <2>5 DEF Outcome, Kept, RegisterStep, Register!Next
<1>5. CASE job.task = "update"
  <2>1. used' = used
    BY <1>5 DEF FinishRepair
  <2>2. CASE MayAdvance(job.gen)
    <3>1. Pending' = Pending
      BY <1>5, <2>2 DEF FinishRepair, Pending, Job
    <3> QED BY <1>3, <2>1, <3>1, WithinJob
  <2>3. CASE ~MayAdvance(job.gen)
    <3>1. Pending' = None
      BY <1>5, <2>3, NothingPending DEF FinishRepair
    <3> QED BY <1>3, <2>1, <3>1, JobDropped
  <2> QED BY <2>2, <2>3
<1> QED BY <1>4, <1>5 DEF FinishRepair

(* A failed write is an update abandoned, in effect or not. *)
LEMMA FailOutcome == Consistent /\ FailWrite => Outcome
<1> SUFFICES ASSUME Consistent, FailWrite PROVE Outcome
  OBVIOUS
<1>1. kind' = kind /\ used' = used /\ Pending' = None
  BY NothingPending DEF FailWrite
<1>2. Consistent'
  BY FailConsistent
<1>3. CASE UNCHANGED <<slots, commit>>
  <2>1. Kept
    BY <1>1, <1>3, SectorsKept DEF Kept
  <2> QED BY <1>1, <2>1, JobDropped
<1>4. CASE job.stage = "slot" /\ Put(Content(job.gen, job.value))
  <2>1. commit' = commit /\ slots' = Written(Content(job.gen, job.value))
    BY <1>4 DEF Put, Written
  <2>2. Content(job.gen, job.value) \in SlotContent
    BY DEF SlotContent
  <2>3. Kept \/ TakenOver
    BY <1>1, <1>2, <1>4, <2>1, <2>2, SlotEffect
  <2> QED BY <1>1, <2>3, JobDropped
<1>5. CASE /\ job.stage \in {"commit", "repair"}
           /\ PutRecord(Record(job.slot, job.gen))
  <2>1. slots' = slots /\ commit' = Record(job.slot, job.gen)
    BY <1>5 DEF PutRecord
  <2>2. CASE job.stage = "commit"
    <3>1. Kept \/ TakenOver
      BY <1>1, <1>2, <2>1, <2>2, CommitEffect
    <3> QED BY <1>1, <3>1, JobDropped
  <2>3. CASE job.stage = "repair"
    <3>1. Kept
      BY <1>1, <1>2, <2>1, <2>3, RepairEffect
    <3> QED BY <1>1, <3>1, JobDropped
  <2> QED BY <1>5, <2>2, <2>3
<1> QED BY <1>3, <1>4, <1>5 DEF FailWrite, WriteWhole

(* A power cut is one of the register. *)
LEMMA PowerOutcome == Consistent /\ PowerLoss => Outcome
<1> SUFFICES ASSUME Consistent, PowerLoss PROVE Outcome
  OBVIOUS
<1>1. Kept
  BY SectorsKept DEF PowerLoss, Kept
<1>2. used' = NoCopy /\ used'.value = None /\ Pending' = None
  BY NothingPending DEF PowerLoss, NoCopy, Copy
<1>3. Register!PowerLoss
  BY <1>1, <1>2 DEF Register!PowerLoss, Kept
<1> QED BY <1>1, <1>2, <1>3 DEF Outcome, RegisterStep, Register!Next

(* Every step of the store is a step of the register. *)
LEMMA NextOutcome == Consistent /\ [Next]_vars => Outcome
<1> SUFFICES ASSUME Consistent, [Next]_vars PROVE Outcome
  OBVIOUS
<1>1. CASE UNCHANGED vars
  <2>1. UNCHANGED <<kind, slots, commit>> /\ used' = used /\ Pending' = Pending
    BY <1>1 DEF vars, Pending
  <2>2. Kept
    BY <2>1, SectorsKept DEF Kept
  <2> QED BY <2>1, <2>2, WithinJob
<1>2. ASSUME NEW v \in Value, Update(v) PROVE Outcome
  BY <1>2, UpdateOutcome
<1> QED BY <1>1, <1>2, BootOutcome, EraseOutcome, FinishSlotOutcome,
           FinishCommitOutcome, FinishRepairOutcome, FailOutcome, PowerOutcome
        DEF Next

-----------------------------------------------------------------------------
(* The theorems                                                            *)

(* An interrupted write leaves a complete old or new value, never a store   *)
(* that cannot be loaded.                                                   *)
THEOREM StoreNeverLost == Crashproof => (Spec => []InterruptedWriteRetains)
<1>1. Consistent => InterruptedWriteRetains
  BY RecoveredTyped DEF InterruptedWriteRetains
<1> QED BY <1>1, StoreConsistent, PTL

(* A reboot never falls back behind a generation it would have found. *)
THEOREM StoreAdvances == Crashproof => (Spec => GenerationAdvances)
<1>1. ASSUME Consistent, Consistent', [Next]_vars
      PROVE  [kind.wraps \/ RecoveredGeneration' >= RecoveredGeneration]_vars
  <2>1. /\ RecoveredGeneration \in Nat
        /\ RecoveredGeneration' \in Nat
    BY <1>1, LoadTypedAfter DEF LoadTyped
  <2>2. Kept \/ TakenOver
    BY <1>1, NextOutcome DEF Outcome
  <2> QED BY <2>1, <2>2 DEF Kept, TakenOver
<1> QED BY <1>1, StoreConsistent, PTL DEF Spec, GenerationAdvances

(* The invariant, together with what it is to establish.                    *)
Saved == Consistent /\ NothingUnsaved

(* What a node works with stays saved, or an older generation. *)
LEMMA SavedStep == Saved /\ [Next]_vars => NothingUnsaved'
<1> SUFFICES ASSUME Saved, [Next]_vars,
                    used' # NoCopy, ~kind'.wraps
             PROVE  \/ used'.gen < RecoveredGeneration'
                    \/ used' = Copy(RecoveredGeneration', Recovered')
  BY DEF NothingUnsaved
<1>1. Outcome /\ Consistent /\ Consistent'
  BY NextOutcome, NextConsistent DEF Saved
<1>2. kind' = kind
  BY DEF Next, Boot, Update, EraseSector, FinishSlot, FinishCommit,
         FinishRepair, FailWrite, PowerLoss, vars
<1>3. CASE used' = used
  <2>1. \/ used.gen < RecoveredGeneration
        \/ used = Copy(RecoveredGeneration, Recovered)
    BY <1>2, <1>3 DEF Saved, NothingUnsaved
  <2>2. CASE Kept
    BY <1>3, <2>1, <2>2 DEF Kept
  <2>3. CASE TakenOver
    <3>1. used.gen <= RecoveredGeneration
      <4>1. RecoveredGeneration \in Nat
        BY <1>1, LoadTypedAfter DEF LoadTyped
      <4>2. used.gen \in Nat
        BY <1>1, <1>3, Fields, GenerationLimitAssumption
           DEF Consistent, Generation
      <4> QED BY <2>1, <4>1, <4>2 DEF Copy
    <3>2. RecoveredGeneration' > RecoveredGeneration
      BY <1>2, <2>3 DEF TakenOver
    <3>3. /\ RecoveredGeneration \in Nat /\ RecoveredGeneration' \in Nat
          /\ used.gen \in Nat
      <4>1. used.gen \in Generation
        BY <1>1, <1>3, Fields DEF Consistent
      <4> QED BY <1>1, <4>1, LoadTypedAfter, GenerationLimitAssumption
              DEF LoadTyped, Generation
    <3> QED BY <1>3, <3>1, <3>2, <3>3
  <2> QED BY <1>1, <2>2, <2>3 DEF Outcome
<1>4. CASE used' = Copy(RecoveredGeneration', Recovered')
  BY <1>4
<1> QED BY <1>1, <1>3, <1>4 DEF Outcome

(* The running node works with a value that no power cut takes back. *)
THEOREM StoreSaves == Crashproof => (Spec => []NothingUnsaved)
<1> SUFFICES ASSUME Crashproof PROVE Spec => []NothingUnsaved
  OBVIOUS
<1>1. Init => NothingUnsaved
  BY DEF Init, NothingUnsaved
<1>2. Consistent /\ NothingUnsaved /\ [Next]_vars => NothingUnsaved'
  BY SavedStep DEF Saved
<1> QED BY <1>1, <1>2, StoreConsistent, PTL DEF Spec

(* The stores implement the register: one value, replaced as a whole, that  *)
(* keeps every update reported done.                                        *)
THEOREM StoreImplementsRegister == Crashproof => (Spec => AtomicUpdate)
<1> SUFFICES ASSUME Crashproof PROVE Spec => AtomicUpdate
  OBVIOUS
<1>1. Init => Register!Init
  <2> SUFFICES ASSUME Init PROVE Register!Init
    OBVIOUS
  <2>1. Recovered \in Value \cup {None}
    BY InitConsistent, RecoveredTyped
  <2>2. Pending = None /\ used.value = None
    BY DEF Init, Pending, Idle, Job, NoCopy, Copy
  <2> QED BY <2>1, <2>2 DEF Register!Init
<1>2. Consistent /\ [Next]_vars => [Register!Next]_(Register!vars)
  BY NextOutcome DEF Outcome, RegisterStep
<1> QED BY <1>1, <1>2, StoreConsistent, PTL
        DEF Spec, AtomicUpdate, Register!Spec
=============================================================================
