---------------------- MODULE SiteReplication_proofs ----------------------
(***************************************************************************)
(* The payloads that a member stores are one committed floorplan, unless a *)
(* cut in a write of its header has cost it, and the Owner commits the     *)
(* next only while its successor has reported the last: for any members,   *)
(* generations and versions, and for any number of faults, copies and      *)
(* power cuts.                                                             *)
(***************************************************************************)
EXTENDS SiteReplication, TLAPS

-----------------------------------------------------------------------------
(* The inductive invariant                                                 *)

Payload == 0..GenerationLimit \cup Version

Session ==
  [state : State, received : Seq(Payload), remote : GenerationOrNone,
   config : GenerationOrNone \cup Version, busy : 0..BusyLimit,
   retries : 0..RetryLimit]
Tracker ==
  [active : GenerationOrNone, pending : GenerationOrNone,
   blocked : GenerationOrNone]

(* Something is in flight only for a session that runs, and a session asks *)
(* for no more chunks than its payload has.                                *)
Awaiting(s, w) ==
  /\ w.kind # "lost" => s.state \in Transfer
  /\ s.state \in Transfer => Len(s.received) < Chunks(s.state)

(* The generations that a session learns from the Owner are committed, and *)
(* the one it fetches the floorplan of is not behind its member, which     *)
(* nothing else changes meanwhile.                                         *)
Learnt(c, s, w) ==
  /\ s.state = "configuration" =>
       /\ \A i \in 1..Len(s.received) : s.received[i] \in 1..Generation
       /\ w.kind = "ok" => w.tag \in 1..Generation
  /\ s.state \in Transfer \ {"configuration"} => s.remote \in c..Generation

(* Payloads p beside configuration c: none, or those of one generation     *)
Sound(c, p) ==
  \/ p \in {Erased, NoPlan}
  \/ \E g \in c..Generation : p = history[g]

(* A member with configuration c, payloads p, session s and w in flight    *)
Member(c, p, s, w) ==
  /\ c \in 1..Generation /\ p \in Plan \cup {Erased}
  /\ s \in Session /\ w \in Message
  /\ Awaiting(s, w)
  /\ Learnt(c, s, w)
  /\ Sound(c, p)

MembersInv ==
  \A f \in Follower : Member(cfg[f], store[f], session[f], wire[f])

(* What the Owner has read of a member is not ahead of it, and a member    *)
(* that was ready has a floorplan since, if it has not lost it.            *)
Reported ==
  \A f \in Follower :
    /\ report[f].generation <= cfg[f]
    /\ report[f].ready =>
         \/ f \in lost
         \/ \E g \in 1..Generation :
              g >= report[f].generation /\ store[f] = history[g]

IInv == TypeOK /\ MembersInv /\ Reported

-----------------------------------------------------------------------------
(* Values                                                                  *)

LEMMA MessageType ==
  ASSUME NEW w
  PROVE  w \in Message <=>
           /\ w = [kind |-> w.kind, tag |-> w.tag]
           /\ w.kind \in {"request", "ok", "busy", "error", "lost", "later"}
           /\ w.tag \in Payload
BY DEF Message, Payload

LEMMA BareType ==
  ASSUME NEW k \in {"request", "ok", "busy", "error", "lost", "later"}
  PROVE  Bare(k) \in Message /\ Bare(k).kind = k
BY LimitAssumption DEF Bare, Message

LEMMA NoSessionType ==
  ASSUME NEW state \in State
  PROVE  /\ [NoSession EXCEPT !.state = state] \in Session
         /\ [NoSession EXCEPT !.state = state].state = state
         /\ [NoSession EXCEPT !.state = state].received = <<>>
<1>1. 0 \in GenerationOrNone /\ 0 \in 0..BusyLimit /\ 0 \in 0..RetryLimit
  BY LimitAssumption DEF GenerationOrNone
<1>2. <<>> \in Seq(Payload)
  OBVIOUS
<1> QED BY <1>1, <1>2 DEF NoSession, Session

LEMMA NoTrackingType == NoTracking \in Tracker
BY LimitAssumption DEF NoTracking, Tracker, GenerationOrNone

LEMMA ChunksType ==
  ASSUME NEW what \in Transfer
  PROVE  /\ Chunks(what) \in 1..2
         /\ what \in {"configuration", "image"} <=> Chunks(what) = 2
BY DEF Transfer, Chunks

(* A running session that has received another chunk                       *)
LEMMA ReceivedType ==
  ASSUME NEW s \in Session, NEW e \in Payload, s.state \in Transfer,
         Len(s.received) < Chunks(s.state)
  PROVE  /\ Append(s.received, e) \in Seq(Payload)
         /\ Len(Append(s.received, e)) = Len(s.received) + 1
         /\ Len(Append(s.received, e)) \in 1..Chunks(s.state)
         /\ Append(s.received, e)[1] \in Payload
         /\ \A i \in 1..Len(Append(s.received, e)) :
              \/ i \in 1..Len(s.received)
                   /\ Append(s.received, e)[i] = s.received[i]
              \/ Append(s.received, e)[i] = e
<1>1. s.received \in Seq(Payload) /\ Chunks(s.state) \in 1..2
  BY ChunksType DEF Session
<1> QED BY <1>1

-----------------------------------------------------------------------------
(* One member's step                                                       *)

(* The member is left with c, p, s and w.                                  *)
Becomes(f, c, p, s, w) ==
  /\ cfg' = [cfg EXCEPT ![f] = c]
  /\ store' = [store EXCEPT ![f] = p]
  /\ session' = [session EXCEPT ![f] = s]
  /\ wire' = [wire EXCEPT ![f] = w]

(* With configuration c and payloads p the member has what it had, or a    *)
(* floorplan, or it has lost it in a cut, if there was one to lose.        *)
NoLoss(f, c, p) ==
  \/ c = cfg[f] /\ p = store[f]
  \/ \E g \in c..Generation : p = history[g]
  \/ p = Erased /\ f \in lost' /\ budget'.cuts < budget.cuts
  \/ store[f] = Erased

MemberStep(f) ==
  \E c, p, s, w :
    /\ Becomes(f, c, p, s, w)
    /\ Member(c, p, s, w)
    /\ c >= cfg[f]
    /\ NoLoss(f, c, p)

LEMMA MemberSteps ==
  ASSUME IInv, NEW f \in Follower, MemberStep(f), UNCHANGED ownerVars
  PROVE  /\ cfg' \in [Follower -> 1..Generation']
         /\ store' \in [Follower -> Plan \cup {Erased}]
         /\ session' \in [Follower -> Session]
         /\ wire' \in [Follower -> Message]
         /\ MembersInv'
         /\ \A g \in Follower :
              cfg'[g] >= cfg[g] /\ NoLoss(g, cfg'[g], store'[g])
<1>1. PICK c, p, s, w :
        /\ Becomes(f, c, p, s, w)
        /\ Member(c, p, s, w)
        /\ c >= cfg[f]
        /\ NoLoss(f, c, p)
  BY DEF MemberStep
<1>2. /\ c \in 1..Generation /\ p \in Plan \cup {Erased}
      /\ s \in Session /\ w \in Message
      /\ history' = history /\ Generation' = Generation
  BY <1>1 DEF Member, ownerVars, Generation
<1>3. /\ cfg \in [Follower -> 1..Generation]
      /\ store \in [Follower -> Plan \cup {Erased}]
      /\ session \in [Follower -> Session] /\ wire \in [Follower -> Message]
      /\ Generation \in Nat
  <2>1. session \in [Follower -> Session]
    BY DEF IInv, TypeOK, Session, Payload
  <2>2. Generation \in Nat
    BY DEF IInv, TypeOK
  <2> QED BY <2>1, <2>2 DEF IInv, TypeOK
<1>4. /\ cfg' \in [Follower -> 1..Generation']
      /\ store' \in [Follower -> Plan \cup {Erased}]
      /\ session' \in [Follower -> Session]
      /\ wire' \in [Follower -> Message]
  BY <1>1, <1>2, <1>3 DEF Becomes
<1>5. ASSUME NEW g \in Follower
      PROVE  /\ Member(cfg[g], store[g], session[g], wire[g])'
             /\ cfg'[g] >= cfg[g]
             /\ NoLoss(g, cfg'[g], store'[g])
  <2>1. CASE g = f
    <3>1. cfg'[g] = c /\ store'[g] = p /\ session'[g] = s /\ wire'[g] = w
      BY <1>1, <1>3, <2>1 DEF Becomes
    <3>2. Member(cfg[g], store[g], session[g], wire[g])'
      BY <1>1, <1>2, <3>1 DEF Member, Learnt, Sound
    <3> QED BY <1>1, <2>1, <3>1, <3>2
  <2>2. CASE g # f
    <3>1. /\ cfg'[g] = cfg[g] /\ store'[g] = store[g]
          /\ session'[g] = session[g] /\ wire'[g] = wire[g]
      BY <1>1, <1>3, <2>2 DEF Becomes
    <3>2. Member(cfg[g], store[g], session[g], wire[g])
      BY DEF IInv, MembersInv
    <3>3. Member(cfg[g], store[g], session[g], wire[g])'
      BY <1>2, <3>1, <3>2 DEF Member, Learnt, Sound
    <3> QED BY <1>3, <3>1, <3>3 DEF NoLoss
  <2> QED BY <2>1, <2>2
<1> QED BY <1>4, <1>5 DEF MembersInv

(* What is known of one member                                             *)
LEMMA OneMember ==
  ASSUME IInv, NEW f \in Follower
  PROVE  /\ Member(cfg[f], store[f], session[f], wire[f])
         /\ cfg = [cfg EXCEPT ![f] = cfg[f]]
         /\ store = [store EXCEPT ![f] = store[f]]
         /\ session = [session EXCEPT ![f] = session[f]]
         /\ wire = [wire EXCEPT ![f] = wire[f]]
         /\ Generation \in Nat /\ cfg[f] \in 1..Generation
         /\ Generation \in 1..GenerationLimit
         /\ history \in Seq(Plan)
         /\ NoLoss(f, cfg[f], store[f])
BY DEF IInv, MembersInv, TypeOK, NoLoss

(* A session that is over, or has begun, leaves the member with nothing to *)
(* be sound but what it has stored.                                        *)
LEMMA Over ==
  ASSUME IInv, NEW f \in Follower,
         NEW c, NEW p, Member(c, p, session[f], wire[f]),
         NEW state \in State,
         NEW w \in Message, w.kind \in {"request", "lost"},
         state \in Transfer <=> state = "configuration",
         w.kind = "request" => state = "configuration"
  PROVE  Member(c, p, [NoSession EXCEPT !.state = state], w)
<1> DEFINE s == [NoSession EXCEPT !.state = state]
<1>1. s \in Session /\ s.state = state /\ s.received = <<>>
  BY NoSessionType
<1>2. Len(s.received) = 0 /\ Chunks("configuration") = 2
  BY <1>1 DEF Chunks
<1> HIDE DEF s
<1>3. Awaiting(s, w) /\ Learnt(c, s, w)
  BY <1>1, <1>2 DEF Awaiting, Learnt
<1> QED BY <1>1, <1>3 DEF Member, s

LEMMA EndStep ==
  ASSUME IInv, NEW f \in Follower,
         NEW state \in {"complete", "failed", "conflict"},
         NEW c, NEW p, Member(c, p, session[f], wire[f]), c >= cfg[f],
         NoLoss(f, c, p),
         cfg' = [cfg EXCEPT ![f] = c], store' = [store EXCEPT ![f] = p],
         End(f, state)
  PROVE  MemberStep(f)
<1>1. Member(c, p, [NoSession EXCEPT !.state = state], Bare("lost"))
  <2>1. /\ Bare("lost") \in Message /\ Bare("lost").kind = "lost"
        /\ state \in State /\ state \notin Transfer /\ state # "configuration"
    BY BareType DEF State, Transfer
  <2> QED BY <2>1, Over
<1> QED BY <1>1 DEF End, MemberStep, Becomes

LEMMA FailStep ==
  ASSUME IInv, NEW f \in Follower,
         NEW state \in {"failed", "conflict"},
         End(f, state), UNCHANGED <<cfg, store>>
  PROVE  MemberStep(f)
<1>1. /\ Member(cfg[f], store[f], session[f], wire[f]) /\ cfg[f] >= cfg[f]
      /\ NoLoss(f, cfg[f], store[f])
      /\ cfg' = [cfg EXCEPT ![f] = cfg[f]]
      /\ store' = [store EXCEPT ![f] = store[f]]
  BY OneMember
<1> QED BY <1>1, EndStep

(* A member goes on with session s.                                        *)
LEMMA ContinueStep ==
  ASSUME IInv, NEW f \in Follower, NEW s \in Session, s.state \in Transfer,
         Len(s.received) < Chunks(s.state),
         s.state = "configuration" =>
           \A i \in 1..Len(s.received) : s.received[i] \in 1..Generation,
         s.state # "configuration" => s.remote \in cfg[f]..Generation,
         Continue(f, s)
  PROVE  MemberStep(f)
<1>1. Member(cfg[f], store[f], s, Bare("request"))
  BY OneMember, BareType DEF Member, Awaiting, Learnt
<1>2. cfg[f] >= cfg[f]
  BY OneMember
<1>3. Becomes(f, cfg[f], store[f], s, Bare("request"))
  BY OneMember DEF Continue, Becomes
<1> QED BY <1>1, <1>2, <1>3, OneMember DEF MemberStep

(* A commit of a generation that is not behind the member                  *)
LEMMA CommitStep ==
  ASSUME IInv, NEW f \in Follower, NEW g \in cfg[f]..Generation, Commit(f, g)
  PROVE  MemberStep(f)
<1>1. /\ Committed(f, g, FALSE).cfg = g
      /\ Committed(f, g, FALSE).store = history[g]
  BY OneMember DEF Committed
<1>2. history[g] \in Plan /\ g \in 1..Generation /\ g >= cfg[f]
  BY OneMember DEF Generation
<1>3. Member(g, history[g], [NoSession EXCEPT !.state = "complete"],
             Bare("lost"))
  <2>1. [NoSession EXCEPT !.state = "complete"] \in Session
        /\ [NoSession EXCEPT !.state = "complete"].state = "complete"
    BY NoSessionType DEF State
  <2>2. Sound(g, history[g])
    BY <1>2, OneMember DEF Sound
  <2> QED BY <1>2, <2>1, <2>2, BareType DEF Member, Awaiting, Learnt, Transfer
<1>4. NoLoss(f, g, history[g])
  BY <1>2, OneMember DEF NoLoss
<1> QED BY <1>1, <1>2, <1>3, <1>4 DEF Commit, End, MemberStep, Becomes
-----------------------------------------------------------------------------
(* What a member does                                                      *)

(* A session with the answer that has just arrived in hand                 *)
Chunk(f) == Append(session[f].received, wire[f].tag)
Refreshed(f) == [session[f] EXCEPT !.busy = 0, !.retries = 0]

LEMMA Arrived ==
  ASSUME IInv, NEW f \in Follower, wire[f].kind # "lost"
  PROVE  LET s == Refreshed(f)
             received == Chunk(f)
         IN  /\ session[f] \in Session /\ session[f].state \in Transfer
             /\ s \in Session /\ s.state = session[f].state
             /\ s.remote = session[f].remote
             /\ s.received = session[f].received
             /\ received \in Seq(Payload) /\ received[1] \in Payload
             /\ Len(received) \in 1..Chunks(s.state)
             /\ s.state # "configuration" => s.remote \in cfg[f]..Generation
             /\ s.state = "configuration" /\ wire[f].kind = "ok" =>
                  \A i \in 1..Len(received) : received[i] \in 1..Generation
<1> DEFINE s == Refreshed(f)
           received == Chunk(f)
<1>1. /\ session[f] \in Session /\ wire[f] \in Message
      /\ Awaiting(session[f], wire[f]) /\ Learnt(cfg[f], session[f], wire[f])
  BY OneMember DEF Member
<1>2. /\ session[f].state \in Transfer /\ wire[f].tag \in Payload
      /\ Len(session[f].received) < Chunks(session[f].state)
  BY <1>1 DEF Awaiting, Message, Payload
<1>3. /\ s \in Session /\ s.state = session[f].state
      /\ s.remote = session[f].remote /\ s.received = session[f].received
  <2>1. 0 \in 0..BusyLimit /\ 0 \in 0..RetryLimit
    BY LimitAssumption
  <2> QED BY <1>1, <2>1 DEF Refreshed, Session
<1>4. /\ received \in Seq(Payload) /\ received[1] \in Payload
      /\ Len(received) \in 1..Chunks(s.state)
  BY <1>1, <1>2, <1>3, ReceivedType DEF Chunk
<1>5. s.state = "configuration" /\ wire[f].kind = "ok" =>
        \A i \in 1..Len(received) : received[i] \in 1..Generation
  BY <1>1, <1>2, <1>3, ReceivedType DEF Chunk, Learnt
<1>6. s.state # "configuration" => s.remote \in cfg[f]..Generation
  BY <1>1, <1>2, <1>3 DEF Learnt
<1> HIDE DEF s, received
<1> QED BY <1>1, <1>2, <1>3, <1>4, <1>5, <1>6 DEF s, received

LEMMA ValidateStep ==
  ASSUME IInv, NEW f \in Follower, NEW s \in Session,
         NEW received \in Seq(Payload), Len(received) = 2,
         \A i \in 1..2 : received[i] \in 1..Generation,
         Validate(f, s, received)
  PROVE  MemberStep(f)
<1> DEFINE g == received[1]
<1>1. g \in 1..Generation /\ cfg[f] \in 1..Generation
  BY OneMember
<1>2. CASE received[2] # g \/ g < cfg[f]
  BY <1>2, FailStep DEF Validate, Fail
<1>3. CASE received[2] = g /\ g >= cfg[f]
  <2>1. g \in cfg[f]..Generation /\ ~(g < cfg[f])
    BY <1>1, <1>3
  <2>2. CASE history[g] \in {NoPlan, store[f]}
    <3>1. Commit(f, g)
      BY <1>3, <2>1, <2>2 DEF Validate
    <3> QED BY <2>1, <3>1, CommitStep
  <2>3. CASE history[g] \notin {NoPlan, store[f]}
    <3> DEFINE n == [s EXCEPT !.state = "configMeta", !.received = <<>>,
                              !.remote = g]
    <3>1. Continue(f, n)
      BY <1>3, <2>1, <2>3 DEF Validate
    <3>2. /\ n \in Session /\ n.state = "configMeta" /\ n.remote = g
          /\ n.received = <<>>
      <4>1. g \in GenerationOrNone
        BY <1>1, OneMember, LimitAssumption DEF GenerationOrNone
      <4>2. <<>> \in Seq(Payload)
        OBVIOUS
      <4> QED BY <4>1, <4>2 DEF Session, State, Transfer
    <3> HIDE DEF n
    <3>3. n.state \in Transfer /\ Len(n.received) < Chunks(n.state)
      BY <3>2 DEF Transfer, Chunks
    <3> QED BY <2>1, <3>1, <3>2, <3>3, ContinueStep
  <2> QED BY <2>2, <2>3
<1> QED BY <1>1, <1>2, <1>3

LEMMA CompleteStep ==
  ASSUME IInv, NEW f \in Follower, wire[f].kind = "ok",
         Len(Chunk(f)) >= Chunks(session[f].state),
         Complete(f, Refreshed(f), Chunk(f))
  PROVE  MemberStep(f)
<1> DEFINE s == Refreshed(f)
           received == Chunk(f)
<1>1. /\ s \in Session /\ s.state \in Transfer
      /\ received \in Seq(Payload) /\ received[1] \in Payload
      /\ Len(received) = Chunks(s.state)
      /\ s.state # "configuration" => s.remote \in cfg[f]..Generation
      /\ s.state = "configuration" =>
           \A i \in 1..Len(received) : received[i] \in 1..Generation
  BY Arrived, ChunksType
<1>2. Complete(f, s, received)
  OBVIOUS
<1> HIDE DEF s, received
<1>3. CASE s.state = "configuration"
  <2>1. Validate(f, s, received) /\ Len(received) = 2
    BY <1>1, <1>2, <1>3 DEF Complete, Chunks
  <2> QED BY <1>1, <1>3, <2>1, ValidateStep
<1>4. CASE s.state = "image"
  <2>1. IF Whole(s, received) THEN Commit(f, s.remote) ELSE Fail(f)
    BY <1>2, <1>4 DEF Complete
  <2> QED BY <1>1, <1>4, <2>1, CommitStep, FailStep DEF Fail
<1>5. CASE s.state \in {"configMeta", "imageMeta", "config"}
  <2> DEFINE n == [s EXCEPT !.state = Following(s.state), !.received = <<>>,
                            !.config = received[1]]
  <2>1. Fail(f) \/ Continue(f, n)
    BY <1>2, <1>5 DEF Complete
  <2>2. Following(s.state) \in {"imageMeta", "config", "image"}
    BY <1>5 DEF Following
  <2>3. received[1] \in GenerationOrNone \cup Version
    BY <1>1 DEF Payload, GenerationOrNone
  <2>4. /\ n \in Session /\ n.state \in {"imageMeta", "config", "image"}
        /\ n.received = <<>> /\ n.remote = s.remote
    <3>1. <<>> \in Seq(Payload)
      OBVIOUS
    <3> QED BY <1>1, <2>2, <2>3, <3>1 DEF Session, State, Transfer
  <2> HIDE DEF n
  <2>5. n.state \in Transfer /\ Len(n.received) < Chunks(n.state)
    BY <2>4 DEF Transfer, Chunks
  <2> QED BY <1>1, <1>5, <2>1, <2>4, <2>5, ContinueStep, FailStep DEF Fail
<1> QED BY <1>1, <1>3, <1>4, <1>5 DEF Transfer

LEMMA ReceiveStep ==
  ASSUME IInv, NEW f \in Follower, Receive(f)
  PROVE  MemberStep(f)
<1>1. wire[f].kind \in {"ok", "busy", "error"}
  BY DEF Receive, Answered
<1>2. /\ session[f] \in Session /\ session[f].state \in Transfer
      /\ Refreshed(f) \in Session /\ Chunk(f) \in Seq(Payload)
      /\ Refreshed(f).state = session[f].state
      /\ Refreshed(f).remote = session[f].remote
      /\ Len(Chunk(f)) \in 1..Chunks(session[f].state)
  BY <1>1, Arrived
<1>3. CASE Fail(f)
  BY <1>3, FailStep DEF Fail
<1>4. CASE /\ wire[f].kind = "busy" /\ BusyAgain(session[f])
           /\ session' = [session EXCEPT ![f].busy = session[f].busy + 1]
           /\ wire' = [wire EXCEPT ![f] = Bare("later")]
           /\ UNCHANGED <<cfg, store>>
  <2> DEFINE n == [session[f] EXCEPT !.busy = session[f].busy + 1]
  <2>1. session[f].busy + 1 \in 0..BusyLimit
    BY <1>2, <1>4, LimitAssumption DEF BusyAgain, Session
  <2>2. /\ n \in Session /\ n.state = session[f].state
        /\ n.received = session[f].received /\ n.remote = session[f].remote
    BY <1>2, <2>1 DEF Session
  <2>3. session' = [session EXCEPT ![f] = n]
    BY <1>4
  <2> HIDE DEF n
  <2>4. Member(cfg[f], store[f], n, Bare("later"))
    BY <1>2, <2>2, OneMember, BareType DEF Member, Awaiting, Learnt
  <2>5. Becomes(f, cfg[f], store[f], n, Bare("later"))
    BY <1>4, <2>3, OneMember DEF Becomes
  <2>6. cfg[f] >= cfg[f]
    BY OneMember
  <2> QED BY <2>4, <2>5, <2>6, OneMember DEF MemberStep
<1>5. CASE wire[f].kind = "ok" /\ Len(Chunk(f)) < Chunks(session[f].state)
           /\ Continue(f, [Refreshed(f) EXCEPT !.received = Chunk(f)])
  <2> DEFINE n == [Refreshed(f) EXCEPT !.received = Chunk(f)]
  <2>1. /\ n \in Session /\ n.state = session[f].state
        /\ n.received = Chunk(f) /\ n.remote = session[f].remote
    BY <1>2 DEF Session
  <2>2. /\ n.state = "configuration" =>
             \A i \in 1..Len(n.received) : n.received[i] \in 1..Generation
        /\ n.state # "configuration" => n.remote \in cfg[f]..Generation
    BY <1>2, <1>5, <2>1, Arrived
  <2> HIDE DEF n
  <2> QED BY <1>2, <1>5, <2>1, <2>2, ContinueStep DEF n
<1>6. CASE wire[f].kind = "ok" /\ ~(Len(Chunk(f)) < Chunks(session[f].state))
           /\ Complete(f, Refreshed(f), Chunk(f))
  <2>1. Len(Chunk(f)) >= Chunks(session[f].state)
    BY <1>2, <1>6, ChunksType
  <2> QED BY <1>6, <2>1, CompleteStep
<1> QED BY <1>3, <1>4, <1>5, <1>6 DEF Receive, Refreshed, Chunk

(* What was in flight is lost.                                             *)
LEMMA LostStep ==
  ASSUME IInv, NEW f \in Follower,
         wire' = [wire EXCEPT ![f] = Bare("lost")],
         UNCHANGED <<cfg, store, session>>
  PROVE  MemberStep(f)
<1>1. Member(cfg[f], store[f], session[f], Bare("lost"))
  BY OneMember, BareType DEF Member, Awaiting, Learnt
<1>2. cfg[f] >= cfg[f]
  BY OneMember
<1> QED BY <1>1, <1>2, OneMember DEF MemberStep, Becomes

LEMMA RetryBusyStep ==
  ASSUME IInv, NEW f \in Follower, RetryBusy(f)
  PROVE  MemberStep(f)
<1>1. Member(cfg[f], store[f], session[f], Bare("request"))
  BY OneMember, BareType DEF RetryBusy, Active, Member, Awaiting, Learnt
<1>2. cfg[f] >= cfg[f]
  BY OneMember
<1>3. Becomes(f, cfg[f], store[f], session[f], Bare("request"))
  BY OneMember DEF RetryBusy, memberVars, Becomes
<1> QED BY <1>1, <1>2, <1>3, OneMember DEF MemberStep

LEMMA TimeOutStep ==
  ASSUME IInv, NEW f \in Follower, TimeOut(f)
  PROVE  MemberStep(f)
<1>1. CASE session[f].retries = RetryLimit
  BY <1>1, FailStep DEF TimeOut, Fail
<1>2. CASE session[f].retries # RetryLimit
  <2> DEFINE s == session[f]
             n == [s EXCEPT !.retries = @ + 1]
  <2>1. /\ s \in Session /\ Awaiting(s, wire[f]) /\ Learnt(cfg[f], s, wire[f])
        /\ s.state \in Transfer
    BY OneMember DEF Member, TimeOut, Active
  <2>2. s.retries + 1 \in 0..RetryLimit
    BY <1>2, <2>1, LimitAssumption DEF Session
  <2>3. /\ n \in Session /\ n.state = s.state /\ n.received = s.received
        /\ n.remote = s.remote
    BY <2>1, <2>2 DEF Session
  <2>4. Continue(f, n)
    BY <1>2 DEF TimeOut
  <2> HIDE DEF s, n
  <2>5. /\ n.state \in Transfer /\ Len(n.received) < Chunks(n.state)
        /\ n.state = "configuration" =>
             \A i \in 1..Len(n.received) : n.received[i] \in 1..Generation
        /\ n.state # "configuration" => n.remote \in cfg[f]..Generation
    BY <2>1, <2>3 DEF Awaiting, Learnt
  <2> QED BY <2>3, <2>4, <2>5, ContinueStep
<1> QED BY <1>1, <1>2

LEMMA BeginStep ==
  ASSUME IInv, NEW f \in Follower, Begin(f), UNCHANGED <<cfg, store>>
  PROVE  MemberStep(f)
<1>1. Member(cfg[f], store[f], [NoSession EXCEPT !.state = "configuration"],
             Bare("request"))
  BY OneMember, Over, BareType DEF State, Transfer
<1>2. cfg[f] >= cfg[f]
  BY OneMember
<1> QED BY <1>1, <1>2, OneMember DEF Begin, MemberStep, Becomes

LEMMA PowerCutStep ==
  ASSUME IInv, NEW f \in Follower, PowerCut(f)
  PROVE  MemberStep(f)
<1>1. /\ session' = [session EXCEPT ![f] = NoSession]
      /\ wire' = [wire EXCEPT ![f] = Bare("lost")]
  BY DEF PowerCut, Reboot
<1>2. NoSession = [NoSession EXCEPT !.state = "idle"]
  BY DEF NoSession
<1>3. cfg[f] >= cfg[f]
  BY OneMember
<1>4. /\ Bare("lost") \in Message /\ Bare("lost").kind = "lost"
      /\ "idle" \in State /\ "idle" \notin Transfer /\ "idle" # "configuration"
  BY BareType DEF State, Transfer
<1>5. CASE UNCHANGED <<cfg, store>>
  <2>1. Member(cfg[f], store[f], NoSession, Bare("lost"))
    BY <1>2, <1>4, OneMember, Over
  <2> QED BY <1>1, <1>3, <1>5, <2>1, OneMember DEF MemberStep, Becomes
<1>6. CASE CutInHeader(f)
  <2>1. Member(cfg[f], Erased, session[f], wire[f])
    BY OneMember DEF Member, Sound
  <2>2. Member(cfg[f], Erased, NoSession, Bare("lost"))
    BY <1>2, <1>4, <2>1, Over
  <2>3. budget'.cuts < budget.cuts
    BY DEF PowerCut, IInv, TypeOK, Budget
  <2>4. f \in lost' /\ UNCHANGED cfg /\ store' = [store EXCEPT ![f] = Erased]
    BY <1>6 DEF CutInHeader
  <2>5. NoLoss(f, cfg[f], Erased)
    BY <2>3, <2>4 DEF NoLoss
  <2> QED BY <1>1, <1>3, <2>2, <2>4, <2>5, OneMember DEF MemberStep, Becomes
<1>7. CASE ~UNCHANGED <<cfg, store>> /\ ~CutInHeader(f)
  <2> DEFINE g == session[f].remote
  <2>1. /\ session[f].state = "image"
        /\ cfg' = [cfg EXCEPT ![f] = Committed(f, g, TRUE).cfg]
        /\ store' = [store EXCEPT ![f] = Committed(f, g, TRUE).store]
    BY <1>7 DEF PowerCut
  <2>2. g \in cfg[f]..Generation
    BY <2>1, OneMember DEF Member, Learnt, Transfer
  <2>3. history[g] \in Plan
    BY <2>2, OneMember DEF Generation
  <2>4. /\ Committed(f, g, TRUE).cfg = cfg[f]
        /\ Committed(f, g, TRUE).store = history[g]
    BY DEF Committed
  <2>5. Member(cfg[f], history[g], session[f], wire[f])
    BY <2>2, <2>3, OneMember DEF Member, Sound
  <2>6. Member(cfg[f], history[g], NoSession, Bare("lost"))
    BY <1>2, <1>4, <2>5, Over
  <2>7. NoLoss(f, cfg[f], history[g])
    BY <2>2 DEF NoLoss
  <2> QED BY <1>1, <1>3, <2>1, <2>4, <2>6, <2>7 DEF MemberStep, Becomes
<1> QED BY <1>5, <1>6, <1>7

LEMMA SaveStatisticsStep ==
  ASSUME IInv, NEW f \in Follower, SaveStatistics(f)
  PROVE  MemberStep(f)
<1>1. NoPlan \in Plan
  BY LimitAssumption DEF NoPlan, Plan, Version
<1>2. Member(cfg[f], NoPlan, session[f], wire[f])
  BY <1>1, OneMember DEF Member, Sound
<1>3. NoLoss(f, cfg[f], NoPlan) /\ cfg[f] >= cfg[f]
  BY OneMember DEF SaveStatistics, NoLoss
<1>4. Becomes(f, cfg[f], NoPlan, session[f], wire[f])
  BY OneMember DEF SaveStatistics, Becomes
<1> QED BY <1>2, <1>3, <1>4 DEF MemberStep

LEMMA ServeStep ==
  ASSUME IInv, NEW f \in Follower, Serve(f)
  PROVE  MemberStep(f)
<1> DEFINE s == session[f]
           ask == Asked(s)
           w == AnswerTo(f, ask)
<1>1. Member(cfg[f], store[f], s, wire[f]) /\ wire[f].kind = "request"
  BY OneMember DEF Serve, Requesting
<1>2. s.state \in Transfer /\ ask.what = s.state
  BY <1>1 DEF Member, Awaiting, Asked
<1>3. /\ Content(ask) \in Payload
      /\ s.state = "configuration" => Content(ask) \in 1..Generation
  <2>1. Generation \in 1..Generation /\ Generation \in Payload
    BY OneMember, LimitAssumption DEF Payload
  <2>2. ownerStore.config \in Payload /\ ownerStore.image \in Payload
    BY DEF IInv, TypeOK, Plan, Payload
  <2> QED BY <1>2, <2>1, <2>2 DEF Content
<1>4. /\ w \in Message /\ w.kind \in {"ok", "busy", "error"}
      /\ w.kind = "ok" => w.tag = Content(ask)
  <2>1. CASE w = Bare("busy") \/ w = Bare("error")
    BY <2>1, BareType
  <2>2. CASE w = [kind |-> "ok", tag |-> Content(ask)]
    BY <1>3, <2>2 DEF Message, Payload
  <2> QED BY <2>1, <2>2 DEF AnswerTo
<1> HIDE DEF w, ask
<1>5. Member(cfg[f], store[f], s, w)
  BY <1>1, <1>2, <1>3, <1>4 DEF Member, Awaiting, Learnt
<1>6. cfg[f] >= cfg[f]
  BY OneMember
<1>7. wire' = [wire EXCEPT ![f] = w] /\ UNCHANGED <<cfg, store, session>>
  BY DEF Serve, memberVars, w, ask
<1>8. Becomes(f, cfg[f], store[f], s, w)
  BY <1>7, OneMember DEF Becomes
<1> QED BY <1>5, <1>6, <1>8, OneMember DEF MemberStep

-----------------------------------------------------------------------------
(* The invariant                                                           *)

LEMMA InitInv == Init => IInv
<1> SUFFICES ASSUME Init PROVE IInv
  OBVIOUS
<1>1. PICK s \in Setup :
        /\ history = <<s.plan>> /\ ownerStore = s.plan
        /\ store = [f \in Follower |-> s.plan] /\ budget = s.budget
  BY DEF Init
<1>2. s.plan \in Plan /\ s.budget \in Budget
  BY SetupAssumption
<1>3. /\ history \in Seq(Plan) /\ Generation = 1 /\ history[1] = s.plan
  BY <1>1, <1>2 DEF Generation
<1>4. /\ NoSession \in Session /\ NoSession.state = "idle"
      /\ NoSession = [NoSession EXCEPT !.state = "idle"]
  BY NoSessionType DEF NoSession, State
<1>5. Bare("lost") \in Message /\ Bare("lost").kind = "lost"
  BY BareType
<1>6. NoTracking \in Tracker
  BY NoTrackingType
<1>7. 1 \in 1..Generation /\ 0 \in 0..Generation /\ 1 \in 1..GenerationLimit
  BY <1>3, LimitAssumption
<1>8. TypeOK
  <2>1. session \in [Follower -> Session] /\ tracker \in [Follower -> Tracker]
    BY <1>4, <1>6 DEF Init
  <2>2. wire \in [Follower -> Message]
    BY <1>5 DEF Init
  <2>3. report \in
          [Follower -> [generation : 0..Generation, ready : BOOLEAN]]
    BY <1>7 DEF Init
  <2> QED BY <1>1, <1>2, <1>3, <1>7, <2>1, <2>2, <2>3
          DEF Init, TypeOK, Session, Payload, Tracker
<1>9. ASSUME NEW f \in Follower
      PROVE  /\ Member(cfg[f], store[f], session[f], wire[f])
             /\ report[f].generation <= cfg[f] /\ ~report[f].ready
  <2>1. /\ cfg[f] = 1 /\ store[f] = s.plan /\ session[f] = NoSession
        /\ wire[f] = Bare("lost") /\ report[f].generation = 0
        /\ report[f].ready = FALSE
    BY <1>1 DEF Init
  <2>2. Awaiting(NoSession, Bare("lost")) /\ Learnt(1, NoSession, Bare("lost"))
    BY <1>4, <1>5 DEF Awaiting, Learnt, Transfer
  <2> QED BY <1>2, <1>3, <1>4, <1>5, <1>7, <2>1, <2>2 DEF Member, Sound
<1> QED BY <1>8, <1>9 DEF IInv, MembersInv, Reported

(* What both kinds of step owe to the rest of the invariant                *)
LEMMA Keeps ==
  ASSUME IInv, UNCHANGED history, ownerStore' \in Plan,
         \/ \E f \in Follower : MemberStep(f) /\ UNCHANGED ownerStore
         \/ UNCHANGED <<cfg, store, session, wire>>,
         lease' \in Follower \cup {None},
         strays' \subseteq [from : Follower, ask : Ask],
         seen' \in [Follower -> 0..Generation],
         UNCHANGED report, lost \subseteq lost', lost' \subseteq Follower,
         budget' \in Budget,
         tracker' \in [Follower -> Tracker]
  PROVE  IInv'
<1>1. Generation' = Generation /\ Generation \in Int
  BY OneMember, MemberAssumption DEF Generation
<1>2. /\ cfg' \in [Follower -> 1..Generation']
      /\ store' \in [Follower -> Plan \cup {Erased}]
      /\ session' \in [Follower -> Session]
      /\ wire' \in [Follower -> Message]
      /\ MembersInv'
      /\ \A f \in Follower :
           cfg'[f] >= cfg[f] /\ NoLoss(f, cfg'[f], store'[f])
  <2>1. CASE \E f \in Follower : MemberStep(f) /\ UNCHANGED ownerStore
    BY <2>1, MemberSteps DEF ownerVars
  <2>2. CASE UNCHANGED <<cfg, store, session, wire>>
    <3>1. /\ cfg' \in [Follower -> 1..Generation']
          /\ store' \in [Follower -> Plan \cup {Erased}]
          /\ session' \in [Follower -> Session]
          /\ wire' \in [Follower -> Message]
      BY <1>1, <2>2 DEF IInv, TypeOK, Session, Payload
    <3>2. MembersInv'
      BY <1>1, <2>2 DEF IInv, MembersInv, Member, Learnt, Sound
    <3>3. \A f \in Follower :
            cfg'[f] >= cfg[f] /\ NoLoss(f, cfg'[f], store'[f])
      BY <2>2, OneMember DEF NoLoss
    <3> QED BY <3>1, <3>2, <3>3
  <2> QED BY <2>1, <2>2
<1>3. TypeOK'
  <2>1. history' \in Seq(Plan) /\ Generation' \in 1..GenerationLimit
    BY <1>1 DEF IInv, TypeOK
  <2>2. report' \in [Follower -> [generation : 0..Generation',
                                  ready : BOOLEAN]]
    BY <1>1 DEF IInv, TypeOK
  <2>3. seen' \in [Follower -> 0..Generation']
    BY <1>1
  <2> QED BY <1>2, <2>1, <2>2, <2>3 DEF TypeOK, Session, Payload, Tracker
<1>4. Reported'
  <2> SUFFICES ASSUME NEW f \in Follower
               PROVE  /\ report[f].generation <= cfg'[f]
                      /\ report[f].ready =>
                           \/ f \in lost'
                           \/ \E g \in 1..Generation :
                                /\ g >= report[f].generation
                                /\ store'[f] = history[g]
    BY <1>1 DEF Reported
  <2>1. /\ cfg[f] \in Nat /\ cfg'[f] \in 1..Generation
        /\ report[f].generation \in Nat
        /\ report[f].generation <= cfg[f] /\ cfg[f] <= cfg'[f]
    BY <1>1, <1>2, OneMember DEF IInv, TypeOK, Reported
  <2>2. ASSUME NEW g \in 1..Generation, g >= report[f].generation,
               store[f] = history[g], f \notin lost'
        PROVE  \E h \in 1..Generation :
                 h >= report[f].generation /\ store'[f] = history[h]
    <3>1. store[f] # Erased
      BY <2>2, OneMember, ErasedAssumption DEF Generation
    <3>2. \/ store'[f] = store[f]
          \/ \E h \in cfg'[f]..Generation : store'[f] = history[h]
      BY <1>2, <2>2, <3>1 DEF NoLoss
    <3>3. \A h \in cfg'[f]..Generation :
            h \in 1..Generation /\ h >= report[f].generation
      BY <1>1, <2>1
    <3> QED BY <2>2, <3>2, <3>3
  <2> QED BY <1>1, <2>1, <2>2 DEF IInv, Reported
<1> QED BY <1>2, <1>3, <1>4 DEF IInv

(* The types of what a step leaves alone                                   *)
LEMMA Rest ==
  ASSUME IInv
  PROVE  /\ ownerStore \in Plan
         /\ lease \in Follower \cup {None}
         /\ strays \subseteq [from : Follower, ask : Ask]
         /\ seen \in [Follower -> 0..Generation]
         /\ report \in [Follower -> [generation : 0..Generation,
                                     ready : BOOLEAN]]
         /\ lost \subseteq Follower
         /\ tracker \in [Follower -> Tracker]
BY DEF IInv, TypeOK, Tracker

LEMMA LeaseType ==
  ASSUME IInv, NEW f \in Follower, NEW ask
  PROVE  LeaseAfter(f, ask) \in Follower \cup {None}
BY Rest DEF LeaseAfter

(* A generation more                                                       *)
LEMMA PublishInv ==
  ASSUME IInv, budget' \in Budget,
         NEW plan \in Plan, Publish(plan), UNCHANGED ownerStore
  PROVE  IInv'
<1>1. /\ history \in Seq(Plan) /\ Generation \in Nat
      /\ Generation + 1 \in 1..GenerationLimit
      /\ history' = Append(history, plan)
  BY LimitAssumption DEF IInv, TypeOK, Publish
<1>2. /\ history' \in Seq(Plan) /\ Generation' = Generation + 1
      /\ \A g \in 1..Generation : history'[g] = history[g]
  BY <1>1 DEF Generation
<1>3. /\ UNCHANGED <<lease, wire, strays, lost, seen, report, cfg, store,
                     session, tracker>>
  BY DEF Publish, memberVars
<1>4. /\ cfg' \in [Follower -> 1..Generation']
      /\ seen' \in [Follower -> 0..Generation']
      /\ report' \in [Follower -> [generation : 0..Generation',
                                   ready : BOOLEAN]]
  <2>1. 1..Generation \subseteq 1..Generation'
        /\ 0..Generation \subseteq 0..Generation'
    BY <1>1, <1>2
  <2>2. cfg \in [Follower -> 1..Generation]
    BY DEF IInv, TypeOK
  <2> QED BY <1>3, <2>1, <2>2, Rest
<1>5. TypeOK'
  BY <1>1, <1>2, <1>3, <1>4 DEF IInv, TypeOK
<1>6. MembersInv'
  <2> SUFFICES ASSUME NEW f \in Follower
               PROVE  Member(cfg[f], store[f], session[f], wire[f])'
    BY DEF MembersInv
  <2>1. Member(cfg[f], store[f], session[f], wire[f])
    BY OneMember
  <2>2. /\ cfg[f] \in 1..Generation' /\ Generation' \in Nat
        /\ \A g \in cfg[f]..Generation :
             g \in cfg[f]..Generation' /\ g \in 1..Generation
        /\ \A g \in 1..Generation : g \in 1..Generation'
    BY <1>1, <1>2, OneMember
  <2>3. Learnt(cfg[f], session[f], wire[f])'
    <3>1. Learnt(cfg[f], session[f], wire[f])
      BY <2>1 DEF Member
    <3> QED BY <1>3, <2>2, <3>1 DEF Learnt
  <2>4. Sound(cfg[f], store[f])'
    BY <1>2, <1>3, <2>1, <2>2 DEF Member, Sound
  <2> QED BY <1>3, <2>1, <2>2, <2>3, <2>4 DEF Member
<1>7. Reported'
  <2>1. 1..Generation \subseteq 1..Generation'
    BY <1>1, <1>2
  <2>2. ASSUME NEW f \in Follower, report[f].ready, f \notin lost
        PROVE  \E g \in 1..Generation' :
                 g >= report[f].generation /\ store[f] = history'[g]
    <3>1. PICK g \in 1..Generation :
            g >= report[f].generation /\ store[f] = history[g]
      BY <2>2 DEF IInv, Reported
    <3> QED BY <1>2, <2>1, <3>1
  <2> QED BY <1>3, <2>2 DEF IInv, Reported
<1> QED BY <1>5, <1>6, <1>7 DEF IInv

LEMMA OwnerInv ==
  ASSUME IInv, budget' \in Budget,
         \/ EditRoster \/ CommitFloorplan
         \/ \E target \in {"config", "image"} : Upload(target)
  PROVE  IInv'
<1>1. CASE EditRoster
  <2>1. Published \in Plan
    BY OneMember, MemberAssumption DEF Published, Generation
  <2> QED BY <1>1, <2>1, PublishInv DEF EditRoster
<1>2. CASE CommitFloorplan
  BY <1>2, Rest, PublishInv DEF CommitFloorplan
<1>3. ASSUME NEW target \in {"config", "image"}, Upload(target)
      PROVE  IInv'
  <2>1. ownerStore' \in Plan
    BY <1>3, Rest DEF Upload, Plan
  <2> QED BY <1>3, <2>1, Rest, Keeps DEF Upload, memberVars
<1> QED BY <1>1, <1>2, <1>3

LEMMA TrackedType ==
  ASSUME IInv, NEW f \in Follower
  PROVE  Tracked(f) \in Tracker
<1>1. tracker[f] \in Tracker /\ seen[f] \in GenerationOrNone
  BY Rest, OneMember, LimitAssumption DEF GenerationOrNone
<1> 0 \in GenerationOrNone
  BY LimitAssumption DEF GenerationOrNone
<1>2. Observed(f) \in Tracker
  BY <1>1 DEF Observed, Tracker
<1> DEFINE t == Observed(f)
<1>3. /\ [t EXCEPT !.active = 0] \in Tracker
      /\ [t EXCEPT !.active = 0,
                   !.pending = IF @ > t.active THEN @ ELSE t.active]
           \in Tracker
      /\ [NoTracking EXCEPT !.blocked = t.active] \in Tracker
  BY <1>2, NoTrackingType DEF Tracker
<1>4. Tracked(f) \in
        {t, [t EXCEPT !.active = 0],
         [t EXCEPT !.active = 0,
                   !.pending = IF @ > t.active THEN @ ELSE t.active],
         [NoTracking EXCEPT !.blocked = t.active]}
  BY DEF Tracked
<1> QED BY <1>2, <1>3, <1>4

LEMMA MemberInv ==
  ASSUME IInv, budget' \in Budget, NEW f \in Follower,
         \/ Receive(f) \/ RetryBusy(f) \/ TimeOut(f) \/ Track(f) \/ Start(f)
         \/ Sync(f) \/ PowerCut(f) \/ SaveStatistics(f)
  PROVE  IInv'
<1>1. CASE Receive(f)
  <2>1. MemberStep(f)
    BY <1>1, ReceiveStep
  <2> QED BY <1>1, <2>1, Rest, Keeps DEF Receive, ownerVars
<1>2. CASE RetryBusy(f)
  <2>1. MemberStep(f)
    BY <1>2, RetryBusyStep
  <2> QED BY <1>2, <2>1, Rest, Keeps DEF RetryBusy, ownerVars, memberVars
<1>3. CASE TimeOut(f)
  <2>1. MemberStep(f)
    BY <1>3, TimeOutStep
  <2> QED BY <1>3, <2>1, Rest, Keeps DEF TimeOut, ownerVars
<1>4. CASE Track(f)
  <2>1. tracker' \in [Follower -> Tracker]
    BY <1>4, Rest, TrackedType DEF Track
  <2> QED BY <1>4, <2>1, Rest, Keeps DEF Track, ownerVars
<1>5. CASE Start(f)
  <2>1. MemberStep(f)
    BY <1>5, BeginStep DEF Start
  <2>2. tracker' \in [Follower -> Tracker]
    <3>1. [Tracked(f) EXCEPT !.active = Tracked(f).pending, !.pending = 0]
            \in Tracker
      <4>1. Tracked(f) \in Tracker /\ 0 \in GenerationOrNone
        BY TrackedType, LimitAssumption DEF GenerationOrNone
      <4> QED BY <4>1 DEF Tracker
    <3> QED BY <1>5, <3>1, Rest DEF Start
  <2> QED BY <1>5, <2>1, <2>2, Rest, Keeps DEF Start, ownerVars
<1>6. CASE Sync(f)
  <2>1. tracker' \in [Follower -> Tracker]
    BY <1>6, Rest, NoTrackingType DEF Sync
  <2>2. CASE Active(f)
    BY <1>6, <2>1, <2>2, Rest, Keeps DEF Sync, ownerVars
  <2>3. CASE ~Active(f)
    <3>1. MemberStep(f)
      BY <1>6, <2>3, BeginStep DEF Sync
    <3> QED BY <1>6, <2>1, <3>1, Rest, Keeps DEF Sync, ownerVars
  <2> QED BY <2>2, <2>3
<1>7. CASE PowerCut(f)
  <2>1. MemberStep(f)
    BY <1>7, PowerCutStep
  <2>2. tracker' \in [Follower -> Tracker]
    BY <1>7, Rest, NoTrackingType DEF PowerCut, Reboot
  <2>3. seen' \in [Follower -> 0..Generation]
    <3>1. 0 \in 0..Generation
      BY OneMember
    <3> QED BY <1>7, <3>1, Rest DEF PowerCut, Reboot
  <2>4. lost \subseteq lost' /\ lost' \subseteq Follower
    BY <1>7, Rest DEF PowerCut, CutInHeader
  <2> QED BY <1>7, <2>1, <2>2, <2>3, <2>4, Rest, Keeps
          DEF PowerCut, Reboot, ownerVars
<1>8. CASE SaveStatistics(f)
  <2>1. MemberStep(f)
    BY <1>8, SaveStatisticsStep
  <2> QED BY <1>8, <2>1, Rest, Keeps DEF SaveStatistics, ownerVars
<1> QED BY <1>1, <1>2, <1>3, <1>4, <1>5, <1>6, <1>7, <1>8

LEMMA NetworkInv ==
  ASSUME IInv, budget' \in Budget,
         \/ \E f \in Follower :
              Heartbeat(f) \/ Serve(f) \/ Lose(f) \/ Copy(f)
         \/ \E r \in strays : ServeStray(r)
         \/ Expire
  PROVE  IInv'
<1>1. ASSUME NEW f \in Follower, Heartbeat(f)
      PROVE  IInv'
  <2> DEFINE read == [generation |-> cfg[f], ready |-> Ready(f)]
  <2>1. /\ Generation \in 0..Generation /\ cfg[f] \in 0..Generation
        /\ \A g \in Follower : cfg[g] \in Nat
    BY OneMember
  <2>2. seen' \in [Follower -> 0..Generation]
    BY <1>1, <2>1, Rest DEF Heartbeat
  <2>3. /\ read \in [generation : 0..Generation, ready : BOOLEAN]
        /\ read.generation = cfg[f]
    BY <2>1 DEF Ready
  <2>4. report' = [report EXCEPT ![f] = read]
    BY <1>1 DEF Heartbeat
  <2>5. lost' = lost \ {f} /\ (read.ready => store[f] = history[cfg[f]])
    BY <1>1 DEF Heartbeat, Ready
  <2> HIDE DEF read
  <2>6. report' \in [Follower -> [generation : 0..Generation,
                                  ready : BOOLEAN]]
    BY <2>3, <2>4, Rest
  <2>7. UNCHANGED <<history, ownerStore, lease, wire, strays, cfg, store,
                    session, tracker>> /\ UNCHANGED Generation
    BY <1>1 DEF Heartbeat, ownerVars, memberVars, Generation
  <2>8. TypeOK'
    BY <2>2, <2>5, <2>6, <2>7 DEF IInv, TypeOK
  <2>9. MembersInv'
    BY <2>7 DEF IInv, MembersInv, Member, Learnt, Sound
  <2>10. ASSUME NEW g \in Follower
         PROVE  /\ report'[g].generation <= cfg[g]
                /\ report'[g].ready =>
                     \/ g \in lost'
                     \/ \E h \in 1..Generation :
                          h >= report'[g].generation /\ store[g] = history[h]
    <3>1. CASE g = f
      <4>1. report'[g] = read /\ cfg[f] \in 1..Generation
        BY <2>4, <3>1, Rest, OneMember
      <4> QED BY <2>1, <2>3, <2>5, <3>1, <4>1
    <3>2. CASE g # f
      <4>1. report'[g] = report[g] /\ (g \in lost => g \in lost')
        BY <2>4, <2>5, <3>2, Rest
      <4> QED BY <4>1 DEF IInv, Reported
    <3> QED BY <3>1, <3>2
  <2>11. Reported'
    BY <2>7, <2>10 DEF Reported
  <2> QED BY <2>8, <2>9, <2>11 DEF IInv
<1>2. ASSUME NEW f \in Follower, Serve(f)
      PROVE  IInv'
  <2>1. MemberStep(f)
    BY <1>2, ServeStep
  <2>2. lease' \in Follower \cup {None}
    BY <1>2, LeaseType DEF Serve
  <2> QED BY <1>2, <2>1, <2>2, Rest, Keeps DEF Serve, ownerVars, memberVars
<1>3. ASSUME NEW f \in Follower, Lose(f)
      PROVE  IInv'
  <2>1. MemberStep(f)
    BY <1>3, LostStep DEF Lose, memberVars
  <2> QED BY <1>3, <2>1, Rest, Keeps DEF Lose, ownerVars, memberVars
<1>4. ASSUME NEW f \in Follower, Copy(f)
      PROVE  IInv'
  <2> DEFINE s == session[f]
  <2>1. s \in Session /\ Awaiting(s, wire[f]) /\ wire[f].kind = "request"
    BY <1>4, OneMember DEF Member, Copy, Requesting
  <2>2. s.state \in Transfer /\ Len(s.received) \in 0..1
    <3>1. /\ s.state \in Transfer /\ Len(s.received) < Chunks(s.state)
          /\ s.received \in Seq(Payload)
      BY <2>1 DEF Awaiting, Session
    <3>2. Chunks(s.state) \in 1..2 /\ Len(s.received) \in Nat
      BY <3>1, ChunksType
    <3>3. ASSUME NEW n \in Nat, NEW c \in 1..2, n < c
          PROVE  n \in 0..1
      BY <3>3
    <3> QED BY <3>1, <3>2, <3>3
  <2>3. [from |-> f, ask |-> Asked(s)] \in [from : Follower, ask : Ask]
    BY <2>2 DEF Asked, Ask
  <2>4. strays' \subseteq [from : Follower, ask : Ask]
    BY <1>4, <2>3, Rest DEF Copy
  <2> QED BY <1>4, <2>4, Rest, Keeps DEF Copy, ownerVars, memberVars
<1>5. ASSUME NEW r \in strays, ServeStray(r)
      PROVE  IInv'
  <2>1. r.from \in Follower
    BY Rest
  <2>2. lease' \in Follower \cup {None}
    BY <1>5, <2>1, Rest, LeaseType DEF ServeStray
  <2>3. strays' \subseteq [from : Follower, ask : Ask]
    BY <1>5, Rest DEF ServeStray
  <2> QED BY <1>5, <2>2, <2>3, Rest, Keeps
          DEF ServeStray, ownerVars, memberVars
<1>6. CASE Expire
  BY <1>6, Rest, Keeps DEF Expire, ownerVars, memberVars
<1> QED BY <1>1, <1>2, <1>3, <1>4, <1>5, <1>6

LEMMA OwnerPowerInv ==
  ASSUME IInv, budget' \in Budget, OwnerPowerCut
  PROVE  IInv'
<1>1. /\ UNCHANGED <<history, strays, lost, seen, cfg, store, session,
                     tracker>>
      /\ ownerStore' \in Plan
  <2>1. NoPlan \in Plan
    BY LimitAssumption DEF NoPlan, Plan, Version
  <2> QED BY <2>1, Rest DEF OwnerPowerCut, memberVars
<1>2. /\ wire' \in [Follower -> Message]
      /\ \A f \in Follower :
           wire'[f] = wire[f] \/ wire'[f] = Bare("lost")
  BY BareType DEF OwnerPowerCut, IInv, TypeOK
<1>3. /\ report' \in [Follower -> [generation : 0..Generation,
                                   ready : BOOLEAN]]
      /\ \A f \in Follower :
           /\ report'[f].generation = 0 /\ report'[f].ready = FALSE
           /\ cfg[f] \in Nat
  <2>1. 0 \in 0..Generation
    BY OneMember, MemberAssumption
  <2> QED BY <2>1, OneMember DEF OwnerPowerCut
<1>4. TypeOK'
  BY <1>1, <1>2, <1>3 DEF IInv, TypeOK, Generation, OwnerPowerCut
<1>5. ASSUME NEW f \in Follower
      PROVE  Member(cfg[f], store[f], session[f], wire[f])'
  BY <1>1, <1>2, OneMember, BareType
     DEF Member, Awaiting, Learnt, Sound, Generation
<1>6. Reported'
  BY <1>1, <1>3 DEF Reported
<1> QED BY <1>4, <1>5, <1>6 DEF IInv, MembersInv

LEMMA BudgetType ==
  ASSUME IInv, [Next]_vars
  PROVE  budget' \in Budget
<1>1. budget \in Budget
  BY DEF IInv, TypeOK
<1>2. CASE UNCHANGED budget
  BY <1>1, <1>2
<1>3. ASSUME NEW b \in {"edits", "uploads", "syncs", "faults", "copies",
                      "cuts"},
             budget[b] > 0, budget' = [budget EXCEPT ![b] = @ - 1]
      PROVE  budget' \in Budget
  BY <1>1, <1>3 DEF Budget
<1>4. CASE \/ EditRoster \/ CommitFloorplan \/ Expire \/ OwnerPowerCut
           \/ \E target \in {"config", "image"} : Upload(target)
           \/ \E r \in strays : ServeStray(r)
  BY <1>2, <1>3, <1>4
     DEF EditRoster, Upload, CommitFloorplan, ServeStray, Expire, OwnerPowerCut
<1>5. ASSUME NEW f \in Follower,
             \/ Heartbeat(f) \/ Serve(f) \/ Receive(f) \/ RetryBusy(f)
             \/ TimeOut(f) \/ Track(f) \/ Start(f) \/ SaveStatistics(f)
      PROVE  budget' \in Budget
  BY <1>2, <1>5
     DEF Heartbeat, Serve, Receive, RetryBusy, TimeOut, Track, Start,
     SaveStatistics
<1>6. ASSUME NEW f \in Follower,
             Sync(f) \/ Lose(f) \/ Copy(f) \/ PowerCut(f)
      PROVE  budget' \in Budget
  BY <1>3, <1>6 DEF Sync, Lose, Copy, PowerCut
<1> QED BY <1>2, <1>4, <1>5, <1>6 DEF Next, vars

LEMMA StepInv == IInv /\ [Next]_vars => IInv'
<1> SUFFICES ASSUME IInv, [Next]_vars PROVE IInv'
  OBVIOUS
<1>0. budget' \in Budget
  BY BudgetType
<1>1. CASE \/ EditRoster \/ CommitFloorplan
           \/ \E target \in {"config", "image"} : Upload(target)
  BY <1>0, <1>1, OwnerInv
<1>2. CASE \E f \in Follower :
             \/ Receive(f) \/ RetryBusy(f) \/ TimeOut(f) \/ Track(f)
             \/ Start(f) \/ Sync(f) \/ PowerCut(f) \/ SaveStatistics(f)
  BY <1>0, <1>2, MemberInv
<1>3. CASE \/ \E f \in Follower :
                Heartbeat(f) \/ Serve(f) \/ Lose(f) \/ Copy(f)
           \/ \E r \in strays : ServeStray(r)
           \/ Expire
  BY <1>0, <1>3, NetworkInv
<1>4. CASE OwnerPowerCut
  BY <1>0, <1>4, OwnerPowerInv
<1>5. CASE UNCHANGED vars
  BY <1>0, <1>5, Rest, Keeps DEF vars, ownerVars, memberVars
<1> QED BY <1>1, <1>2, <1>3, <1>4, <1>5 DEF Next

LEMMA Invariant == Spec => []IInv
BY InitInv, StepInv, PTL DEF Spec

-----------------------------------------------------------------------------
(* The theorems                                                            *)

(* The Owner, its members and the network between them keep every type.    *)
THEOREM ReplicationTyped == Spec => []TypeOK
<1>1. IInv => TypeOK
  BY DEF IInv
<1> QED BY <1>1, Invariant, PTL

(* What a step makes of the committed floorplans, and of a member's        *)
LEMMA Floorplans ==
  ASSUME IInv, Next
  PROVE  /\ Generation' \in Nat /\ Generation \in Nat
         /\ Generation' >= Generation
         /\ \A g \in 1..Generation : history'[g] = history[g]
         /\ \A f \in Follower : NoLoss(f, cfg'[f], store'[f])
<1>1. CASE EditRoster \/ CommitFloorplan
  <2>1. PICK plan \in Plan : history' = Append(history, plan)
    BY <1>1, Rest, OneMember, MemberAssumption
       DEF EditRoster, CommitFloorplan, Publish, Published, Generation
  <2>2. UNCHANGED <<cfg, store>>
    BY <1>1 DEF EditRoster, CommitFloorplan, Publish, memberVars
  <2> QED BY <2>1, <2>2, OneMember, MemberAssumption DEF Generation, NoLoss
<1>2. CASE ~EditRoster /\ ~CommitFloorplan
  <2>1. UNCHANGED history /\ Generation \in Nat
    BY <1>2, OneMember, MemberAssumption
       DEF Next, Upload, Heartbeat, Serve, Receive, RetryBusy, TimeOut,
       Track, Start, Sync, Lose, Copy, PowerCut, Reboot, SaveStatistics,
       ServeStray, Expire, OwnerPowerCut, ownerVars
  <2>2. CASE \E f \in Follower :
               Receive(f) \/ PowerCut(f) \/ SaveStatistics(f)
    <3>1. PICK f \in Follower :
            Receive(f) \/ PowerCut(f) \/ SaveStatistics(f)
      BY <2>2
    <3>2. MemberStep(f)
      BY <3>1, ReceiveStep, PowerCutStep, SaveStatisticsStep
    <3>3. UNCHANGED ownerVars
      BY <3>1 DEF Receive, PowerCut, Reboot, SaveStatistics, ownerVars
    <3> QED BY <2>1, <3>2, <3>3, MemberSteps DEF Generation
  <2>3. CASE ~\E f \in Follower :
               Receive(f) \/ PowerCut(f) \/ SaveStatistics(f)
    <3>1. UNCHANGED <<cfg, store>>
      BY <1>2, <2>3
         DEF Next, Upload, Heartbeat, Serve, RetryBusy, TimeOut, Fail, End,
         Continue, Track, Start, Sync, Begin, Lose, Copy, ServeStray, Expire,
         OwnerPowerCut, memberVars
    <3> QED BY <2>1, <3>1 DEF NoLoss, Generation
  <2> QED BY <2>2, <2>3
<1> QED BY <1>1, <1>2

(* No member's payloads are a mixture of two floorplans, or older than the *)
(* configuration that describes them; a member may have none, and one that *)
(* has a floorplan loses it only to a power cut in a write of its header,  *)
(* whose sector is erased before it is written.                            *)
THEOREM ReplicasWhole == Spec => ReplicaWhole
<1>1. IInv => \A f \in Follower : WholeReplica(f) \/ NoReplica(f)
  BY DEF IInv, MembersInv, Member, Sound, WholeReplica, NoReplica
<1>2. IInv /\ [Next]_vars =>
        [\A f \in Follower :
           WholeReplica(f) =>
             \/ WholeReplica(f)'
             \/ store'[f] = Erased /\ budget'.cuts < budget.cuts]_vars
  <2> SUFFICES ASSUME IInv, Next, NEW f \in Follower, WholeReplica(f)
               PROVE  \/ WholeReplica(f)'
                      \/ store'[f] = Erased /\ budget'.cuts < budget.cuts
    OBVIOUS
  <2>1. PICK g \in cfg[f]..Generation : store[f] = history[g]
    BY DEF WholeReplica
  <2>2. cfg[f] \in 1..Generation /\ Generation \in Nat /\ g \in 1..Generation
    BY <2>1, OneMember
  <2>3. history[g] \in Plan
    BY <2>2, OneMember DEF Generation
  <2>4. store[f] # Erased
    BY <2>1, <2>3, ErasedAssumption
  <2>5. CASE cfg'[f] = cfg[f] /\ store'[f] = store[f]
    <3>1. g \in cfg'[f]..Generation' /\ store'[f] = history'[g]
      BY <2>1, <2>2, <2>5, Floorplans
    <3> QED BY <3>1 DEF WholeReplica
  <2>6. ASSUME NEW h \in cfg'[f]..Generation, store'[f] = history[h]
        PROVE  WholeReplica(f)'
    <3>1. cfg'[f] \in 1..Generation'
      BY StepInv DEF IInv, TypeOK
    <3>2. h \in 1..Generation /\ h \in cfg'[f]..Generation'
      BY <2>2, <3>1, Floorplans
    <3> QED BY <2>6, <3>2, Floorplans DEF WholeReplica
  <2> QED BY <2>4, <2>5, <2>6, Floorplans DEF NoLoss
<1> QED BY <1>1, <1>2, Invariant, PTL DEF Spec, ReplicaWhole

(* A floorplan is committed only while the successor holds the last one or *)
(* has lost it since it said so: a heartbeat may be old, but a member      *)
(* never goes back.                                                        *)
THEOREM OwnerBackedUp == Spec => BackedUp
<1>1. IInv /\ [Next]_vars =>
        [Len(history') > Generation /\ history'[Generation + 1] # Published =>
           /\ cfg[Successor] = Generation
           /\ Published # NoPlan =>
                store[Successor] = Published \/ Successor \in lost]_vars
  <2> SUFFICES ASSUME IInv, Next, Len(history') > Generation,
                      history'[Generation + 1] # Published
               PROVE  /\ cfg[Successor] = Generation
                      /\ Published # NoPlan =>
                           \/ store[Successor] = Published
                           \/ Successor \in lost
    OBVIOUS
  <2>1. history' # history /\ history \in Seq(Plan) /\ Generation \in Nat
    BY OneMember, MemberAssumption DEF Generation
  <2>2. CASE CommitFloorplan
    <3>1. /\ report[Successor].generation = Generation
          /\ cfg[Successor] \in 1..Generation
          /\ report[Successor].generation <= cfg[Successor]
      BY <2>2, MemberAssumption, OneMember
         DEF CommitFloorplan, Writable, IInv, Reported
    <3>2. cfg[Successor] = Generation
      BY <2>1, <3>1
    <3>3. ASSUME Published # NoPlan, Successor \notin lost
          PROVE  store[Successor] = Published
      <4>1. PICK g \in 1..Generation :
              /\ g >= report[Successor].generation
              /\ store[Successor] = history[g]
        BY <2>2, <3>3, MemberAssumption
           DEF CommitFloorplan, Writable, IInv, Reported
      <4>2. g = Generation
        BY <2>1, <3>1, <4>1
      <4> QED BY <4>1, <4>2 DEF Published
    <3> QED BY <3>2, <3>3
  <2>3. CASE EditRoster
    <3>1. Published \in Plan /\ history' = Append(history, Published)
      BY <2>3, OneMember, MemberAssumption
         DEF EditRoster, Publish, Published, Generation
    <3>2. history'[Generation + 1] = Published
      BY <2>1, <3>1 DEF Generation
    <3> QED BY <3>2
  <2>4. CASE ~CommitFloorplan /\ ~EditRoster
    <3>1. UNCHANGED history
      BY <2>4 DEF Next, Upload, Heartbeat, Serve, Receive, RetryBusy, TimeOut,
         Track, Start, Sync, Lose, Copy, PowerCut, Reboot, SaveStatistics,
         ServeStray, Expire, OwnerPowerCut, ownerVars
    <3> QED BY <2>1, <3>1
  <2> QED BY <2>2, <2>3, <2>4
<1> QED BY <1>1, Invariant, PTL DEF Spec, BackedUp
=============================================================================
