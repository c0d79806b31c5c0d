---------------------------- MODULE RoleElection ----------------------------
(***************************************************************************)
(* The arithmetic every role election of the firmware shares: quorum       *)
(* sizes (role_quorum.h), the choice of a term, the endorsements that an   *)
(* incumbent keeps across one roster change, and the bounded history of    *)
(* election views (role_election_fence.h).  Nothing here has state.        *)
(*                                                                         *)
(* A view digest is a 32-bit FNV hash in the code.  Here a digest is the   *)
(* value it is computed from, so that two digests are equal exactly when   *)
(* the hashed views are.  None is the empty identifier, and TermLimit is   *)
(* UINT32_MAX, at which terms saturate.                                    *)
(***************************************************************************)
EXTENDS Integers, Sequences, FiniteSets

CONSTANTS None, TermLimit

ASSUME TermLimitAssumption == TermLimit \in Nat \ {0}

Term == 0..TermLimit

-----------------------------------------------------------------------------
(* role_quorum.h *)

MutantHalf(expected) == expected \div 2  \* half is enough
StrictMajority(expected) == IF expected = 0 THEN 0 ELSE expected \div 2 + 1

QuorumAvailable(expected, online) ==
  expected # 0 /\ online >= StrictMajority(expected)

-----------------------------------------------------------------------------
(* role_election_fence.h *)

Larger(a, b) == IF a > b THEN a ELSE b

NextRoleTerm(t) == IF t = TermLimit THEN TermLimit ELSE t + 1

(* Two role identifiers are equal only when both name somebody. *)
RoleIdEqual(a, b) == a # None /\ a = b

(* Endorsements of the incumbent's earlier views count while one roster    *)
(* change is under way, but only if they complete the quorum.              *)
PreserveIncumbentEndorsements(stable, leader, term, observed, winner, current, earlier, required) ==
  IF /\ stable
     /\ term # 0
     /\ RoleIdEqual(leader, winner)
     /\ observed <= term
     /\ current < required
     /\ earlier # 0
     /\ current + earlier >= required
  THEN current + earlier
  ELSE current

(* Forgets the suspended term when the suspended Leader returns. *)
MutantNoResumption(current, leader, lost, lostLeader, winner, observed) ==
  IF RoleIdEqual(leader, winner) /\ observed <= current
    THEN Larger(current, 1)
  ELSE NextRoleTerm(Larger(Larger(current, lost), observed))

(* Counts on from the winner's own term, whatever was lost or is observed. *)
MutantOwnCount(current, leader, lost, lostLeader, winner, observed) ==
  IF RoleIdEqual(leader, winner) THEN Larger(current, 1)
  ELSE NextRoleTerm(current)

(* The term a winner leads with, and whether its authority is ready.       *)
(* "lost" and lostLeader are the suspended term and its Leader.            *)
LocalTerm(current, leader, lost, lostLeader, winner, observed) ==
  LET last == Larger(current, lost)
  IN  IF RoleIdEqual(leader, winner) /\ observed <= current
        THEN Larger(current, 1)
      ELSE IF /\ leader = None
              /\ RoleIdEqual(lostLeader, winner)
              /\ observed <= lost
        THEN Larger(lost, 1)
      ELSE IF leader = None /\ lostLeader = None /\ observed <= current
        THEN IF current = 0 THEN 1 ELSE NextRoleTerm(current)
      ELSE NextRoleTerm(Larger(last, observed))

MutantAnyTerm(current, leader, lost, lostLeader, winner, winnerTerm) == TRUE
MutantEqualTerm(current, leader, lost, lostLeader, winner, winnerTerm) ==
  winnerTerm >= Larger(current, lost)

(* Whether a remote winner's term is new enough. *)
RemoteTermAccepted(current, leader, lost, lostLeader, winner, winnerTerm) ==
  LET last == Larger(current, lost)
      known == \/ RoleIdEqual(leader, winner)
               \/ leader = None /\ RoleIdEqual(lostLeader, winner)
      unled == leader = None /\ lostLeader = None
  IN  IF known THEN winnerTerm >= last
      ELSE IF unled THEN winnerTerm >= current
      ELSE winnerTerm > last

(* What is left of the term when a remote winner is refused. *)
RefusedTerm(current, leader, lost, lostLeader, winner, admitted) ==
  LET last == Larger(current, lost)
  IN  IF ~admitted THEN Larger(last, 1)
      ELSE IF leader = None /\ lostLeader = None THEN current
      ELSE last

DecideRoleTerm(current, leader, lost, lostLeader, winner, isLocal, winnerTerm, admitted, observed) ==
  IF isLocal
  THEN [term  |-> LocalTerm(current, leader, lost, lostLeader,
                            winner, observed),
        ready |-> TRUE]
  ELSE IF /\ admitted
          /\ RemoteTermAccepted(current, leader, lost, lostLeader,
                                winner, winnerTerm)
  THEN [term |-> winnerTerm, ready |-> TRUE]
  ELSE [term  |-> RefusedTerm(current, leader, lost, lostLeader,
                              winner, admitted),
        ready |-> FALSE]

(* RoleElectionTransitionViews: at most three distinct earlier views, the  *)
(* oldest dropped first.                                                   *)
MaxViews == 3

CaptureView(views, v) ==
  IF \E i \in 1..Len(views) : views[i] = v THEN views
  ELSE IF Len(views) < MaxViews THEN Append(views, v)
  ELSE Append(Tail(views), v)

(* BoundedRoleElectionDigestVotes: the votes of the most supported digest  *)
(* among the voters, where digest[v] is what v endorses.                   *)
StrongestVote(voters, digest) ==
  IF voters = {} THEN 0
  ELSE LET votes(v) == Cardinality({w \in voters : digest[w] = digest[v]})
           v0 == CHOOSE v \in voters : \A w \in voters : votes(v) >= votes(w)
       IN  votes(v0)
=============================================================================
