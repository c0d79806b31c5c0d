-------------------------- MODULE MCGroupElection --------------------------
(* Instances of GroupElection with two members. *)
EXTENDS GroupElection

Nobody == 0
Two == {1, 2}

TwoRosters == <<Two, Two>>

Entry(r, l) == [revision |-> r, leader |-> l, members |-> 2]
Entries == {Entry(1, 1), Entry(1, 2), Entry(2, 1), Entry(2, 2)}

Still == [restarts |-> 0, rosters |-> 0, assignments |-> 0,
          siteLeaders |-> 0, lossy |-> {}]

Common(l, a) ==
  [config |-> [n \in Node |-> 1], siteLeader |-> [n \in Node |-> l],
   assignment |-> [n \in Node |-> a], complete |-> Two,
   directories |-> Two, budget |-> Still]

(* A member restarts; credentials, or an assignment to the one that leads, *)
(* arrive late; heartbeats are lost while the Site Leader changes; the     *)
(* roster's revision, or the Site Leader and then the assignment, change.  *)
GroupSetup ==
  {[Common(1, Entry(1, 2)) EXCEPT !.budget.restarts = 1],
   [Common(None, NoAssignment) EXCEPT !.complete = {},
                                      !.budget.assignments = 1],
   [Common(2, Entry(1, 1)) EXCEPT !.budget.lossy = Two \X Two,
                                  !.budget.siteLeaders = 1],
   [Common(None, Entry(1, 1)) EXCEPT !.budget.rosters = 1],
   [Common(2, Entry(1, 1)) EXCEPT !.budget.siteLeaders = 1,
                                  !.budget.assignments = 1]}

(* All see one Site Leader; this changes twice, and the roster once, which *)
(* the run lets happen only while both lead.                               *)
SplitSetup == {[Common(1, Entry(1, 1)) EXCEPT !.budget.siteLeaders = 2,
                                              !.budget.rosters = 1]}
RosterLast ==
  budget'.rosters # budget.rosters => \A n \in Node : Leads(n)

(* A Site of two, whose Owner is also its Site Leader *)
PairedSetup == {[Common(1, Entry(1, 2)) EXCEPT !.budget.restarts = 2]}
=============================================================================
