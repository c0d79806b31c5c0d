--------------------------- MODULE MCSiteElection ---------------------------
(* Instances of SiteElection with two and three nodes. *)
EXTENDS SiteElection

Nobody == 0
Two == {1, 2}
Three == {1, 2, 3}

(* Rosters: a Site of three, and one that its Owner begins alone; the       *)
(* second node joins, and the roster changes twice in something other than *)
(* its members.                                                            *)
TrioRoster == <<Three>>
PairRosters == <<{1}, Two, Two, Two>>

Directory(d) == [revision |-> 1, digest |-> d]
FirstFence == {Directory(1)}
ForkFences ==
  {Directory(1), Directory(2), Directory(3), [revision |-> 2, digest |-> 1]}

(* One Group, led by node 2 in the Directories of digest 2 and else by 1:   *)
(* with those 1, the Owner, is preferred, with all others 2.               *)
OneGroup == [f \in Fence |-> IF f.digest = 2 THEN {2} ELSE {1}]

AllCredentials == [n \in Node |-> Node \ {n}]

(* Nothing fails, nothing changes. *)
Still == [restarts |-> 0, rosters |-> 0, directories |-> 0,
          lossy |-> {}, slow |-> {}]

(* Every node starts with a roster, the Directory and all credentials. *)
Common(r) ==
  [config |-> [n \in Node |-> r], credentials |-> AllCredentials,
   directory |-> [n \in Node |-> Directory(1)], budget |-> Still]

(* Nobody holds more than the credentials from pairing with the Owner, when *)
(* no bundle has been delivered yet.                                       *)
Paired ==
  [Common(1) EXCEPT
     !.credentials = [n \in Node |-> IF n = Owner THEN Node \ {n}
                                     ELSE {Owner}]]

BootSetup == {Paired}

(* Heartbeats of node 1 are lost and those of node 2 are late; or those of  *)
(* node 2, which leads, are lost and one node is restarted.                 *)
PairSetup ==
  {[Common(2) EXCEPT !.budget.lossy = {<<1, 2>>}, !.budget.slow = {<<2, 1>>}],
   [Common(2) EXCEPT !.budget.lossy = {<<2, 1>>}, !.budget.restarts = 1]}

(* The Directories forked at one revision, and the nodes prefer the same    *)
(* one of them, each the other, or each itself.                            *)
ForkSetup ==
  {[Common(2) EXCEPT !.directory = <<Directory(d[1]), Directory(d[2])>>,
                     !.budget.directories = 1] :
     d \in {<<1, 3>>, <<1, 2>>, <<2, 1>>}}

(* A newcomer joins the Owner; the roster changes twice. *)
ChangeSetup ==
  {[Common(1) EXCEPT !.config[2] = 0, !.directory[2] = NoFence,
                     !.budget.rosters = 1],
   [Common(2) EXCEPT !.budget.rosters = 2]}

TwoSetup == PairSetup \cup ForkSetup \cup ChangeSetup
=============================================================================
