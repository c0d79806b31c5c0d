-------------------------- MODULE MCSiteReplication --------------------------
(* An Owner with two members. *)
EXTENDS SiteReplication

First == [config |-> 1, image |-> 1]
Nothing == [edits |-> 0, uploads |-> 0, syncs |-> 0, faults |-> 0,
            copies |-> 0, cuts |-> 0]

(* A Site with a floorplan, and one without.  Two floorplans, or one and a  *)
(* roster change, follow; a floorplan while the power fails, the dashboard *)
(* synchronises, or a message is lost or a flash is slow and a request     *)
(* arrives twice; a roster change while what a cut has cost is fetched at  *)
(* the dashboard's word.                                                   *)
ReplicationSetup ==
  {[plan |-> First, budget |-> [Nothing EXCEPT !.uploads = 2, !.edits = 1]],
   [plan |-> NoPlan, budget |-> [Nothing EXCEPT !.uploads = 2, !.cuts = 1]],
   [plan |-> First, budget |-> [Nothing EXCEPT !.uploads = 1, !.cuts = 1]],
   [plan |-> First, budget |-> [Nothing EXCEPT !.uploads = 1, !.syncs = 1]],
   [plan |-> First, budget |-> [Nothing EXCEPT !.uploads = 1, !.faults = 1,
                                               !.copies = 1]],
   [plan |-> First, budget |-> [Nothing EXCEPT !.edits = 1, !.cuts = 1,
                                               !.syncs = 1]]}
=============================================================================
