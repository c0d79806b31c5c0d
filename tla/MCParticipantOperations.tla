----------------------- MODULE MCParticipantOperations -----------------------
(***************************************************************************)
(* Instances of ParticipantOperations: this Node, another Node and a       *)
(* satellite.                                                              *)
(***************************************************************************)
EXTENDS ParticipantOperations

Me == "me"
NoOwner == "unresolved"
NoOne == "nobody"
Nodes == {"a"}
Satellites == {"s"}
Away == "away"
OwnSites == {"home", "new"}

Standings(a, s) == [p \in Participant |-> IF p = "a" THEN a ELSE s]

(* A device out of the box. *)
Fresh ==
  [registry |-> NoMembers, readiness |-> NoMembers, credential |-> NoMembers,
   membership |-> [site |-> "home", mode |-> "standalone"],
   config |-> Created("home")]

(* The owner of a Site in which "a" is active, and "s" a member that this  *)
(* Node has no record of.                                                  *)
Owner ==
  [registry |-> Standings("active", "none"),
   readiness |-> Standings("ready", "none"),
   credential |-> Standings("enabled", "none"),
   membership |-> [site |-> "home", mode |-> "standalone"],
   config |-> [site |-> "home", owner |-> Me,
               member |-> Standings("active", "active")]]

(* The same with a profile of "s", as the interrupted rollback of a FORGET  *)
(* leaves one.                                                             *)
Leftover == [Owner EXCEPT !.readiness = Standings("ready", "ready")]

(* A device that has joined the Site of "a".                               *)
Joined ==
  [registry |-> Standings("active", "none"),
   readiness |-> Standings("ready", "none"),
   credential |-> Standings("enabled", "none"),
   membership |-> [site |-> "away", mode |-> "enrolled"],
   config |-> [site |-> "away", owner |-> "a",
               member |-> Standings("eligible", "none")]]

Starting(disk, o, f, c) ==
  [disk |-> disk, budget |-> [operations |-> o, failures |-> f, cuts |-> c]]
Setups == {Starting(disk, 3, 3, 1) : disk \in {Fresh, Owner, Leftover, Joined}}
===============================================================================
