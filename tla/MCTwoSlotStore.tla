--------------------------- MODULE MCTwoSlotStore ---------------------------
(* The stores of a node, by how they are kept. *)
EXTENDS TwoSlotStore

CONSTANTS a, b

Membership == [medium |-> "nvs", repair |-> "sole", base |-> "stored",
               wraps |-> TRUE]
FirmwareTrust == [medium |-> "nvs", repair |-> "absent", base |-> "ram",
                  wraps |-> FALSE]
(* Also the Group roster *)
Directory == [medium |-> "flash", repair |-> "newest", base |-> "stored",
              wraps |-> FALSE]
Credentials == [medium |-> "flash", repair |-> "newest", base |-> "ram",
                wraps |-> FALSE]
(* Also the readiness registry and the Site configuration *)
Registry == [medium |-> "flash", repair |-> "sole", base |-> "stored",
             wraps |-> FALSE]

TwoValues == {a, b}

Created(k) == [kind |-> k, first |-> a]
Fresh(k) == [kind |-> k, first |-> None]

(* On flash a power cut during the very first slot write leaves nothing to  *)
(* load, so those stores begin with their first generation.                 *)
CrashproofSetup ==
  {Fresh(Membership), Fresh(FirmwareTrust), Created(Membership),
   Created(FirmwareTrust), Created(Directory), Created(Credentials)}

RegistrySetup == {Created(Registry)}
=============================================================================
