---------------------------- MODULE GracePeriod ----------------------------
(***************************************************************************)
(* What the epoch RCU of dns_epoch_rcu.{h,c} promises its users, without   *)
(* epochs, slots or scans.  Threads open and close read sections.  An      *)
(* object that a writer took out of its pointer and retired is reclaimed   *)
(* only when every section that was open at the moment of retirement has   *)
(* been closed; a thread that retires an object inside its own section     *)
(* may leave its own section out of account.                               *)
(***************************************************************************)
CONSTANTS Threads, Objects

VARIABLES
  section,  \* the threads inside a read section
  status,   \* Objects -> the life of a protected object
  older     \* Objects -> the sections open since before its retirement

vars == <<section, status, older>>

Status == {"fresh", "active", "unlinked", "retired", "waiting", "leaked", "freed"}

TypeOK ==
  /\ section \subseteq Threads
  /\ status \in [Objects -> Status]
  /\ older \in [Objects -> SUBSET Threads]

Init ==
  /\ section = {}
  /\ status \in [Objects -> {"fresh", "active"}]
  /\ older = [o \in Objects |-> {}]

Enter(t) ==
  /\ t \notin section
  /\ section' = section \cup {t}
  /\ UNCHANGED <<status, older>>

Exit(t) ==
  /\ t \in section
  /\ section' = section \ {t}
  /\ older' = [o \in Objects |-> older[o] \ {t}]
  /\ UNCHANGED status

\* A new object takes the place of an old one.
Replace(o, new) ==
  /\ status[o] = "active"
  /\ status[new] = "fresh"
  /\ status' = [status EXCEPT ![o] = "unlinked", ![new] = "active"]
  /\ UNCHANGED <<section, older>>

Retire(o) ==
  /\ status[o] = "unlinked"
  /\ status' = [status EXCEPT ![o] = "retired"]
  /\ older' = [older EXCEPT ![o] = section]
  /\ UNCHANGED section

Await(o) ==
  /\ status[o] = "retired"
  /\ status' = [status EXCEPT ![o] = "waiting"]
  /\ UNCHANGED <<section, older>>

GiveUp(o) ==
  /\ status[o] = "waiting"
  /\ \E s \in {"retired", "leaked"}: status' = [status EXCEPT ![o] = s]
  /\ UNCHANGED <<section, older>>

\* The promise: only the reclaiming thread's own section may still be open.
Reclaim(o, t) ==
  /\ status[o] = "waiting"
  /\ older[o] \subseteq {t}
  /\ status' = [status EXCEPT ![o] = "freed"]
  /\ UNCHANGED <<section, older>>

Next ==
  \/ \E t \in Threads: Enter(t) \/ Exit(t)
  \/ \E o, new \in Objects: Replace(o, new)
  \/ \E o \in Objects: Retire(o) \/ Await(o) \/ GiveUp(o)
  \/ \E o \in Objects, t \in Threads: Reclaim(o, t)

Spec == Init /\ [][Next]_vars
=============================================================================
