---------------------------- MODULE ZoneRegistry ----------------------------
(***************************************************************************)
(* The registry of database zones (dbreg_* of dns_snapshot_rcu.c) as       *)
(* operators on one directory element.                                     *)
(*                                                                         *)
(* An element keeps the identity of the version the directory describes    *)
(* (domain id and serial), the digest of the stream that brought it (0:    *)
(* none), its state, the version whose data is in memory (0: none) and     *)
(* the verdict on the last version that was offered.  A version v of a     *)
(* zone is [sid, serial, ver, q]: ver stands for its content, q says       *)
(* whether the loader can read it and the Backend takes it.                *)
(***************************************************************************)
EXTENDS Naturals

NoElem == [sid |-> 0, serial |-> 0, dig |-> 0, st |-> "NONE", data |-> 0,
           last |-> "NONE"]

Known(e) == e.st # "NONE"

(* Queries find the zone: a version of it was applied once (digest).       *)
Indexed(e) == e.serial # 0

Same(e, v) == e.sid = v.sid /\ e.serial = v.serial

(* The install published the data: the directory now describes it.         *)
dbreg_commit(e, v) ==
    [sid |-> v.sid, serial |-> v.serial, dig |-> v.ver, st |-> "RESIDENT",
     data |-> v.ver, last |-> "APPLIED"]

(* A version is recorded without its data.  The caller has looked: no data *)
(* is in memory.  A fetch on its way keeps the state LOADING.              *)
dbreg_commit_cold(e, v, dig) ==
    [e EXCEPT !.sid = v.sid, !.serial = v.serial, !.dig = dig,
              !.last = "APPLIED",
              !.st = IF e.st = "LOADING" THEN "LOADING" ELSE "ABSENT"]

(* A refused or unreadable version: what is in memory keeps serving.       *)
dbreg_reject(e, sid) ==
    IF e.data # 0
    THEN [e EXCEPT !.last = "REJECTED"]
    ELSE [e EXCEPT !.sid = sid, !.st = "ERROR", !.last = "REJECTED"]

dbreg_fetch_begin(e) == [e EXCEPT !.st = "LOADING"]

dbreg_fetch_end(e) ==
    IF e.data = 0 /\ e.st = "LOADING" THEN [e EXCEPT !.st = "ABSENT"] ELSE e

(* What a summary means for the zone: NONE (recorded as it is), SAME (the  *)
(* data in memory is that version) or DIFFERS (the zone is wanted whole).  *)
dbreg_summary_check(e, v) ==
    CASE e.data # 0 -> IF Same(e, v) THEN "SAME" ELSE "DIFFERS"
      [] e.data = 0 /\ e.st = "LOADING" ->
                          IF Same(e, v) THEN "NONE" ELSE "DIFFERS"
      [] OTHER -> "NONE"

dbreg_delete(e, sid) == IF Known(e) /\ e.sid = sid THEN NoElem ELSE e

dbreg_evict(e) == [e EXCEPT !.data = 0, !.st = "ABSENT"]

(* The element as the inventory tells it to a loader that starts: not one  *)
(* that was never applied, nor one whose last version was refused.         *)
Listed(e) ==
    /\ Known(e)
    /\ e.last = "APPLIED"
    /\ e.data # 0 \/ e.sid # 0
=============================================================================
