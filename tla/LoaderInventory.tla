-------------------------- MODULE LoaderInventory ---------------------------
(***************************************************************************)
(* What the loader (karidns_dbloader.c) believes the Backend has, as       *)
(* operators on one inventory entry: the effect of a zone that was         *)
(* offered, of the Backend's answer to it and of a fetch that was served,  *)
(* and the comparison with the database that decides what is sent.         *)
(*                                                                         *)
(* pend is the version that was sent and not answered yet (NoPend: none);  *)
(* late says that a fetch was served since it was sent (fev # p_fev).      *)
(***************************************************************************)
EXTENDS Naturals, Sequences, SequencesExt

NoPend == [res |-> FALSE, sid |-> 0, serial |-> 0, dig |-> 0]

NoEnt == [known |-> FALSE, resident |-> FALSE, dirty |-> FALSE, sid |-> 0,
          serial |-> 0, dig |-> 0, pend |-> NoPend, late |-> FALSE]

(* commit_zone: the version goes out and is pending.                       *)
Offer(e, v, summary) ==
    [e EXCEPT !.pend = [res |-> ~summary, sid |-> v.sid, serial |-> v.serial,
                        dig |-> IF summary THEN 0 ELSE v.ver],
              !.late = FALSE]

(* send_failed: the zone cannot be read; a zone the Backend has is offered *)
(* again by the next load.                                                 *)
Unreadable(e) == [e EXCEPT !.dirty = e.known]

(* One event of the fetch thread enters the inventory.                     *)
Served(e, f) ==
    [e EXCEPT !.known = TRUE, !.resident = TRUE, !.dirty = FALSE,
              !.late = e.pend # NoPend,
              !.sid = f.sid, !.serial = f.serial, !.dig = f.dig]

Kicks(e, f) ==
    e.known /\ e.pend = NoPend /\ (e.sid # f.sid \/ e.serial # f.serial)

(* fev_drain: all the events that wait, in order.  kick: another version   *)
(* than the inventory's asks for a comparison.                             *)
fev_drain(inv, again, q, kick) ==
    FoldLeft(LAMBDA acc, f :
               [inv   |-> [acc.inv EXCEPT ![f.z] = Served(@, f)],
                again |-> acc.again \/ (kick /\ Kicks(acc.inv[f.z], f))],
             [inv |-> inv, again |-> again], q)

(* The pending version becomes what the Backend has.                       *)
Adopt(e) ==
    IF e.pend = NoPend THEN e
    ELSE [e EXCEPT !.known = TRUE, !.sid = e.pend.sid,
                   !.serial = e.pend.serial, !.dig = e.pend.dig,
                   !.pend = NoPend, !.late = FALSE]

Forget(e) == [e EXCEPT !.pend = NoPend, !.late = FALSE]

(* The Backend recorded the version and left its data out (NOT_RESIDENT):  *)
(* the zone is offered again, as a summary.                                *)
LeftOut(e) == [Adopt(e) EXCEPT !.resident = FALSE, !.dirty = TRUE]

(* A fetch was served while the version was on its way: its version stays  *)
(* in the inventory whatever the answer is.                                *)
LateResult(e, status) ==
    [ent   |-> Forget(e),
     again |-> \/ status = "SEND_BODY"
               \/ e.sid # e.pend.sid
               \/ e.serial # e.pend.serial]

(* A mutant: a version that was refused is offered again at once.          *)
RefusedAgain(e) ==
    [ent |-> IF e.known THEN [Forget(e) EXCEPT !.dirty = TRUE] ELSE NoEnt, again |-> TRUE]

(* The version was refused: it is offered again at the next load.          *)
Refused(e) ==
    [ent |-> IF e.known THEN [Forget(e) EXCEPT !.dirty = TRUE] ELSE NoEnt, again |-> FALSE]

(* The answers to a zone that was sent, or to a deletion.                  *)
PlainResult(e, status) ==
    CASE status \in {"UNCHANGED", "SEND_BODY"} /\ e.pend = NoPend ->
            [ent |-> NoEnt, again |-> FALSE]
      [] status = "UNCHANGED" /\ e.pend # NoPend ->
            [ent |-> [Forget(e) EXCEPT !.known = TRUE, !.resident = TRUE,
                                       !.sid = e.pend.sid,
                                       !.serial = e.pend.serial,
                                       !.dirty = FALSE],
             again |-> FALSE]
      [] status = "SEND_BODY" /\ e.pend # NoPend ->
            [ent |-> [Forget(e) EXCEPT !.known = TRUE, !.resident = TRUE,
                                       !.dirty = TRUE],
             again |-> TRUE]
      [] status = "NOT_RESIDENT" ->
            [ent |-> LeftOut(e), again |-> TRUE]
      [] status = "APPLIED" ->
            [ent |-> [Adopt(e) EXCEPT !.dirty = FALSE,
                        !.resident = IF e.pend = NoPend THEN e.resident
                                     ELSE e.pend.res],
             again |-> FALSE]
      [] status = "REJECTED" ->
            Refused(e)
      [] status = "DELETED" -> [ent |-> NoEnt, again |-> FALSE]

ZoneResult(e, status) ==
    IF e.pend # NoPend /\ e.late /\ status \notin {"REJECTED", "DELETED"}
    THEN LateResult(e, status)
    ELSE PlainResult(e, status)

(* plan_diff, for a zone d of the database: it is read again when it must  *)
(* be (Base) or when something happened to it.                             *)
Base(e, d, all) ==
    \/ all /\ ~(e.known /\ ~e.resident)
    \/ ~e.known
    \/ e.dirty
    \/ e.sid # d.sid

Want(e, d, all, changed) ==
    Base(e, d, all) \/ changed \/ e.serial # d.serial

(* With a memory limit a zone the Backend has no data of goes as a summary. *)
AsSummary(e, limit) == limit /\ ~(e.known /\ e.resident)

(* gate_cb: the zone was converted, and the Backend has exactly that.      *)
UpToDate(e, d, force) ==
    /\ ~force /\ e.known /\ ~e.dirty
    /\ e.sid = d.sid /\ e.serial = d.serial /\ e.dig = d.ver
=============================================================================
