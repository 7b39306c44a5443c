------------------------------ MODULE MCReclaim ------------------------------
(***************************************************************************)
(* Instances of SnapshotGc and, for what becomes of retired versions, of   *)
(* ZoneVersions.  The two share no state; focus tells which of them a      *)
(* behaviour is about.                                                     *)
(***************************************************************************)
EXTENDS SnapshotGc, TLC

CONSTANTS r1, s1, o1, z1, Senders

VARIABLES
  focus,
  kind, active, nver, prev, expired, stack, batch, from_prev, freed, leaked, counted, resident,
  retired, previous, prev_inflight, evict_inflight, evicted, evicted_bytes, zupdated, busy, linked,
  given, zrefs, entry, writer, wself, zwpc, wlist, wver, evpc, sweep, pressure, zsection, found,
  tver, spc, active_axfr, is_transferring, xver, cmd, zolder

Zone == INSTANCE ZoneVersions WITH
  Kinds <- {"secondary"}, MaxVer <- 2, Bytes <- <<2, 4>>,
  refs <- zrefs, wpc <- zwpc, section <- zsection, older <- zolder, updated <- zupdated

zvvars == <<kind, active, nver, prev, expired, stack, batch, from_prev, freed, leaked, counted,
            resident, retired, previous, prev_inflight, evict_inflight, evicted, evicted_bytes,
            zupdated, busy, linked, given, zrefs, entry, writer, wself, zwpc, wlist, wver, evpc,
            sweep, pressure, zsection, found, tver, spc, active_axfr, is_transferring, xver, cmd,
            zolder>>

MCInit == focus \in {"gc", "zone"} /\ Init /\ Zone!Init

MCNext ==
  /\ UNCHANGED focus
  /\ \/ focus = "gc" /\ Next /\ UNCHANGED zvvars
     \/ focus = "zone" /\ Zone!Next /\ UNCHANGED vars

\* Threads that are in a function go on to its end, and the control thread ticks; a worker handles one packet in a section, so that
\* each of its sections ends; a cleanup thread can be started in the end.
MCFairness ==
  /\ \A r \in Readers : /\ WF_vars(focus = "gc" /\ Exit(r))
                        /\ WF_vars(focus = "gc" /\ release_zone_snapshot(r))
  /\ WF_vars(focus = "gc" /\ PublishAndRetire)
  /\ WF_vars(focus = "gc" /\ StartClaim)
  /\ SF_vars(focus = "gc" /\ StartThread)
  /\ WF_vars(focus = "gc" /\ StartDone)
  /\ \A s \in Snaps : WF_vars(focus = "gc" /\ GcThread(s))
  /\ \A r \in Readers : SF_zvvars(focus = "zone" /\ Zone!Exit(r))
  /\ \A s \in Senders : WF_zvvars(focus = "zone" /\ (\/ Zone!SenderEnter(s) \/ Zone!SenderLoad(s)
                                                     \/ Zone!SenderDone(s) \/ Zone!SenderExit(s)))
  /\ WF_zvvars(focus = "zone" /\ Zone!TransferEnd)
  /\ WF_zvvars(focus = "zone" /\ (Zone!wait_for_active_axfr \/ Zone!Abort))
  /\ WF_zvvars(focus = "zone" /\ \E v \in 1 .. 2 : Zone!RetirePush(v) \/ Zone!RetireLeak(v))
  /\ WF_zvvars(focus = "zone" /\ Zone!RetireFree) /\ WF_zvvars(focus = "zone" /\ Zone!Unlock)
  /\ WF_zvvars(focus = "zone" /\ Zone!TakeStack)
  /\ WF_zvvars(focus = "zone" /\ \E v \in 1 .. 2 : Zone!RetireItem(v))

MCFairSpec == MCInit /\ [][MCNext]_<<focus, vars, zvvars>> /\ MCFairness

\* When the zone is quiet (no transfer any more), a version that was retired is freed, although
\* zone_retire_process() takes the stack and pushes back what is in use over and over.
VersionIsFreed == <>[]Zone!Quiet => \A v \in 1 .. 2 : (v \in stack) ~> (v \in freed)
=============================================================================
