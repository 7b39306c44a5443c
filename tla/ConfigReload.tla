---------------------------- MODULE ConfigReload ----------------------------
(***************************************************************************)
(* The configuration and its reloads (dns_server_core.c): two places that  *)
(* take turns, read by workers inside of read sections; reloads that wait  *)
(* for the readers of the place they overwrite and are put off when these  *)
(* stay; SIGHUP, of which the kernel keeps one and kqueue counts all; and  *)
(* the control thread that runs all of it.  A grace period ends when the   *)
(* sections that were open at the publication have ended (EpochRcu).       *)
(***************************************************************************)
EXTENDS Naturals, FiniteSets

CONSTANTS
  CfgReaders,     \* threads that read the configuration in sections
  MaxSignals,     \* bound: SIGHUPs that are sent
  MaxCommands     \* bound: reload and reconfig commands

VARIABLES
  cfg_active,     \* "a" or "b": g_config_db.active
  cfg_place,      \* what config_a and config_b hold: a generation, 0 when freed
  standby_pending,
  cfg_old,        \* readers whose section was open at the last publication
  cfg_reader,     \* per reader: [in, place, gen] it read when the section began
  hup_pending,    \* the sender of the SIGHUP that waits in the kernel
  hup_count,      \* EVFILT_SIGNAL: deliveries since the event was taken
  last_reload,    \* of sighup_decide()
  reload_pending, reload_full,
  ctl,            \* the control thread: [at, delivered, drained, mgr, full, covers]
  owed,           \* the reload that somebody asked for and that has not been made
  signals, commands

cfgvars == <<cfg_active, cfg_place, standby_pending, cfg_old, cfg_reader, hup_pending,
             hup_count, last_reload, reload_pending, reload_full, ctl, owed, signals, commands>>

Outside == [in |-> FALSE, place |-> "a", gen |-> 0]
Resting == [at |-> "kevent", delivered |-> 0, drained |-> 0, mgr |-> FALSE,
            full |-> FALSE, covers |-> "none"]

CfgInit ==
  /\ cfg_active = "a" /\ cfg_place = [p \in {"a", "b"} |-> IF p = "a" THEN 1 ELSE 0]
  /\ standby_pending = FALSE /\ cfg_old = {}
  /\ cfg_reader = [r \in CfgReaders |-> Outside]
  /\ hup_pending = "none" /\ hup_count = 0 /\ last_reload = FALSE
  /\ reload_pending = FALSE /\ reload_full = FALSE
  /\ ctl = Resting /\ owed = "none" /\ signals = 0 /\ commands = 0

Standby == IF cfg_active = "a" THEN "b" ELSE "a"

\* rcu_writer_is_safe(retire_epoch)
ReadersGone == cfg_old = {}

(***************************************************************************)
(* The readers and the senders of signals.                                 *)
(***************************************************************************)
acquire_config_snapshot(r) ==
  /\ ~cfg_reader[r].in
  /\ cfg_reader' = [cfg_reader EXCEPT
       ![r] = [in |-> TRUE, place |-> cfg_active, gen |-> cfg_place[cfg_active]]]
  /\ UNCHANGED <<cfg_active, cfg_place, standby_pending, cfg_old, hup_pending, hup_count,
                 last_reload, reload_pending, reload_full, ctl, owed, signals, commands>>

SectionEnds(r) ==
  /\ cfg_reader[r].in
  /\ cfg_reader' = [cfg_reader EXCEPT ![r] = Outside] /\ cfg_old' = cfg_old \ {r}
  /\ UNCHANGED <<cfg_active, cfg_place, standby_pending, hup_pending, hup_count,
                 last_reload, reload_pending, reload_full, ctl, owed, signals, commands>>

\* A reload of every zone also does what a reload of the changed ones does.
Both(x, y) == IF "full" \in {x, y} THEN "full" ELSE IF "changed" \in {x, y} THEN "changed" ELSE "none"

\* SIGHUP is a standard signal: the kernel keeps the first of those that wait.
Sighup(from) ==
  /\ signals < MaxSignals /\ signals' = signals + 1
  /\ hup_pending' = IF hup_pending = "none" THEN from ELSE hup_pending
  /\ hup_count' = hup_count + 1
  /\ owed' = IF from = "manager" THEN Both(owed, "changed") ELSE owed
  /\ UNCHANGED <<cfg_active, cfg_place, standby_pending, cfg_old, cfg_reader, last_reload,
                 reload_pending, reload_full, ctl, commands>>

(***************************************************************************)
(* A reload.  It covers what was asked for when it reads the file; one     *)
(* that skips unchanged zones does not cover a reload of all of them.      *)
(***************************************************************************)
ForgetsPostponedFull(skip_unchanged) == ~skip_unchanged

run_config_reload(skip_unchanged) == ~skip_unchanged \/ reload_full

Begin(full, asked) ==
  /\ ctl' = [Resting EXCEPT !.at = "wait", !.full = full,
                            !.covers = IF asked = "full" /\ ~full THEN "none" ELSE asked]
  /\ owed' = IF asked = "full" /\ ~full THEN "full" ELSE "none"

\* Every status but CONFIG_RELOAD_POSTPONED ends the reload.
Finished ==
  /\ reload_pending' = FALSE /\ reload_full' = FALSE /\ ctl' = Resting /\ UNCHANGED owed

ReadError ==
  /\ ctl.at = "wait" /\ Finished
  /\ UNCHANGED <<cfg_active, cfg_place, standby_pending, cfg_old, cfg_reader, hup_pending,
                 hup_count, last_reload, signals, commands>>

\* Not all readers of the standby place left within ten seconds.
Postponed ==
  /\ ctl.at = "wait" /\ ~ReadersGone
  /\ reload_pending' = TRUE /\ reload_full' = ctl.full
  /\ ctl' = Resting /\ owed' = Both(owed, ctl.covers)
  /\ UNCHANGED <<cfg_active, cfg_place, standby_pending, cfg_old, cfg_reader, hup_pending,
                 hup_count, last_reload, signals, commands>>

MayOverwriteAtOnce == TRUE
MayOverwrite == ReadersGone

\* The standby place is freed and the new text parsed into it.
Parse ==
  /\ ctl.at = "wait" /\ MayOverwrite
  /\ standby_pending' = FALSE
  /\ \/ /\ cfg_place' = [cfg_place EXCEPT ![Standby] = cfg_place[cfg_active] + 1]
        /\ ctl' = [ctl EXCEPT !.at = "parsed"]
        /\ UNCHANGED <<reload_pending, reload_full, owed>>
     \/ cfg_place' = [cfg_place EXCEPT ![Standby] = 0] /\ Finished
  /\ UNCHANGED <<cfg_active, cfg_old, cfg_reader, hup_pending, hup_count, last_reload,
                 signals, commands>>

\* No user, or a log file that cannot be opened.
Reject ==
  /\ ctl.at = "parsed" /\ Finished
  /\ cfg_place' = [cfg_place EXCEPT ![Standby] = 0]
  /\ UNCHANGED <<cfg_active, standby_pending, cfg_old, cfg_reader, hup_pending, hup_count,
                 last_reload, signals, commands>>

Publish ==
  /\ ctl.at = "parsed" /\ Finished
  /\ cfg_active' = Standby /\ standby_pending' = TRUE
  /\ cfg_old' = {r \in CfgReaders : cfg_reader[r].in}
  /\ UNCHANGED <<cfg_place, cfg_reader, hup_pending, hup_count, last_reload, signals, commands>>

(***************************************************************************)
(* The control thread: an event of SIGHUP, a command, the tick.            *)
(***************************************************************************)
HupEvent ==
  /\ ctl.at = "kevent" /\ hup_count > 0
  /\ ctl' = [Resting EXCEPT !.at = "drain", !.delivered = hup_count] /\ hup_count' = 0
  /\ UNCHANGED <<cfg_active, cfg_place, standby_pending, cfg_old, cfg_reader, hup_pending,
                 last_reload, reload_pending, reload_full, owed, signals, commands>>

Drain ==
  /\ ctl.at = "drain" /\ hup_pending # "none"
  /\ ctl' = [ctl EXCEPT !.drained = @ + 1, !.mgr = @ \/ hup_pending = "manager"]
  /\ hup_pending' = "none"
  /\ UNCHANGED <<cfg_active, cfg_place, standby_pending, cfg_old, cfg_reader, hup_count,
                 last_reload, reload_pending, reload_full, owed, signals, commands>>

sighup_decide(drained, from_manager, delivered) ==
  IF drained = 0 THEN ~last_reload ELSE from_manager \/ delivered > drained

Decide ==
  LET reload == sighup_decide(ctl.drained, ctl.mgr, ctl.delivered) IN
  /\ ctl.at = "drain" /\ hup_pending = "none"
  /\ last_reload' = reload
  /\ IF reload THEN Begin(run_config_reload(TRUE), owed) ELSE ctl' = Resting /\ UNCHANGED owed
  /\ UNCHANGED <<cfg_active, cfg_place, standby_pending, cfg_old, cfg_reader, hup_pending,
                 hup_count, reload_pending, reload_full, signals, commands>>

\* "reload" reads every zone, "reconfig" the changed ones.
Command(kind) ==
  /\ ctl.at = "kevent" /\ commands < MaxCommands /\ commands' = commands + 1
  /\ Begin(run_config_reload(kind = "changed"), Both(owed, kind))
  /\ UNCHANGED <<cfg_active, cfg_place, standby_pending, cfg_old, cfg_reader, hup_pending,
                 hup_count, last_reload, reload_pending, reload_full, signals>>

config_standby_reap ==
  IF standby_pending /\ ReadersGone
    THEN standby_pending' = FALSE /\ cfg_place' = [cfg_place EXCEPT ![Standby] = 0]
    ELSE UNCHANGED <<standby_pending, cfg_place>>

CtlTick ==
  /\ ctl.at = "kevent"
  /\ config_standby_reap
  /\ IF reload_pending THEN Begin(run_config_reload(~reload_full), owed)
                       ELSE UNCHANGED <<ctl, owed>>
  /\ UNCHANGED <<cfg_active, cfg_old, cfg_reader, hup_pending, hup_count, last_reload,
                 reload_pending, reload_full, signals, commands>>

CtlStep == HupEvent \/ Drain \/ Decide \/ ReadError \/ Postponed \/ Parse \/ Reject \/ Publish

CfgNext ==
  \/ \E r \in CfgReaders : acquire_config_snapshot(r) \/ SectionEnds(r)
  \/ \E from \in {"manager", "other"} : Sighup(from)
  \/ \E kind \in {"full", "changed"} : Command(kind)
  \/ CtlStep \/ CtlTick

CfgSpec == CfgInit /\ [][CfgNext]_cfgvars

\* The configuration a section began with stays what it was, and is not freed, until the section
\* ends: a reload writes into the standby place only when no reader of the last publication is
\* left (perform_config_reload_ext(), config_standby_reap()).
ConfigStable ==
  \A r \in CfgReaders : cfg_reader[r].in =>
    cfg_place[cfg_reader[r].place] = cfg_reader[r].gen /\ cfg_reader[r].gen # 0
=============================================================================
