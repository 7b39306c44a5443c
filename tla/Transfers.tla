------------------------------ MODULE Transfers ------------------------------
(***************************************************************************)
(* One zone on a primary and on a secondary: the IXFR history that every   *)
(* publication on the primary extends, the choice of the answer by         *)
(* send_axfr_response(), the reception by parse_xfr_packet() and           *)
(* handle_axfr_event(), and the control thread's tick that starts a        *)
(* refresh (dns_axfr_ixfr.c, dns_server_core.c).                           *)
(*                                                                         *)
(* A version is a serial and a set of RRs (the SOA is the serial).  What   *)
(* goes over TCP is a sequence of items: a SOA, or the RRs that stand      *)
(* between two SOAs.  The serials have Modulus values where the code has   *)
(* 2^32.                                                                   *)
(***************************************************************************)
EXTENDS Integers, FiniteSets, SequencesExt

CONSTANTS
  Rec,           \* the RRs other than the SOA
  Contents,      \* the sets of RRs a zone file or an update makes
  Modulus,       \* number of serials
  FirstSerial,   \* serial of the version both servers start from
  FileSteps,     \* how far the serial of a zone file is from the served one
  Depths,        \* values of ixfr-history
  MaxDelta,      \* IXFR_MAX_DELTA
  ProvideIxfr,   \* values of provide-ixfr
  RequestIxfr,   \* values of request-ixfr
  MaxPub,        \* bound of the publications
  MaxFaults,     \* bound of the lost connections and failed installations
  MaxCommands    \* bound of the NOTIFYs and of the operator's commands

ASSUME ModulusAssumption == Modulus \in Nat /\ Modulus > 2 /\ Modulus % 2 = 0
ASSUME SerialAssumption == FirstSerial \in 0 .. Modulus - 1

Serials == 0 .. Modulus - 1
Version == [serial : Serials, data : SUBSET Rec]
NoVersion == [serial |-> -1, data |-> {}]
Txn == [id : 1 .. MaxPub, old : Serials, new : Serials,
        del : SUBSET Rec, add : SUBSET Rec]
NoTxn == [id |-> 0]

VARIABLES
  pri, prev,     \* the primary's active version, and the one kept for rollback
  depth, cap,    \* ixfr_history_t: the configured depth, the size of the ring
  hist,          \* the differences in the ring, oldest first
  ref,           \* ixfr_txn_t.ref_count (0 = freed or not made)
  wr,            \* the writer that holds writer_lock
  pub,           \* publications so far
  published,     \* every version the primary has served
  snd,           \* the thread that sends the zone
  wire,          \* what is on the connection
  sec, serial,   \* the secondary's active version and its entry->serial
  refresh_now,   \* a refresh was asked for
  x,             \* the transfer thread with its session
  faults, commands,
  owed           \* a retransfer was acknowledged and no whole zone came since

pvars == <<pri, prev, depth, cap, hist, wr, pub, published>>
svars == <<sec, serial, refresh_now, commands, owed>>
vars == <<pvars, ref, snd, wire, svars, x, faults>>

----------------------------------------------------------------------------
(* Serial numbers                                                          *)

\* RFC 1982: the difference taken as a signed number is positive
serial_is_newer(a, b) == (a - b) % Modulus \in 1 .. Modulus \div 2 - 1

update_next_serial(s) ==
  LET n == (s + 1) % Modulus IN IF n = 0 THEN 1 ELSE n

----------------------------------------------------------------------------
(* The history of differences                                              *)

\* the newest n differences
Newest(h, n) == SubSeq(h, Len(h) - n + 1, Len(h))
Dropped(h, n) == {h[i].id : i \in 1 .. Len(h) - n}

Lower(S) == [i \in 1 .. MaxPub |-> IF i \in S THEN ref[i] - 1 ELSE ref[i]]

\* mutant: what is dropped keeps its reference
ResizeLeaks(n) ==
  /\ cap' = n
  /\ hist' = Newest(hist, IF Len(hist) < n THEN Len(hist) ELSE n)
  /\ UNCHANGED ref

\* the ring changes to n slots and keeps the newest differences
ixfr_ring_resize(n) ==
  LET keep == IF Len(hist) < n THEN Len(hist) ELSE n
  IN  /\ cap' = n
      /\ hist' = Newest(hist, keep)
      /\ ref' = Lower(Dropped(hist, keep))

ixfr_history_set_depth(d) ==
  /\ d # depth
  /\ commands < MaxCommands
  /\ commands' = commands + 1
  /\ depth' = d
  /\ IF cap > 0 /\ d < cap
     THEN ixfr_ring_resize(d)
     ELSE UNCHANGED <<cap, hist, ref>>
  /\ UNCHANGED <<pri, prev, wr, pub, published, snd, wire, sec, serial,
                 refresh_now, owed, x, faults>>

\* the difference of two versions, or none: each side also counts its SOA
compute_ixfr_diff(old, new) ==
  LET del == old.data \ new.data
      add == new.data \ old.data
  IN  IF \/ depth = 0
         \/ old.serial = 0
         \/ new.serial = 0
         \/ ~serial_is_newer(new.serial, old.serial)
         \/ Cardinality(del) + Cardinality(add) + 2 > MaxDelta
      THEN NoTxn
      ELSE [id |-> pub + 1, old |-> old.serial, new |-> new.serial,
            del |-> del, add |-> add]

----------------------------------------------------------------------------
(* The writers of the primary                                              *)

NoWriter == [pc |-> "idle", kind |-> "none", ver |-> NoVersion, txn |-> NoTxn]

\* The rule of RFC 1034 the operator keeps: a serial stands for one content.
OneContent(v) == \A p \in published : p.serial = v.serial => p.data = v.data

\* writer_lock is free, no transfer out is counted, and the version is built
WriterBegins(kind, v) ==
  /\ wr.pc = "idle"
  /\ snd.pc = "idle"
  /\ pub < MaxPub
  /\ OneContent(v)
  /\ wr' = [pc |-> "store", kind |-> kind, ver |-> v,
            txn |-> compute_ixfr_diff(pri, v)]
  /\ UNCHANGED <<pri, prev, depth, cap, hist, ref, pub, published, snd, wire,
                 svars, x, faults>>

reload_master_zone ==
  \E step \in FileSteps, c \in Contents :
    WriterBegins("reload",
                 [serial |-> (pri.serial + step) % Modulus, data |-> c])

handle_dynamic_update ==
  \E c \in Contents \ {pri.data} :
    WriterBegins("update",
                 [serial |-> update_next_serial(pri.serial), data |-> c])

zone_rollback(local) ==
  /\ prev # NoVersion
  /\ WriterBegins(IF local THEN "local" ELSE "rollback",
                  IF local THEN prev
                  ELSE [prev EXCEPT !.serial = update_next_serial(pri.serial)])

\* compute_ixfr_diff() takes the lock of the history again and stores
StoreDiff ==
  /\ wr.pc = "store"
  /\ wr' = [wr EXCEPT !.pc = "publish"]
  /\ IF wr.txn = NoTxn \/ depth = 0
     THEN UNCHANGED <<cap, hist, ref>>
     ELSE LET size == IF cap < depth THEN depth ELSE cap
              keep == IF Len(hist) = size THEN size - 1 ELSE Len(hist)
          IN  /\ cap' = size
              /\ hist' = Append(Newest(hist, keep), wr.txn)
              /\ ref' = [Lower(Dropped(hist, keep)) EXCEPT ![wr.txn.id] = 1]
  /\ UNCHANGED <<pri, prev, depth, pub, published, snd, wire, svars, x, faults>>

zone_publish ==
  /\ wr.pc = "publish"
  /\ pri' = wr.ver
  /\ published' = published \cup {wr.ver}
  /\ pub' = pub + 1
  /\ prev' = CASE wr.kind = "reload" -> IF wr.ver = pri THEN prev ELSE pri
               [] wr.kind \in {"rollback", "local"} -> NoVersion
               [] wr.kind = "update" -> prev
  /\ wr' = IF wr.kind = "local" THEN [wr EXCEPT !.pc = "reset"] ELSE NoWriter
  /\ UNCHANGED <<depth, cap, hist, ref, snd, wire, svars, x, faults>>

\* after a local rollback: the serial went back
ixfr_history_reset ==
  /\ wr.pc = "reset"
  /\ wr' = NoWriter
  /\ ixfr_ring_resize(0)
  /\ UNCHANGED <<pri, prev, depth, pub, published, snd, wire, svars, x, faults>>

----------------------------------------------------------------------------
(* The thread that sends the zone: axfr_worker_thread()                    *)

NoSender == [pc |-> "idle", serial |-> 0, ver |-> NoVersion, txns |-> {}]

Soa(s) == [type |-> "soa", serial |-> s]
Rrs(S) == IF S = {} THEN <<>> ELSE <<[type |-> "rrs", data |-> S]>>

FullAnswer(v) == <<Soa(v.serial)>> \o Rrs(v.data) \o <<Soa(v.serial)>>

IncrementalAnswer(v, txns) ==
  <<Soa(v.serial)>>
  \o FlattenSeq([i \in 1 .. Len(txns) |->
                   <<Soa(txns[i].old)>> \o Rrs(txns[i].del)
                   \o <<Soa(txns[i].new)>> \o Rrs(txns[i].add)])
  \o <<Soa(v.serial)>>

\* The differences from the first one that starts at the client's serial to
\* the newest, if they are one chain that ends at the version being sent.
Chain(client, current) ==
  LET first == SelectInSeq(hist, LAMBDA t : t.old = client)
      tail  == SubSeq(hist, first, Len(hist))
  IN  IF /\ first # 0
         /\ \A i \in 1 .. Len(tail) - 1 : tail[i + 1].old = tail[i].new
         /\ tail[Len(tail)].new = current
      THEN tail ELSE <<>>

\* the dispatch counted the transfer; the thread loads the active version
SendBegin ==
  /\ snd.pc = "asked"
  /\ snd' = [snd EXCEPT !.pc = "loaded", !.ver = pri]
  /\ UNCHANGED <<pvars, ref, wire, svars, x, faults>>

\* The answer.  What was asked for over a lost connection goes nowhere.
send_axfr_response ==
  /\ snd.pc = "loaded"
  /\ \E provide \in ProvideIxfr :
       LET v        == snd.ver
           ixfr     == snd.serial # 0
           uptodate == /\ ixfr
                       /\ \/ snd.serial = v.serial
                          \/ serial_is_newer(snd.serial, v.serial)
           txns     == IF ixfr /\ provide /\ ~uptodate
                       THEN Chain(snd.serial, v.serial) ELSE <<>>
           held     == {txns[i].id : i \in 1 .. Len(txns)}
           answer   == IF uptodate THEN <<Soa(v.serial)>>
                       ELSE IF txns # <<>> THEN IncrementalAnswer(v, txns)
                       ELSE FullAnswer(v)
       IN  /\ snd' = [snd EXCEPT !.pc = "sending", !.txns = held]
           /\ ref' = [i \in 1 .. MaxPub |->
                        IF i \in held THEN ref[i] + 1 ELSE ref[i]]
           /\ wire' = IF x.pc = "recv" THEN answer ELSE <<>>
  /\ UNCHANGED <<pvars, svars, x, faults>>

\* the differences are given back and the thread ends
SendEnd ==
  /\ snd.pc = "sending"
  /\ snd' = NoSender
  /\ ref' = Lower(snd.txns)
  /\ UNCHANGED <<pvars, wire, svars, x, faults>>

----------------------------------------------------------------------------
(* The session of the secondary: parse_xfr_packet()                        *)

NoTransfer == [pc |-> "idle", ask |-> 0, client |-> 0, ixfr |-> FALSE,
               soas |-> 0, init |-> 0, deleting |-> FALSE, expect |-> 0,
               zone |-> NoVersion, bad |-> FALSE, old |-> 0]

\* the session ends without a zone to install
UpToDate == [x EXCEPT !.pc = "finished", !.zone = NoVersion]
Reject(bad) == [x EXCEPT !.pc = "failed", !.bad = bad]

\* mutant: a primary that is behind is taken
FirstSoaAny(s, only) ==
  IF s = x.client THEN UpToDate
  ELSE [x EXCEPT !.soas = 1, !.init = s, !.zone = [serial |-> s, data |-> {}]]

\* only: it is the one RR of the answer
FirstSoa(s, only) ==
  IF \/ x.ixfr /\ only /\ s = x.client
     \/ x.client # 0 /\ s = x.client
  THEN UpToDate
  ELSE IF x.client # 0 /\ ~serial_is_newer(s, x.client)
  THEN Reject(FALSE)
  ELSE [x EXCEPT !.soas = 1, !.init = s, !.zone = [serial |-> s, data |-> {}]]

\* mutant: the differences are applied to an empty zone
SecondSoaUnthawed(s) ==
  IF s # x.client THEN Reject(TRUE)
  ELSE [x EXCEPT !.soas = 2, !.deleting = TRUE]

\* the differences are applied to the version that is served
SecondSoa(s) ==
  IF s # x.client THEN Reject(TRUE)
  ELSE [x EXCEPT !.soas = 2, !.zone = sec, !.deleting = TRUE]

\* the newer SOA of a difference: the RRs that follow are added
NewerSoa(s) ==
  [x EXCEPT !.deleting = FALSE, !.expect = s, !.zone.serial = s]

\* the older SOA of the next difference, or the end
OlderSoa(s) ==
  IF s = x.init /\ x.expect = x.init THEN [x EXCEPT !.pc = "finished"]
  ELSE IF s # x.expect THEN Reject(TRUE)
  ELSE [x EXCEPT !.deleting = TRUE]

\* the last SOA of a whole zone
ClosingSoa(s) ==
  IF s = x.init THEN [x EXCEPT !.pc = "finished"] ELSE x

\* the RRs after the first SOA say that the whole zone comes
TakeRrs(S) ==
  LET whole == x.ixfr /\ x.soas = 1
  IN  [x EXCEPT !.ixfr = @ /\ ~whole,
                !.zone.data = IF x.ixfr /\ ~whole /\ x.deleting
                              THEN @ \ S ELSE @ \cup S]

parse_xfr_packet(item, only) ==
  IF item.type = "rrs" THEN TakeRrs(item.data)
  ELSE CASE x.soas = 0 -> FirstSoa(item.serial, only)
         [] x.soas = 1 /\ x.ixfr -> SecondSoa(item.serial)
         [] x.soas = 2 /\ x.deleting -> NewerSoa(item.serial)
         [] x.soas = 2 /\ ~x.deleting -> OlderSoa(item.serial)
         [] x.soas = 1 /\ ~x.ixfr -> ClosingSoa(item.serial)

----------------------------------------------------------------------------
(* The secondary's transfer thread and what asks for a refresh             *)

\* a NOTIFY of the primary, in process_dns_query
Notify ==
  /\ commands < MaxCommands
  /\ refresh_now' = TRUE
  /\ commands' = commands + 1
  /\ UNCHANGED <<pvars, ref, snd, wire, sec, serial, owed, x, faults>>

\* karictl retransfer, also the reload of a secondary zone
Retransfer ==
  /\ commands < MaxCommands
  /\ serial' = 0
  /\ refresh_now' = TRUE
  /\ commands' = commands + 1
  /\ owed' = TRUE
  /\ UNCHANGED <<pvars, ref, snd, wire, sec, x, faults>>

\* The tick of the control thread takes the flag, and starts the thread if a
\* refresh was asked for or its time has come.  While the thread runs, the
\* flag it took is gone.  (A tick that a quota stops changes nothing.)
TickStarts ==
  /\ x.pc = "idle"
  /\ refresh_now' = FALSE
  /\ x' = [x EXCEPT !.pc = "try"]
  /\ UNCHANGED <<pvars, ref, snd, wire, sec, serial, commands, owed, faults>>

TickBusy ==
  /\ x.pc # "idle"
  /\ refresh_now
  /\ refresh_now' = FALSE
  /\ UNCHANGED <<pvars, ref, snd, wire, sec, serial, commands, owed, x, faults>>

\* the thread cannot be started
TickFails ==
  /\ x.pc = "idle"
  /\ faults < MaxFaults
  /\ refresh_now' = FALSE
  /\ faults' = faults + 1
  /\ UNCHANGED <<pvars, ref, snd, wire, sec, serial, commands, owed, x>>

\* With request-ixfr no the SOA is asked for first, and the whole zone only
\* when the primary is ahead.
xfr_soa_probe ==
  IF serial_is_newer(pri.serial, serial) THEN [x EXCEPT !.pc = "attempt"]
  ELSE NoTransfer

xfr_try_primary ==
  /\ x.pc = "try"
  /\ \E ixfr \in RequestIxfr :
       x' = IF ~ixfr /\ serial # 0 THEN xfr_soa_probe
            ELSE [x EXCEPT !.pc = "attempt", !.ask = serial]
  /\ UNCHANGED <<pvars, ref, snd, wire, svars, faults>>

\* A connection, a request and a new session.  An earlier connection's sender
\* has ended: all it could still do is to hold up the writers.
xfr_attempt ==
  /\ x.pc = "attempt"
  /\ snd.pc = "idle"
  /\ snd' = [NoSender EXCEPT !.pc = "asked", !.serial = x.ask]
  /\ wire' = <<>>
  /\ x' = [NoTransfer EXCEPT !.pc = "recv", !.ask = x.ask, !.client = serial,
                             !.ixfr = x.ask # 0]
  /\ UNCHANGED <<pvars, ref, svars, faults>>

Receive ==
  /\ x.pc = "recv"
  /\ wire # <<>>
  /\ x' = parse_xfr_packet(Head(wire), x.soas = 0 /\ Len(wire) = 1)
  /\ wire' = Tail(wire)
  /\ UNCHANGED <<pvars, ref, snd, svars, faults>>

\* the sender closed the connection before the transfer was complete
EndOfStream ==
  /\ x.pc = "recv"
  /\ wire = <<>>
  /\ snd.pc = "idle"
  /\ x' = Reject(FALSE)
  /\ UNCHANGED <<pvars, ref, snd, wire, svars, faults>>

\* the connection is refused or lost, or a time limit is over
Cut ==
  /\ faults < MaxFaults
  /\ x.pc \in {"try", "attempt", "recv"}
  /\ x' = Reject(FALSE)
  /\ wire' = <<>>
  /\ faults' = faults + 1
  /\ UNCHANGED <<pvars, ref, snd, svars>>

\* mutant: no second attempt
GivesUp ==
  /\ x.pc = "failed"
  /\ x' = NoTransfer
  /\ wire' = <<>>
  /\ UNCHANGED <<pvars, ref, snd, svars, faults>>

\* an IXFR whose differences do not fit is asked for again as an AXFR, once
Failed ==
  /\ x.pc = "failed"
  /\ x' = IF x.bad /\ x.ask # 0 THEN [NoTransfer EXCEPT !.pc = "attempt"]
          ELSE NoTransfer
  /\ wire' = <<>>
  /\ UNCHANGED <<pvars, ref, snd, svars, faults>>

\* nothing to install, or the serial of the version to come is set under
\* writer_lock
handle_axfr_event ==
  /\ x.pc = "finished"
  /\ IF x.zone = NoVersion
     THEN x' = NoTransfer /\ UNCHANGED <<serial, owed>>
     ELSE /\ serial' = x.zone.serial
          /\ owed' = (owed /\ x.ixfr)
          /\ x' = [x EXCEPT !.pc = "install", !.old = serial]
  /\ UNCHANGED <<pvars, ref, snd, wire, sec, refresh_now, commands, faults>>

zone_install_builder ==
  /\ x.pc = "install"
  /\ sec' = x.zone
  /\ x' = NoTransfer
  /\ UNCHANGED <<pvars, ref, snd, wire, serial, refresh_now, commands, owed,
                 faults>>

\* no image: the serial is put back
InstallFails ==
  /\ x.pc = "install"
  /\ faults < MaxFaults
  /\ serial' = x.old
  /\ x' = NoTransfer
  /\ faults' = faults + 1
  /\ UNCHANGED <<pvars, ref, snd, wire, sec, refresh_now, commands, owed>>

----------------------------------------------------------------------------
(* The whole                                                               *)

Init ==
  LET first == [serial |-> FirstSerial, data |-> CHOOSE c \in Contents : TRUE]
  IN  /\ pri = first
      /\ published = {first}
      /\ sec \in {NoVersion, first}
      /\ serial = IF sec = NoVersion THEN 0 ELSE FirstSerial
      /\ prev = NoVersion
      /\ depth \in Depths
      /\ cap = 0 /\ hist = <<>> /\ ref = [i \in 1 .. MaxPub |-> 0]
      /\ wr = NoWriter /\ pub = 0
      /\ snd = NoSender /\ wire = <<>>
      /\ refresh_now = FALSE
      /\ x = NoTransfer
      /\ faults = 0 /\ commands = 0 /\ owed = FALSE

Next ==
  \/ \E d \in Depths : ixfr_history_set_depth(d)
  \/ reload_master_zone
  \/ handle_dynamic_update
  \/ \E local \in BOOLEAN : zone_rollback(local)
  \/ StoreDiff
  \/ zone_publish
  \/ ixfr_history_reset
  \/ SendBegin
  \/ send_axfr_response
  \/ SendEnd
  \/ Notify
  \/ Retransfer
  \/ TickStarts
  \/ TickBusy
  \/ TickFails
  \/ xfr_try_primary
  \/ xfr_attempt
  \/ Receive
  \/ EndOfStream
  \/ Cut
  \/ Failed
  \/ handle_axfr_event
  \/ zone_install_builder
  \/ InstallFails

Spec == Init /\ [][Next]_vars

\* Threads that have work to do go on, and the refresh timer of the secondary
\* runs out again and again.
FairSpec ==
  /\ Spec
  /\ WF_vars(StoreDiff \/ zone_publish \/ ixfr_history_reset)
  /\ WF_vars(SendBegin \/ send_axfr_response \/ SendEnd)
  /\ WF_vars(TickStarts)
  /\ WF_vars(xfr_try_primary \/ xfr_attempt \/ Receive \/ EndOfStream
             \/ Failed \/ handle_axfr_event \/ zone_install_builder)

----------------------------------------------------------------------------
(* Properties                                                              *)

\* Every variable has the type of the field it stands for.
TypeOK ==
  /\ pri \in Version /\ prev \in Version \cup {NoVersion}
  /\ depth \in Depths /\ cap \in Depths \cup {0} /\ Len(hist) <= cap
  /\ \A i \in 1 .. Len(hist) : hist[i] \in Txn
  /\ ref \in [1 .. MaxPub -> 0 .. 2]
  /\ wr.pc \in {"idle", "store", "publish", "reset"}
  /\ wr.ver \in Version \cup {NoVersion}
  /\ pub \in 0 .. MaxPub /\ published \subseteq Version
  /\ snd.pc \in {"idle", "asked", "loaded", "sending"} /\ snd.serial \in Serials
  /\ sec \in Version \cup {NoVersion} /\ serial \in Serials
  /\ x.pc \in {"idle", "try", "attempt", "recv", "failed", "finished", "install"}
  /\ {x.ask, x.client, x.init, x.expect, x.old} \subseteq Serials
  /\ x.zone \in Version \cup {NoVersion}
  /\ refresh_now \in BOOLEAN /\ owed \in BOOLEAN

\* Whatever the primary publishes while it sends, however the differences of
\* its history are cut off, skipped or dropped, and wherever a connection
\* breaks: what the secondary serves is a version the primary has served, with
\* all its RRs (send_axfr_response, parse_xfr_packet).
SecondaryExact == sec \in published \cup {NoVersion}

\* A difference has one reference for its place in the ring and one for the
\* thread that sends it; so it is freed when both are gone, neither earlier
\* nor never (ixfr_ring_resize, send_axfr_response).
TxnRefsExact ==
  \A i \in 1 .. MaxPub :
    ref[i] = (IF \E k \in 1 .. Len(hist) : hist[k].id = i THEN 1 ELSE 0)
             + (IF i \in snd.txns THEN 1 ELSE 0)

\* A version that the secondary installs is newer than the one it served,
\* unless the session began without a serial, as after a retransfer
\* (parse_xfr_packet rejects a primary that is behind).
OnlyForward ==
  [][sec' # sec /\ sec # NoVersion =>
       x.client = 0 \/ serial_is_newer(sec'.serial, sec.serial)]_vars

\* When the primary rests, the secondary comes to serve its version, or one
\* that the primary is not ahead of (the refresh timer and the fallback to
\* AXFR in xfr_try_primary).
CatchesUp ==
  <>[](/\ sec # NoVersion
       /\ sec = pri \/ ~serial_is_newer(pri.serial, sec.serial))

\* karictl retransfer, acknowledged with OK: the current serial is discarded and
\* a new transfer (AXFR) is started.  Until a whole zone has come, the serial
\* stays discarded.
RetransferKept == owed => serial = 0
=============================================================================
