------------------------------- MODULE DbSync -------------------------------
(***************************************************************************)
(* Database zones with database { memory-limit }: an SQL database, the     *)
(* loader process (karidns_dbloader.c) that compares it with its inventory *)
(* of the Backend, the first stream that carries batches, the fetch stream *)
(* that carries single zones the Backend asks for, and the ingest thread   *)
(* (dns_db_ingest.c) that installs both into one registry.                 *)
(*                                                                         *)
(* The two streams are not ordered against each other.  The loader can die *)
(* at any time; the supervisor starts another one, which learns the        *)
(* inventory again.                                                        *)
(***************************************************************************)
EXTENDS ZoneRegistry, LoaderInventory, FiniteSets

CONSTANTS
    Zones,        \* zone names of one view
    Limits,       \* may there be a memory-limit (dir_only)?
    KeepSerial,   \* ... and with which may edits keep the serial?
    Qualities,    \* what an edit can make of a zone: ok, reject, unread
    FevMax,       \* FEV_MAX: events of the fetch thread that can wait
    MaxInputs     \* bound: edits, fetches asked for, deaths of the loader,
                  \* failed reads of the database and requests, together

VARIABLES
    limit,        \* database { memory-limit } is set
    db,           \* zone -> the row of the database (NoZone: not there)
    log,          \* the change log, one zone per row; rows 1..cut are pruned
    cut,
    sids,         \* domain ids given so far
    loader,       \* the main thread of the loader
    inv,          \* its inventory
    fevq,         \* served fetches the main thread has not seen yet
    fw,           \* the fetch thread's work (NoWork: none)
    toB, toL,     \* the first stream, both directions
    toF, fromF,   \* the fetch stream, both directions
    dir,          \* the registry
    cur, fcur,    \* the zone being received on each stream (NoJob: none)
    freq,         \* zone -> the fetch in flight (NoReq: none)
    spent         \* inputs so far, also the number of the last fetch

dbVars == <<limit, db, log, cut, sids>>
vars == <<dbVars, loader, inv, fevq, fw, toB, toL, toF, fromF,
          dir, cur, fcur, freq, spent>>

Spend == spent < MaxInputs /\ spent' = spent + 1

NoZone == [sid |-> 0, serial |-> 0, ver |-> 0, q |-> "ok"]
NoWork == [id |-> 0]
NoJob == [z |-> "none"]
NoReq == [id |-> 0, sid |-> 0, serial |-> 0]

Order == SetToSeq(Zones)

-----------------------------------------------------------------------------
(* The database.  Every change writes a row of karidns_changes (the        *)
(* triggers of db/karidns_ext.*.sql); old rows may be pruned.              *)

Row == Len(log) + 1

Write(z, v) ==
    /\ Spend
    /\ db' = [db EXCEPT ![z] = v]
    /\ log' = Append(log, z)
    /\ UNCHANGED <<limit, cut, loader, inv, fevq, fw, toB, toL, toF, fromF, dir, cur,
                   fcur, freq>>

Create(z) ==
    /\ db[z] = NoZone
    /\ \E q \in Qualities :
          Write(z, [sid |-> sids + 1, serial |-> 1, ver |-> Row + 1, q |-> q])
    /\ sids' = sids + 1

Edit(z) ==
    /\ db[z] # NoZone
    /\ \E s \in IF limit \in KeepSerial THEN 0..1 ELSE {1}, q \in Qualities :
          Write(z, [db[z] EXCEPT !.serial = @ + s, !.ver = Row + 1, !.q = q])
    /\ UNCHANGED sids

Delete(z) == db[z] # NoZone /\ Write(z, NoZone) /\ UNCHANGED sids

Prune ==
    /\ cut < Len(log)
    /\ cut' = Len(log) - 1
    /\ UNCHANGED <<limit, db, log, sids, loader, inv, fevq, fw, toB, toL, toF, fromF,
                   dir, cur, fcur, freq, spent>>

(* max(seq); the rows after a position; were some of them pruned?          *)
changes_max == IF cut = Len(log) THEN 0 ELSE Len(log)

Changed(z, after) ==
    \E r \in (after + 1)..Len(log) : r > cut /\ log[r] = z

Gap(after) == after > 0 /\ changes_max > after /\ cut > after

-----------------------------------------------------------------------------
(* The loader's main thread.                                               *)

DownLoader == [pc |-> "down", seq |-> 0, seqValid |-> FALSE, again |-> FALSE,
               need |-> FALSE, reconcile |-> FALSE, started |-> FALSE]

EmptyInv == [z \in Zones |-> NoEnt]

(* Does the load compare every zone?  (plan_diff, its first half)          *)
CompareAll(reconcile, force, one) ==
    \/ reconcile
    \/ force
    \/ one
    \/ ~loader.seqValid
    \/ changes_max < loader.seq
    \/ Gap(loader.seq)

(* The zones of zs to read and the ones the database no longer lists, both *)
(* in the order they are sent; i is the inventory with the served fetches. *)
plan_diff(i, zs, reconcile, force, one) ==
    LET all == CompareAll(reconcile, force, one)
    IN [read |-> SelectSeq(Order, LAMBDA z :
                   /\ z \in zs /\ db[z] # NoZone
                   /\ Want(i[z], db[z], all, ~one /\ Changed(z, loader.seq))),
        gone |-> SelectSeq(Order, LAMBDA z :
                   z \in zs /\ db[z] = NoZone /\ i[z].known)]

(* What is sent for one zone, and what becomes of its inventory entry: a   *)
(* summary, the report that it cannot be read, nothing, or the zone.       *)
convert_zone(e, z, force) ==
    CASE AsSummary(e, limit) ->
            [msg |-> <<[t |-> "summary", z |-> z, v |-> db[z]]>>,
             ent |-> Offer(e, db[z], TRUE)]
      [] ~AsSummary(e, limit) /\ db[z].q = "unread" ->
            [msg |-> <<[t |-> "failed", z |-> z, v |-> db[z]]>>,
             ent |-> Unreadable(e)]
      [] ~AsSummary(e, limit) /\ db[z].q # "unread" /\ UpToDate(e, db[z], force) ->
            [msg |-> <<>>, ent |-> e]
      [] OTHER ->
            [msg |-> <<[t |-> "body", z |-> z, v |-> db[z]]>>,
             ent |-> Offer(e, db[z], FALSE)]

(* send_delete, for a zone the database no longer lists.                   *)
Deletion(i, z) ==
    [t |-> "delete", z |-> z, v |-> [NoZone EXCEPT !.sid = i[z].sid]]

(* The position in the change log after a pass: it moves only with a       *)
(* complete pass over every zone.                                          *)
PositionAnyway(fails, one) ==
    IF one THEN [at |-> loader.seq, valid |-> loader.seqValid]
    ELSE [at |-> changes_max, valid |-> TRUE]

NextPosition(fails, one) ==
    IF fails \/ one THEN [at |-> loader.seq, valid |-> loader.seqValid]
    ELSE [at |-> changes_max, valid |-> TRUE]

(* One pass over the database, in one snapshot: the first n of the zones   *)
(* to read are sent, and when none is left the deletions.                  *)
run_view(i, plan, n, force, fails, one) ==
    LET sent == [k \in 1..n |-> convert_zone(i[plan.read[k]], plan.read[k], force)]
    IN [msgs |-> FlattenSeq([k \in 1..n |-> sent[k].msg])
                 \o IF fails THEN <<>>
                    ELSE [k \in 1..Len(plan.gone) |-> Deletion(i, plan.gone[k])],
        inv  |-> [z \in Zones |->
                    IF \E k \in 1..n : plan.read[k] = z
                    THEN sent[CHOOSE k \in 1..n : plan.read[k] = z].ent
                    ELSE i[z]],
        pos  |-> NextPosition(fails, one)]

(* A batch.  A failed read ends the pass after some of its zones; the main *)
(* loop then tries again (need).  An empty batch is sent only to say that  *)
(* a comparison is complete, or as the answer to a request for one zone.   *)
do_load(kind, zs, reconcile, force, fails) ==
    LET one  == kind = "zone"
        main == kind \in {"startup", "diff"}
        d    == fev_drain(inv, loader.again /\ ~main, fevq, FALSE)
        plan == plan_diff(d.inv, zs, reconcile, force, one)
    IN \E n \in IF fails THEN 0..Len(plan.read) ELSE {Len(plan.read)} :
         LET v     == run_view(d.inv, plan, n, force, fails, one)
             batch == v.msgs # <<>> \/ one \/ (main /\ ~fails)
         IN /\ toB' = IF batch THEN toB \o v.msgs \o <<[t |-> "end"]>> ELSE toB
            /\ inv' = v.inv
            /\ fevq' = <<>>
            /\ loader' = [loader EXCEPT
                 !.pc = IF batch THEN "batch" ELSE "run",
                 !.again = d.again,
                 !.seq = v.pos.at, !.seqValid = v.pos.valid,
                 !.need = IF main THEN fails ELSE @,
                 !.started = @ \/ (kind = "startup" /\ ~fails),
                 !.reconcile = @ /\ (~main \/ fails)]

(* The main loop (run_stream): the startup batch and the comparisons that  *)
(* were asked for (again, karictl reload, the retry after a failed read);  *)
(* the zones of karictl reload <zone>; the auto reload, when the change    *)
(* log has moved.                                                          *)
LoadStep ==
    /\ loader.pc = "run"
    /\ UNCHANGED <<dbVars, fw, toL, toF, fromF, dir, cur, fcur, freq>>

Costs(b) == IF b THEN Spend ELSE UNCHANGED spent

MainLoad(fails) ==
    /\ LoadStep /\ Costs(fails)
    /\ loader.need \/ loader.again
    /\ do_load(IF loader.started THEN "diff" ELSE "startup", Zones,
               loader.reconcile, FALSE, fails)

AutoLoad(fails) ==
    /\ LoadStep /\ Costs(fails)
    /\ loader.started
    /\ changes_max # loader.seq
    /\ do_load("auto", Zones, FALSE, FALSE, fails)

ZoneLoad(z, force) ==
    /\ LoadStep /\ Spend
    /\ do_load("zone", {z}, FALSE, force, FALSE)

(* karictl reload, or a CONFIG with other sources (every zone is compared) *)
Request(config) ==
    /\ loader.pc \in {"run", "batch"}
    /\ Spend
    /\ loader' = [loader EXCEPT !.need = TRUE, !.reconcile = @ \/ config]
    /\ UNCHANGED <<dbVars, inv, fevq, fw, toB, toL, toF, fromF, dir,
                   cur, fcur, freq>>

(* The top of the main loop takes what the fetch thread served.            *)
Drain ==
    /\ loader.pc = "run" /\ fevq # <<>>
    /\ LET d == fev_drain(inv, loader.again, fevq, TRUE)
       IN inv' = d.inv /\ loader' = [loader EXCEPT !.again = d.again]
    /\ fevq' = <<>>
    /\ UNCHANGED <<dbVars, fw, toB, toL, toF, fromF, dir, cur, fcur,
                   freq, spent>>

(* io_dispatch: the inventory, the answer to one zone, the end of a batch. *)
Dispatch ==
    /\ loader.pc # "down" /\ toL # <<>>
    /\ toL' = Tail(toL)
    /\ LET m == Head(toL)
           d == fev_drain(inv, loader.again, fevq, TRUE)
           r == ZoneResult(d.inv[m.z], m.status)
       IN CASE m.t = "inventory" ->
                 /\ inv' = m.inv
                 /\ loader' = [loader EXCEPT !.pc = "run", !.need = TRUE,
                                             !.reconcile = TRUE]
                 /\ UNCHANGED fevq
            [] m.t = "result" ->
                 /\ inv' = [d.inv EXCEPT ![m.z] = r.ent]
                 /\ loader' = [loader EXCEPT !.again = d.again \/ r.again]
                 /\ fevq' = <<>>
            [] m.t = "done" ->
                 /\ loader' = [loader EXCEPT !.pc = "run"]
                 /\ UNCHANGED <<inv, fevq>>
    /\ UNCHANGED <<dbVars, fw, toB, toF, fromF, dir, cur, fcur, freq, spent>>

-----------------------------------------------------------------------------
(* The fetch thread of the loader: it reads the zone in a snapshot of its  *)
(* own, writes it to the fetch stream and then tells the main thread.      *)

FetchRead ==
    /\ loader.pc # "down" /\ fw = NoWork /\ toF # <<>>
    /\ fw' = [id |-> Head(toF).id, z |-> Head(toF).z, v |-> db[Head(toF).z],
              sent |-> FALSE]
    /\ toF' = Tail(toF)
    /\ UNCHANGED <<dbVars, loader, inv, fevq, toB, toL, fromF, dir,
                   cur, fcur, freq, spent>>

FetchWrite ==
    /\ fw # NoWork /\ ~fw.sent
    /\ LET ok == fw.v # NoZone /\ fw.v.q # "unread"
       IN /\ fromF' = Append(fromF, [ok |-> ok, id |-> fw.id, z |-> fw.z,
                                     v |-> fw.v])
          /\ fw' = IF ok THEN [fw EXCEPT !.sent = TRUE] ELSE NoWork
    /\ UNCHANGED <<dbVars, loader, inv, fevq, toB, toL, toF, dir, cur,
                   fcur, freq, spent>>

fev_push ==
    /\ fw # NoWork /\ fw.sent
    /\ fw' = NoWork
    /\ fevq' = IF Len(fevq) < FevMax
               THEN Append(fevq, [z |-> fw.z, sid |-> fw.v.sid,
                                  serial |-> fw.v.serial, dig |-> fw.v.ver])
               ELSE fevq
    /\ UNCHANGED <<dbVars, loader, inv, toB, toL, toF, fromF, dir,
                   cur, fcur, freq, spent>>

-----------------------------------------------------------------------------
(* The death of the loader and its restart by the supervisor.  What it had *)
(* written may still be read, up to some point.                            *)

Prefix(s) == {SubSeq(s, 1, n) : n \in 0..Len(s)}

Die ==
    /\ loader.pc # "down" /\ Spend
    /\ loader' = DownLoader /\ inv' = EmptyInv /\ fevq' = <<>> /\ fw' = NoWork
    /\ toL' = <<>> /\ toF' = <<>>
    /\ toB' \in Prefix(toB) /\ fromF' \in Prefix(fromF)
    /\ UNCHANGED <<dbVars, dir, cur, fcur, freq>>

(* The new streams are adopted: a zone received in part is thrown away, the *)
(* fetches in flight are asked for again (fetch_adopt).                     *)
Asked == SelectSeq(Order, LAMBDA z : freq[z] # NoReq)

Start ==
    /\ loader.pc = "down"
    /\ loader' = [DownLoader EXCEPT !.pc = "inventory"]
    /\ toB' = <<[t |-> "inventory_req"]>>
    /\ fromF' = <<>> /\ cur' = NoJob /\ fcur' = NoJob
    /\ toF' = [i \in 1..Len(Asked) |-> [id |-> freq[Asked[i]].id,
                                        z |-> Asked[i]]]
    /\ UNCHANGED <<dbVars, inv, fevq, fw, toL, dir, freq, spent>>

-----------------------------------------------------------------------------
(* The Backend's ingest thread, first stream.  An answer to a loader that  *)
(* is gone is lost with the stream.                                        *)

Answer(m) == toL' = IF loader.pc = "down" THEN toL ELSE Append(toL, m)

Result(z, status) == Answer([t |-> "result", z |-> z, status |-> status])

InventoryOf(e) ==
    IF Listed(e)
    THEN [NoEnt EXCEPT !.known = TRUE, !.resident = e.data # 0, !.sid = e.sid,
                       !.serial = e.serial,
                       !.dig = IF e.data # 0 THEN e.dig ELSE 0]
    ELSE NoEnt

on_inventory_req ==
    /\ toB # <<>> /\ Head(toB).t = "inventory_req"
    /\ toB' = Tail(toB)
    /\ Answer([t |-> "inventory", inv |-> [z \in Zones |-> InventoryOf(dir[z])]])
    /\ UNCHANGED <<dir, cur>>

(* ZONE_BEGIN of a whole zone: over the high mark of the limit its data is *)
(* left out, unless the zone is in memory.                                 *)
on_zone_begin ==
    /\ toB # <<>> /\ Head(toB).t = "body" /\ cur = NoJob
    /\ toB' = Tail(toB)
    /\ \E cold \in IF limit /\ dir[Head(toB).z].data = 0 THEN BOOLEAN
                   ELSE {FALSE} :
          cur' = [z |-> Head(toB).z, v |-> Head(toB).v, cold |-> cold]
    /\ UNCHANGED <<dir, toL>>

(* job_execute of a whole zone that is kept, and of one that is left out.  *)
Install(z, v) ==
    IF v.q = "reject"
    THEN [elem |-> dbreg_reject(dir[z], v.sid), status |-> "REJECTED"]
    ELSE [elem |-> dbreg_commit(dir[z], v), status |-> "APPLIED"]

LeaveOut(z, v) ==
    IF dir[z].data # 0
    THEN [elem |-> dir[z], status |-> "SEND_BODY"]
    ELSE [elem |-> dbreg_commit_cold(dir[z], v, v.ver),
          status |-> "NOT_RESIDENT"]

(* ... and of a summary.                                                   *)
TakeSummary(z, v) ==
    CASE dbreg_summary_check(dir[z], v) = "SAME" ->
            [elem |-> dir[z], status |-> "UNCHANGED"]
      [] dbreg_summary_check(dir[z], v) = "DIFFERS" ->
            [elem |-> dir[z], status |-> "SEND_BODY"]
      [] OTHER -> [elem |-> dbreg_commit_cold(dir[z], v, 0),
                   status |-> "APPLIED"]

Finish(z, r) ==
    /\ dir' = [dir EXCEPT ![z] = r.elem]
    /\ Result(z, r.status)

on_zone_end ==
    /\ cur # NoJob
    /\ Finish(cur.z, IF cur.cold THEN LeaveOut(cur.z, cur.v)
                     ELSE Install(cur.z, cur.v))
    /\ cur' = NoJob
    /\ UNCHANGED toB

on_summary ==
    /\ toB # <<>> /\ Head(toB).t = "summary" /\ cur = NoJob
    /\ toB' = Tail(toB)
    /\ Finish(Head(toB).z, TakeSummary(Head(toB).z, Head(toB).v))
    /\ UNCHANGED cur

on_zone_failed ==
    /\ toB # <<>> /\ Head(toB).t = "failed" /\ cur = NoJob
    /\ toB' = Tail(toB)
    /\ dir' = [dir EXCEPT ![Head(toB).z] = dbreg_reject(@, Head(toB).v.sid)]
    /\ UNCHANGED <<toL, cur>>

on_zone_delete ==
    /\ toB # <<>> /\ Head(toB).t = "delete" /\ cur = NoJob
    /\ toB' = Tail(toB)
    /\ LET z == Head(toB).z
           e == dbreg_delete(dir[z], Head(toB).v.sid)
       IN Finish(z, [elem |-> e, status |-> IF e = dir[z] THEN "UNCHANGED"
                                            ELSE "DELETED"])
    /\ UNCHANGED cur

on_batch_end ==
    /\ toB # <<>> /\ Head(toB).t = "end" /\ cur = NoJob
    /\ toB' = Tail(toB)
    /\ Answer([t |-> "done"])
    /\ UNCHANGED <<dir, cur>>

FirstStream ==
    /\ \/ on_inventory_req \/ on_zone_begin \/ on_zone_end \/ on_summary
       \/ on_zone_failed \/ on_zone_delete \/ on_batch_end
    /\ UNCHANGED <<dbVars, loader, inv, fevq, fw, toF, fromF, fcur,
                   freq, spent>>

-----------------------------------------------------------------------------
(* The ingest thread, fetch stream.                                        *)

(* A query wants a zone that is out of memory (fetch_issue): the version   *)
(* the directory has now is remembered with the request.                   *)
fetch_issue(z) ==
    /\ Indexed(dir[z]) /\ dir[z].data = 0 /\ dir[z].st # "LOADING"
    /\ freq[z] = NoReq /\ loader.pc # "down"
    /\ Spend
    /\ freq' = [freq EXCEPT ![z] = [id |-> spent + 1, sid |-> dir[z].sid,
                                    serial |-> dir[z].serial]]
    /\ dir' = [dir EXCEPT ![z] = dbreg_fetch_begin(@)]
    /\ toF' = Append(toF, [id |-> spent + 1, z |-> z])
    /\ UNCHANGED <<dbVars, loader, inv, fevq, fw, toB, toL, fromF,
                   cur, fcur>>

(* The request is over (fetch_complete), if it is still the one with id.   *)
fetch_complete(d, z, id) ==
    /\ freq' = IF freq[z].id = id THEN [freq EXCEPT ![z] = NoReq] ELSE freq
    /\ dir' = IF freq[z].id = id
              THEN [d EXCEPT ![z] = dbreg_fetch_end(@)] ELSE d

fetch_expire(z) ==
    /\ freq[z] # NoReq
    /\ fetch_complete(dir, z, freq[z].id)
    /\ UNCHANGED <<dbVars, loader, inv, fevq, fw, toB, toL, toF,
                   fromF, cur, fcur, spent>>

(* A zone nobody asked for, or no longer, is thrown away.                  *)
on_fetch_begin ==
    /\ fromF # <<>> /\ Head(fromF).ok /\ fcur = NoJob
    /\ LET m == Head(fromF)
       IN fcur' = IF freq[m.z].id = m.id
                  THEN [z |-> m.z, v |-> m.v, id |-> m.id,
                        iv |-> [sid |-> freq[m.z].sid,
                                serial |-> freq[m.z].serial]]
                  ELSE NoJob
    /\ fromF' = Tail(fromF)
    /\ UNCHANGED <<dir, freq>>

(* job_execute of a fetched zone: it is dropped when the directory has     *)
(* moved to a version that is neither the one at the request nor its own.  *)
NeverOvertaken(e, j) == ~Known(e)

Overtaken(e, j) == ~Known(e) \/ (~Same(e, j.iv) /\ ~Same(e, j.v))

on_fetch_end ==
    /\ fcur # NoJob
    /\ LET z == fcur.z
           d == IF Overtaken(dir[z], fcur) THEN dir
                ELSE [dir EXCEPT ![z] = Install(z, fcur.v).elem]
       IN fetch_complete(d, z, fcur.id)
    /\ fcur' = NoJob
    /\ UNCHANGED fromF

on_fetch_failed ==
    /\ fromF # <<>> /\ ~Head(fromF).ok /\ fcur = NoJob
    /\ fetch_complete(dir, Head(fromF).z, Head(fromF).id)
    /\ fromF' = Tail(fromF)
    /\ UNCHANGED fcur

FetchStream ==
    /\ on_fetch_begin \/ on_fetch_end \/ on_fetch_failed
    /\ UNCHANGED <<dbVars, loader, inv, fevq, fw, toB, toL, toF, cur, spent>>

(* The cache manager takes a zone out of memory; nobody is told.           *)
Evict(z) ==
    /\ limit /\ dir[z].data # 0
    /\ dir' = [dir EXCEPT ![z] = dbreg_evict(@)]
    /\ UNCHANGED <<dbVars, loader, inv, fevq, fw, toB, toL, toF,
                   fromF, cur, fcur, freq, spent>>

-----------------------------------------------------------------------------
Init ==
    /\ limit \in Limits
    /\ db = [z \in Zones |-> [sid |-> 1, serial |-> 1, ver |-> 1, q |-> "ok"]]
    /\ log = <<>> /\ cut = 0 /\ sids = 1
    /\ loader = DownLoader /\ inv = EmptyInv /\ fevq = <<>> /\ fw = NoWork
    /\ toB = <<>> /\ toL = <<>> /\ toF = <<>> /\ fromF = <<>>
    /\ dir = [z \in Zones |-> NoElem]
    /\ cur = NoJob /\ fcur = NoJob /\ freq = [z \in Zones |-> NoReq]
    /\ spent = 0

Database == \/ Prune
            \/ \E z \in Zones : Create(z) \/ Edit(z) \/ Delete(z)

MainThread == \/ \E fails \in BOOLEAN : MainLoad(fails) \/ AutoLoad(fails)
              \/ Drain \/ Dispatch

FetchThread == FetchRead \/ FetchWrite \/ fev_push

Outside ==
    \/ \E z \in Zones, force \in BOOLEAN : ZoneLoad(z, force)
    \/ \E config \in BOOLEAN : Request(config)
    \/ Die

Backend ==
    \/ FirstStream \/ FetchStream
    \/ \E z \in Zones : fetch_issue(z) \/ fetch_expire(z) \/ Evict(z)

Next == Database \/ MainThread \/ FetchThread \/ Outside \/ Start \/ Backend

Spec == Init /\ [][Next]_vars

(* The supervisor restarts the loader; its two threads, the ingest thread   *)
(* on each stream and the expiry of a fetch run on.                         *)
Fairness ==
    /\ WF_vars(Start)
    /\ WF_vars(MainThread)
    /\ WF_vars(FetchThread)
    /\ WF_vars(FirstStream)
    /\ WF_vars(FetchStream)
    /\ \A z \in Zones : WF_vars(fetch_expire(z))

-----------------------------------------------------------------------------
(* Nothing is on its way: the loader has read the log to its end and waits, *)
(* no message, event or fetch is pending.                                   *)
Quiet ==
    /\ loader.pc = "run" /\ loader.started /\ ~loader.need /\ ~loader.again
    /\ changes_max = loader.seq
    /\ fevq = <<>> /\ fw = NoWork /\ toB = <<>> /\ toL = <<>> /\ toF = <<>>
    /\ fromF = <<>> /\ cur = NoJob /\ fcur = NoJob
    /\ \A z \in Zones : freq[z] = NoReq
=============================================================================
