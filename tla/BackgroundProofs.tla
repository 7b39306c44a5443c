-------------------------- MODULE BackgroundProofs --------------------------
(***************************************************************************)
(* The work beside the queries, for any number of readers, threads, places *)
(* and messages: the configuration a section reads stays (ConfigReload),   *)
(* the replies of a program go to the clients that asked (ProgramZone),    *)
(* and the table of NOTIFYs is sound (NotifyTable).                        *)
(***************************************************************************)
EXTENDS ConfigReload, NotifyTable, ProgramZone, FiniteSetTheorems, NaturalsInduction, TLAPS

-----------------------------------------------------------------------------
(* ConfigReload *)

PlaceNames == {"a", "b"}

CfgTypes ==
  /\ cfg_active \in PlaceNames
  /\ cfg_place \in [PlaceNames -> Nat]
  /\ DOMAIN cfg_reader = CfgReaders
  /\ \A r \in CfgReaders : cfg_reader[r].in => cfg_reader[r].place \in PlaceNames

\* A section that reads the standby place began before the last publication.
OldInv ==
  \A r \in CfgReaders : cfg_reader[r].in /\ cfg_reader[r].place # cfg_active => r \in cfg_old

\* The place that is served holds a configuration, and so does the one that was parsed; that one has no reader.
HoldsInv ==
  /\ cfg_place[cfg_active] # 0
  /\ ctl.at = "parsed" => cfg_place[Standby] # 0 /\ cfg_old = {}

CfgInv == CfgTypes /\ OldInv /\ HoldsInv /\ ConfigStable

\* At the start config_a is served and nobody reads.
LEMMA CfgInitInv == CfgInit => CfgInv
BY DEF CfgInit, CfgInv, CfgTypes, OldInv, HoldsInv, ConfigStable, PlaceNames, Outside, Resting

\* The standby place is the other one.
LEMMA StandbyIsOther ==
  ASSUME cfg_active \in PlaceNames
  PROVE  /\ Standby \in PlaceNames /\ Standby # cfg_active
         /\ \A p \in PlaceNames : p = Standby \/ p = cfg_active
BY DEF Standby, PlaceNames

\* A section begins or ends.
LEMMA ReaderKeeps == ASSUME CfgInv, NEW r \in CfgReaders, acquire_config_snapshot(r) \/ SectionEnds(r)
                     PROVE  CfgInv'
<1>1. UNCHANGED <<cfg_active, cfg_place, ctl>>
  BY DEF acquire_config_snapshot, SectionEnds
<1>2. CASE acquire_config_snapshot(r)
  <2>1. cfg_reader' = [cfg_reader EXCEPT ![r] = [in |-> TRUE, place |-> cfg_active, gen |-> cfg_place[cfg_active]]]
        /\ UNCHANGED cfg_old
    BY <1>2 DEF acquire_config_snapshot
  <2>. QED  BY <1>1, <2>1 DEF CfgInv, CfgTypes, OldInv, HoldsInv, ConfigStable, Standby
<1>3. CASE SectionEnds(r)
  <2>1. cfg_reader' = [cfg_reader EXCEPT ![r] = Outside] /\ cfg_old' = cfg_old \ {r}
    BY <1>3 DEF SectionEnds
  <2>. QED  BY <1>1, <2>1 DEF CfgInv, CfgTypes, OldInv, HoldsInv, ConfigStable, Standby, Outside
<1>. QED  BY <1>2, <1>3

\* A step that leaves the places, the readers and the parsed text alone.
LEMMA CfgQuiet ==
  ASSUME CfgInv, UNCHANGED <<cfg_active, cfg_place, cfg_old, cfg_reader>>, ctl'.at = "parsed" => ctl.at = "parsed"
  PROVE  CfgInv'
BY DEF CfgInv, CfgTypes, OldInv, HoldsInv, ConfigStable, Standby

\* The standby place is overwritten or freed when no old section is open: nobody reads it.
LEMMA StandbyKeeps ==
  ASSUME CfgInv, cfg_old = {}, NEW g \in Nat, cfg_place' = [cfg_place EXCEPT ![Standby] = g],
         UNCHANGED <<cfg_active, cfg_old, cfg_reader>>, ctl'.at = "parsed" => g # 0
  PROVE  CfgInv'
<1>1. Standby \in PlaceNames /\ Standby # cfg_active /\ Standby' = Standby
  BY StandbyIsOther DEF CfgInv, CfgTypes, Standby
<1>2. cfg_place' \in [PlaceNames -> Nat] /\ cfg_place'[Standby] = g /\ cfg_place'[cfg_active] = cfg_place[cfg_active]
  BY <1>1 DEF CfgInv, CfgTypes
<1>3. \A r \in CfgReaders : cfg_reader[r].in => cfg_reader[r].place = cfg_active
  BY DEF CfgInv, OldInv
<1>. QED  BY <1>1, <1>2, <1>3 DEF CfgInv, CfgTypes, OldInv, HoldsInv, ConfigStable

\* The control thread: signals, commands, the tick and the reload.
LEMMA CtlKeeps == ASSUME CfgInv, CtlStep \/ CtlTick
                  PROVE  CfgInv'
<1>0. Resting.at = "kevent"
  BY DEF Resting
<1>1. CASE HupEvent
  BY <1>1, CfgQuiet DEF HupEvent, Resting
<1>2. CASE Drain
  BY <1>2, CfgQuiet DEF Drain
<1>3. CASE Decide
  <2>1. ASSUME NEW full, NEW asked_for, Begin(full, asked_for) PROVE ctl'.at = "wait"
    BY <2>1 DEF Begin, Resting
  <2>2. (\E full, asked_for : Begin(full, asked_for)) \/ ctl' = Resting
    BY <1>3, Zenon DEF Decide
  <2>3. UNCHANGED <<cfg_active, cfg_place, cfg_old, cfg_reader>>
    BY <1>3 DEF Decide
  <2>. QED  BY <1>0, <2>1, <2>2, <2>3, CfgQuiet
<1>4. CASE ReadError
  BY <1>4, CfgQuiet DEF ReadError, Finished, Resting
<1>5. CASE Postponed
  BY <1>5, CfgQuiet DEF Postponed, Resting
<1>6. CASE Parse
  <2>1. cfg_old = {} /\ UNCHANGED <<cfg_active, cfg_old, cfg_reader>>
    BY <1>6 DEF Parse, MayOverwrite, ReadersGone
  <2>2. cfg_place[cfg_active] + 1 \in Nat /\ cfg_place[cfg_active] + 1 # 0
    BY DEF CfgInv, CfgTypes
  <2>3. \/ cfg_place' = [cfg_place EXCEPT ![Standby] = cfg_place[cfg_active] + 1]
        \/ cfg_place' = [cfg_place EXCEPT ![Standby] = 0] /\ ctl' = Resting
    BY <1>6 DEF Parse, Finished
  <2>. QED  BY <1>0, <2>1, <2>2, <2>3, StandbyKeeps
<1>7. CASE Reject
  <2>1. /\ cfg_place' = [cfg_place EXCEPT ![Standby] = 0] /\ ctl' = Resting
        /\ UNCHANGED <<cfg_active, cfg_old, cfg_reader>> /\ cfg_old = {}
    BY <1>7 DEF Reject, Finished, CfgInv, HoldsInv
  <2>. QED  BY <1>0, <2>1, StandbyKeeps, ZenonT(30)
<1>8. CASE Publish
  <2>1. /\ cfg_active' = Standby /\ cfg_old' = {r \in CfgReaders : cfg_reader[r].in}
        /\ ctl' = Resting /\ UNCHANGED <<cfg_place, cfg_reader>> /\ cfg_place[Standby] # 0
    BY <1>8 DEF Publish, Finished, CfgInv, HoldsInv
  <2>2. Standby \in PlaceNames
    BY StandbyIsOther DEF CfgInv, CfgTypes
  <2>. QED  BY <1>0, <2>1, <2>2 DEF CfgInv, CfgTypes, OldInv, HoldsInv, ConfigStable
<1>9. CASE CtlTick
  <2>1. UNCHANGED <<cfg_active, cfg_old, cfg_reader>> /\ ctl'.at # "parsed"
    BY <1>9, ZenonT(30) DEF CtlTick, Begin, Resting
  <2>2. \/ cfg_old = {} /\ cfg_place' = [cfg_place EXCEPT ![Standby] = 0]
        \/ UNCHANGED cfg_place
    BY <1>9 DEF CtlTick, config_standby_reap, ReadersGone
  <2>3. CASE cfg_old = {} /\ cfg_place' = [cfg_place EXCEPT ![Standby] = 0]
    BY <2>1, <2>3, StandbyKeeps, ZenonT(30)
  <2>4. CASE UNCHANGED cfg_place
    BY <2>1, <2>4, CfgQuiet
  <2>. QED  BY <2>2, <2>3, <2>4
<1>. QED  BY <1>1, <1>2, <1>3, <1>4, <1>5, <1>6, <1>7, <1>8, <1>9 DEF CtlStep

\* Every step of the readers, of the senders of signals and of the control thread keeps the invariant.
LEMMA CfgNextInv == CfgInv /\ [CfgNext]_cfgvars => CfgInv'
<1> SUFFICES ASSUME CfgInv, [CfgNext]_cfgvars
             PROVE  CfgInv'
  OBVIOUS
<1>1. CASE \E r \in CfgReaders : acquire_config_snapshot(r) \/ SectionEnds(r)
  BY <1>1, ReaderKeeps
<1>2. CASE \E from \in {"manager", "other"} : Sighup(from)
  BY <1>2, CfgQuiet DEF Sighup
<1>3. CASE \E kind \in {"full", "changed"} : Command(kind)
  BY <1>3, CfgQuiet DEF Command, Begin, Resting
<1>4. CASE CtlStep \/ CtlTick
  BY <1>4, CtlKeeps
<1>5. CASE UNCHANGED cfgvars
  BY <1>5, CfgQuiet DEF cfgvars
<1>. QED  BY <1>1, <1>2, <1>3, <1>4, <1>5 DEF CfgNext

\* A section keeps the configuration it began with, whatever reloads, postponed reloads, rejected texts and
\* reaps of the standby place there are meanwhile.
THEOREM ConfigIsStable == CfgSpec => []ConfigStable
<1>1. CfgInv => ConfigStable
  BY DEF CfgInv
<1>. QED  BY <1>1, CfgInitInv, CfgNextInv, PTL DEF CfgSpec

-----------------------------------------------------------------------------
(* ProgramZone *)

Queries == 1 .. PzQueries
Elems(s) == {s[i] : i \in 1 .. Len(s)}
AllDiffer(s) == \A i, j \in 1 .. Len(s) : s[i] = s[j] => i = j

\* Queries wait in the queue, in a thread and in the pipes, each at most once.
PzTypes ==
  /\ pz_next \in Nat \ {0}
  /\ pz_queue \in Seq(Queries) /\ AllDiffer(pz_queue)
  /\ pz_in \in Seq(Queries) /\ AllDiffer(pz_in)
  /\ pz_out \in Seq(Queries) /\ AllDiffer(pz_out)
  /\ pz_thread \in [IoThreads -> [at : {"idle", "waits", "reads"}, q : Nat]]
  /\ \A t \in IoThreads : pz_thread[t].at # "idle" => pz_thread[t].q \in Queries
  /\ pz_result \in [Queries -> Nat]
  /\ pz_late \in BOOLEAN

Queued == Elems(pz_queue)
Busy == {t \in IoThreads : pz_thread[t].at # "idle"}
WaitsFor == {pz_thread[t].q : t \in {u \in IoThreads : pz_thread[u].at = "waits"}}
Requests == Elems(pz_in)
Replies == Elems(pz_out)
Given == {pz_result[q] : q \in Queries}

\* A query that has not been written is in no pipe and was given to nobody; it is in one place.
ToCome == {q \in Queries : q >= pz_next}
QueryInv ==
  /\ Queued \cap ToCome = {} /\ WaitsFor \cap ToCome = {} /\ Queued \cap WaitsFor = {}
  /\ \A t \in Busy : pz_thread[t].q \notin Queued /\ pz_thread[t].q \notin ToCome
  /\ \A t, u \in Busy : pz_thread[t].q = pz_thread[u].q => t = u

Unwritten == ToCome \cup Queued \cup WaitsFor

\* A request is in one pipe at most, and its reply was given to nobody.
PipeInv ==
  /\ Requests \cap Replies = {}
  /\ (Requests \cup Replies \cup Given) \cap Unwritten = {}
  /\ (Requests \cup Replies) \cap Given = {}
  /\ \A p, q \in Queries : pz_result[p] = pz_result[q] /\ pz_result[p] \in Queries => p = q

\* The lock is the reader's.
LockInv == \A t \in IoThreads : pz_thread[t].at = "reads" => pz_lock = t

\* As long as nothing was late, what is in the pipes is the query of the thread that reads.
TimelyInv ==
  ~pz_late =>
    /\ \A x \in Requests \cup Replies : \E t \in IoThreads : pz_thread[t].at = "reads" /\ pz_thread[t].q = x
    /\ \A q \in Queries : pz_result[q] \in Queries => pz_result[q] = q

PzInv == PzTypes /\ QueryInv /\ PipeInv /\ LockInv /\ TimelyInv

\* What is appended to a sequence.
LEMMA ElemsAppend ==
  ASSUME NEW S, NEW s \in Seq(S), NEW x \in S
  PROVE  /\ Append(s, x) \in Seq(S) /\ Elems(Append(s, x)) = Elems(s) \cup {x}
         /\ AllDiffer(s) /\ x \notin Elems(s) => AllDiffer(Append(s, x))
<1>1. Append(s, x) \in Seq(S) /\ Len(Append(s, x)) = Len(s) + 1 /\ Len(s) \in Nat
  OBVIOUS
<1>2. \A i \in 1 .. Len(s) + 1 : Append(s, x)[i] = IF i <= Len(s) THEN s[i] ELSE x
  OBVIOUS
<1>3. Elems(Append(s, x)) = Elems(s) \cup {x}
  BY <1>1, <1>2 DEF Elems
<1>4. ASSUME AllDiffer(s), x \notin Elems(s) PROVE AllDiffer(Append(s, x))
  BY <1>1, <1>2, <1>4 DEF AllDiffer, Elems
<1>. QED  BY <1>1, <1>3, <1>4

\* What is taken from a sequence.
LEMMA ElemsTail ==
  ASSUME NEW S, NEW s \in Seq(S), s # <<>>, AllDiffer(s)
  PROVE  /\ Head(s) \in S /\ Head(s) \in Elems(s) /\ Tail(s) \in Seq(S)
         /\ Elems(Tail(s)) = Elems(s) \ {Head(s)} /\ AllDiffer(Tail(s))
<1>1. /\ Len(s) \in Nat \ {0} /\ Head(s) = s[1] /\ Head(s) \in S /\ Tail(s) \in Seq(S) /\ Len(Tail(s)) = Len(s) - 1
      /\ \A i \in 1 .. Len(s) - 1 : Tail(s)[i] = s[i + 1]
  OBVIOUS
<1>2. Head(s) \in Elems(s)
  BY <1>1 DEF Elems
<1>3. AllDiffer(Tail(s))
  BY <1>1 DEF AllDiffer
<1>4. Elems(Tail(s)) \subseteq Elems(s) \ {Head(s)}
  BY <1>1 DEF Elems, AllDiffer
<1>5. ASSUME NEW y \in Elems(s), y # Head(s) PROVE y \in Elems(Tail(s))
  <2>1. PICK i \in 1 .. Len(s) : y = s[i]
    BY DEF Elems
  <2>2. i - 1 \in 1 .. Len(Tail(s)) /\ Tail(s)[i - 1] = y
    BY <1>1, <1>5, <2>1
  <2>. QED  BY <2>2, ZenonT(30) DEF Elems
<1>. QED  BY <1>1, <1>2, <1>3, <1>4, <1>5

\* The elements of a sequence are of its type.
LEMMA ElemsType == ASSUME NEW S, NEW s \in Seq(S) PROVE Elems(s) \subseteq S
BY DEF Elems

\* Nothing is queued and nobody is busy.
LEMMA PzInitInv == PzInit => PzInv
<1> SUFFICES ASSUME PzInit
             PROVE  PzInv
  OBVIOUS
<1>1. /\ Queued = {} /\ Requests = {} /\ Replies = {}
      /\ \A t \in IoThreads : pz_thread[t].at = "idle"
  BY DEF PzInit, Queued, Requests, Replies, Elems, NothingToDo
<1>2. Busy = {} /\ WaitsFor = {}
  BY <1>1 DEF Busy, WaitsFor
<1>3. \A x \in Given : x = 0
  BY DEF PzInit, Given, Queries
<1>4. Given \cap Queries = {} /\ ToCome \subseteq Queries
  BY <1>3 DEF Queries, ToCome
<1>5. PzTypes
  <2>1. <<>> \in Seq(Queries) /\ AllDiffer(<<>>)
    BY DEF AllDiffer
  <2>2. NothingToDo \in [at : {"idle", "waits", "reads"}, q : Nat]
    BY DEF NothingToDo
  <2>3. pz_thread \in [IoThreads -> [at : {"idle", "waits", "reads"}, q : Nat]] /\ pz_result \in [Queries -> Nat]
    BY <2>2 DEF PzInit, Queries
  <2>4. pz_next \in Nat \ {0}
    BY DEF PzInit
  <2>5. pz_late \in BOOLEAN
    BY Zenon DEF PzInit
  <2>. QED  BY <1>1, <2>1, <2>3, <2>4, <2>5, Zenon DEF PzInit, PzTypes
<1>6. QueryInv /\ LockInv
  BY <1>1, <1>2 DEF QueryInv, LockInv
<1>7. PipeInv
  BY <1>1, <1>2, <1>4 DEF PipeInv, Unwritten, Given
<1>8. TimelyInv
  BY <1>1, <1>4 DEF TimelyInv, Given
<1>. QED  BY <1>5, <1>6, <1>7, <1>8 DEF PzInv

\* What is not written yet is a query.
LEMMA UnwrittenType == ASSUME PzTypes PROVE Unwritten \subseteq Queries
<1>1. Queued \subseteq Queries
  BY ElemsType DEF PzTypes, Queued
<1>2. WaitsFor \subseteq Queries /\ ToCome \subseteq Queries
  BY DEF PzTypes, WaitsFor, ToCome
<1>. QED  BY <1>1, <1>2 DEF Unwritten

\* A client gets no reply of the program: what is known of the replies stays.
LEMMA ServfailKeeps ==
  ASSUME PzInv, NEW x \in Queries, NEW r, r \notin Queries, pz_result'[x] = r,
         \A q \in Queries \ {x} : pz_result'[q] = pz_result[q],
         Requests' = Requests, Replies' = Replies, Unwritten' \subseteq Unwritten
  PROVE  PipeInv'
<1>1. \A y \in Given' : y \in Given \/ y = r
  BY DEF Given
<1>2. Requests \subseteq Queries /\ Replies \subseteq Queries /\ Unwritten \subseteq Queries
  BY ElemsType, UnwrittenType DEF PzInv, PzTypes, Requests, Replies
<1>3. (Requests' \cup Replies' \cup Given') \cap Unwritten' = {} /\ (Requests' \cup Replies') \cap Given' = {}
  BY <1>1, <1>2 DEF PzInv, PipeInv
<1>4. \A p, q \in Queries : pz_result'[p] = pz_result'[q] /\ pz_result'[p] \in Queries => p = q
  BY DEF PzInv, PipeInv
<1>. QED  BY <1>3, <1>4 DEF PzInv, PipeInv

\* The thread that read is done; the pipes and the results are looked at elsewhere.
LEMMA RestKeeps ==
  ASSUME PzInv, NEW t \in IoThreads, pz_thread[t].at = "reads", pz_thread' = [pz_thread EXCEPT ![t] = NothingToDo],
         UNCHANGED <<pz_queue, pz_next, pz_in>>, pz_out' \in Seq(Queries), AllDiffer(pz_out'),
         pz_result' \in [Queries -> Nat], pz_late' \in BOOLEAN
  PROVE  /\ PzTypes' /\ QueryInv' /\ LockInv'
         /\ Unwritten' = Unwritten /\ \A u \in IoThreads \ {t} : pz_thread'[u] = pz_thread[u]
<1>1. /\ pz_thread' \in [IoThreads -> [at : {"idle", "waits", "reads"}, q : Nat]]
      /\ pz_thread'[t].at = "idle" /\ \A u \in IoThreads \ {t} : pz_thread'[u] = pz_thread[u]
  BY DEF PzInv, PzTypes, NothingToDo
<1>2. Queued' = Queued /\ ToCome' = ToCome
  BY DEF Queued, ToCome, Elems
<1>3. WaitsFor' = WaitsFor
  BY <1>1 DEF WaitsFor
<1>4. Busy' \subseteq Busy /\ \A u \in Busy' : pz_thread'[u] = pz_thread[u]
  BY <1>1 DEF Busy
<1>5. PzTypes'
  BY <1>1 DEF PzInv, PzTypes
<1>6. QueryInv'
  BY <1>2, <1>3, <1>4 DEF PzInv, QueryInv
<1>7. \A u \in IoThreads : pz_thread'[u].at # "reads"
  BY <1>1 DEF PzInv, LockInv
<1>8. LockInv'
  BY <1>7 DEF LockInv
<1>9. Unwritten' = Unwritten
  BY <1>2, <1>3 DEF Unwritten
<1>. QED  BY <1>1, <1>5, <1>6, <1>8, <1>9

\* A query arrives: it is queued, or dropped when the queue is full.
LEMMA EnqueueKeeps == ASSUME PzInv, enqueue_async_io_task
                      PROVE  PzInv'
<1>1. /\ pz_next \in Queries /\ pz_next \in Nat /\ pz_next' = pz_next + 1
      /\ UNCHANGED <<pz_thread, pz_lock, pz_in, pz_out, pz_late>>
  BY PzAssumption DEF enqueue_async_io_task, PzInv, PzTypes, Queries
<1>2. pz_next \in ToCome /\ ToCome' = ToCome \ {pz_next}
  BY <1>1 DEF ToCome, Queries
<1>3. Requests' = Requests /\ Replies' = Replies /\ Busy' = Busy /\ WaitsFor' = WaitsFor
  BY <1>1 DEF Requests, Replies, Busy, WaitsFor, Elems
<1>4. CASE pz_result' = [pz_result EXCEPT ![pz_next] = DROPPED] /\ UNCHANGED pz_queue
  <2>1. Queued' = Queued /\ DROPPED \in Nat /\ DROPPED \notin Queries
    BY <1>4, PzAssumption DEF Queued, Elems, DROPPED, Queries
  <2>2. /\ pz_result' \in [Queries -> Nat] /\ pz_result'[pz_next] = DROPPED
        /\ \A q \in Queries \ {pz_next} : pz_result'[q] = pz_result[q]
    BY <1>1, <1>4, <2>1 DEF PzInv, PzTypes
  <2>4. PzTypes'
    BY <1>1, <1>4, <2>2 DEF PzInv, PzTypes
  <2>5. QueryInv'
    BY <1>1, <1>2, <1>3, <2>1 DEF PzInv, QueryInv
  <2>6. PipeInv'
    <3>1. Unwritten' \subseteq Unwritten
      BY <1>2, <1>3, <2>1 DEF Unwritten
    <3>. QED  BY <1>1, <1>3, <2>1, <2>2, <3>1, ServfailKeeps
  <2>7. LockInv' /\ TimelyInv'
    BY <1>1, <1>3, <2>1, <2>2 DEF PzInv, LockInv, TimelyInv
  <2>. QED  BY <2>4, <2>5, <2>6, <2>7 DEF PzInv
<1>5. CASE pz_queue' = Append(pz_queue, pz_next) /\ UNCHANGED pz_result
  <2>1. Queued \cap ToCome = {}
    BY DEF PzInv, QueryInv
  <2>2. pz_queue' \in Seq(Queries) /\ AllDiffer(pz_queue') /\ Queued' = Queued \cup {pz_next}
    BY <1>1, <1>2, <1>5, <2>1, ElemsAppend DEF PzInv, PzTypes, Queued
  <2>3. Given' = Given
    BY <1>5 DEF Given
  <2>4. PzTypes'
    BY <1>1, <1>5, <2>2 DEF PzInv, PzTypes
  <2>5. QueryInv'
    BY <1>1, <1>2, <1>3, <2>2 DEF PzInv, QueryInv
  <2>6. PipeInv'
    <3>1. Unwritten' = Unwritten
      BY <1>2, <1>3, <2>2 DEF Unwritten
    <3>. QED  BY <1>3, <1>5, <2>3, <3>1 DEF PzInv, PipeInv
  <2>7. LockInv' /\ TimelyInv'
    BY <1>1, <1>3, <1>5 DEF PzInv, LockInv, TimelyInv
  <2>. QED  BY <2>4, <2>5, <2>6, <2>7 DEF PzInv
<1>. QED  BY <1>4, <1>5 DEF enqueue_async_io_task, Ends

\* A thread takes a task: it waits for the program, or answers at once when the program was given up.
LEMMA TaskKeeps == ASSUME PzInv, NEW t \in IoThreads, async_io_worker_func(t)
                   PROVE  PzInv'
<1>1. /\ pz_thread[t].at = "idle" /\ pz_queue # <<>> /\ pz_queue' = Tail(pz_queue)
      /\ UNCHANGED <<pz_next, pz_lock, pz_in, pz_out, pz_late>>
  BY DEF async_io_worker_func
<1> DEFINE h == Head(pz_queue)
<1>2. PICK x : x = h
  OBVIOUS
<1>3. x \in Queries /\ x \in Queued /\ pz_queue' \in Seq(Queries) /\ AllDiffer(pz_queue') /\ Queued' = Queued \ {x}
  BY <1>1, <1>2, ElemsTail DEF PzInv, PzTypes, Queued
<1>4. Requests' = Requests /\ Replies' = Replies /\ ToCome' = ToCome
  BY <1>1 DEF Requests, Replies, ToCome, Elems
<1>5. x \notin ToCome /\ x \notin WaitsFor /\ \A u \in Busy : pz_thread[u].q # x
  BY <1>3 DEF PzInv, QueryInv
<1>6. CASE pz_result' = [pz_result EXCEPT ![x] = SERVFAIL] /\ UNCHANGED pz_thread
  <2>1. SERVFAIL \in Nat /\ SERVFAIL \notin Queries
    BY PzAssumption DEF SERVFAIL, Queries
  <2>2. /\ pz_result' \in [Queries -> Nat] /\ pz_result'[x] = SERVFAIL
        /\ \A q \in Queries \ {x} : pz_result'[q] = pz_result[q]
    BY <1>3, <1>6, <2>1 DEF PzInv, PzTypes
  <2>3. Busy' = Busy /\ WaitsFor' = WaitsFor
    BY <1>6 DEF Busy, WaitsFor
  <2>4. PzTypes'
    BY <1>1, <1>3, <1>6, <2>2 DEF PzInv, PzTypes
  <2>5. QueryInv'
    BY <1>3, <1>4, <1>6, <2>3 DEF PzInv, QueryInv
  <2>6. Unwritten' \subseteq Unwritten
    BY <1>3, <1>4, <2>3 DEF Unwritten
  <2>7. PipeInv'
    BY <1>3, <1>4, <2>1, <2>2, <2>6, ServfailKeeps
  <2>8. LockInv' /\ TimelyInv'
    BY <1>1, <1>4, <1>6, <2>1, <2>2 DEF PzInv, LockInv, TimelyInv
  <2>. QED  BY <2>4, <2>5, <2>7, <2>8 DEF PzInv
<1>7. CASE pz_thread' = [pz_thread EXCEPT ![t] = Waiting(x)] /\ UNCHANGED pz_result
  <2>1. /\ pz_thread' \in [IoThreads -> [at : {"idle", "waits", "reads"}, q : Nat]]
        /\ pz_thread'[t].at = "waits" /\ pz_thread'[t].q = x
        /\ \A u \in IoThreads \ {t} : pz_thread'[u] = pz_thread[u]
    BY <1>3, <1>7 DEF PzInv, PzTypes, Waiting, Queries
  <2>2. Busy' = Busy \cup {t} /\ t \notin Busy
    BY <1>1, <2>1 DEF Busy
  <2>3. WaitsFor' = WaitsFor \cup {x}
    <3>1. \A y \in WaitsFor' : y \in WaitsFor \/ y = x
      BY <2>1 DEF WaitsFor
    <3>2. x \in WaitsFor'
      BY <2>1 DEF WaitsFor
    <3>3. \A y \in WaitsFor : y \in WaitsFor'
      BY <1>1, <2>1 DEF WaitsFor
    <3>. QED  BY <3>1, <3>2, <3>3
  <2>4. Given' = Given
    BY <1>7 DEF Given
  <2>5. PzTypes'
    BY <1>1, <1>3, <1>7, <2>1 DEF PzInv, PzTypes
  <2>6. QueryInv'
    <3>1. \A u \in Busy' : u = t \/ (u \in Busy /\ pz_thread'[u] = pz_thread[u])
      <4>1. Busy \subseteq IoThreads
        BY DEF Busy
      <4>2. \A u \in Busy : u # t /\ pz_thread'[u] = pz_thread[u]
        BY <2>1, <2>2, <4>1, Zenon
      <4>. QED  BY <2>2, <4>2
    <3>2. \A u \in Busy' : pz_thread'[u].q \notin Queued' /\ pz_thread'[u].q \notin ToCome'
      BY <1>3, <1>4, <1>5, <2>1, <3>1 DEF PzInv, QueryInv
    <3>3. \A u, v \in Busy' : pz_thread'[u].q = pz_thread'[v].q => u = v
      BY <1>5, <2>1, <3>1 DEF PzInv, QueryInv
    <3>4. Queued' \cap ToCome' = {} /\ WaitsFor' \cap ToCome' = {} /\ Queued' \cap WaitsFor' = {}
      BY <1>3, <1>4, <1>5, <2>3 DEF PzInv, QueryInv
    <3>. QED  BY <3>2, <3>3, <3>4 DEF QueryInv
  <2>7. PipeInv'
    <3>1. Unwritten' = Unwritten
      BY <1>3, <1>4, <2>3 DEF Unwritten
    <3>. QED  BY <1>4, <1>7, <2>4, <3>1 DEF PzInv, PipeInv
  <2>8. LockInv'
    BY <1>1, <2>1 DEF PzInv, LockInv
  <2>9. TimelyInv'
    <3>1. \A u \in IoThreads : pz_thread[u].at = "reads" => pz_thread'[u] = pz_thread[u]
      BY <1>1, <2>1
    <3>. QED  BY <1>1, <1>4, <1>7, <3>1 DEF PzInv, TimelyInv
  <2>. QED  BY <2>5, <2>6, <2>7, <2>8, <2>9 DEF PzInv
<1>. QED  BY <1>2, <1>6, <1>7 DEF async_io_worker_func, Ends

\* A thread gets the lock and writes its request; when the process is gone the request is lost.
LEMMA WriteKeeps == ASSUME PzInv, NEW t \in IoThreads, WriteRequest(t)
                    PROVE  PzInv'
<1>1. /\ pz_thread[t].at = "waits" /\ pz_lock = NoThread /\ pz_lock' = t
      /\ pz_thread' = [pz_thread EXCEPT ![t].at = "reads"]
      /\ UNCHANGED <<pz_queue, pz_next, pz_out, pz_result, pz_late>>
  BY DEF WriteRequest
<1>2. PICK x : x = pz_thread[t].q
  OBVIOUS
<1>3. /\ pz_thread' \in [IoThreads -> [at : {"idle", "waits", "reads"}, q : Nat]]
      /\ pz_thread'[t].at = "reads" /\ pz_thread'[t].q = x
      /\ \A u \in IoThreads \ {t} : pz_thread'[u] = pz_thread[u]
  BY <1>1, <1>2, SMTT(30) DEF PzInv, PzTypes
<1>4. x \in Queries /\ x \in WaitsFor /\ t \in Busy
  BY <1>1, <1>2 DEF PzInv, PzTypes, WaitsFor, Busy
<1>5. \A u \in IoThreads : pz_thread[u].at # "reads"
  BY <1>1, PzAssumption DEF PzInv, LockInv
<1>6. Queued' = Queued /\ Replies' = Replies /\ ToCome' = ToCome /\ Given' = Given /\ Busy' = Busy
  BY <1>1, <1>3 DEF Queued, Replies, ToCome, Given, Busy, Elems
<1>7. WaitsFor' = WaitsFor \ {x}
  <2>1. \A y \in WaitsFor' : y \in WaitsFor /\ y # x
    <3> SUFFICES ASSUME NEW y \in WaitsFor' PROVE y \in WaitsFor /\ y # x
      OBVIOUS
    <3>1. PICK u \in IoThreads : pz_thread'[u].at = "waits" /\ y = pz_thread'[u].q
      BY DEF WaitsFor
    <3>2. u # t /\ pz_thread'[u] = pz_thread[u]
      BY <1>3, <3>1
    <3>3. u \in Busy
      BY <3>1, <3>2 DEF Busy
    <3>. QED  BY <1>2, <1>4, <3>1, <3>2, <3>3 DEF PzInv, QueryInv, WaitsFor
  <2>2. \A y \in WaitsFor : y # x => y \in WaitsFor'
    <3> SUFFICES ASSUME NEW y \in WaitsFor, y # x PROVE y \in WaitsFor'
      OBVIOUS
    <3>1. PICK u \in IoThreads : pz_thread[u].at = "waits" /\ y = pz_thread[u].q
      BY DEF WaitsFor
    <3>2. pz_thread'[u] = pz_thread[u]
      BY <1>2, <1>3, <3>1
    <3>. QED  BY <3>1, <3>2 DEF WaitsFor
  <2>. QED  BY <2>1, <2>2
<1>8. x \notin Requests /\ x \notin Replies /\ x \notin Given /\ x \notin ToCome /\ x \notin Queued
  BY <1>4 DEF PzInv, QueryInv, PipeInv, Unwritten
<1>9. pz_in' \in Seq(Queries) /\ AllDiffer(pz_in') /\ Requests' \subseteq Requests \cup {x}
  <2>1. CASE pz_in' = Append(pz_in, x)
    BY <1>4, <1>8, <2>1, ElemsAppend DEF PzInv, PzTypes, Requests
  <2>2. CASE pz_in' = pz_in
    BY <2>2 DEF PzInv, PzTypes, Requests, Elems
  <2>. QED  BY <1>2, <2>1, <2>2 DEF WriteRequest
<1>10. PzTypes'
  <2>1. \A u \in IoThreads : pz_thread'[u].at # "idle" => pz_thread'[u].q \in Queries
    BY <1>3, <1>4, ZenonT(30) DEF PzInv, PzTypes
  <2>. QED  BY <1>1, <1>3, <1>9, <2>1 DEF PzInv, PzTypes
<1>11. QueryInv'
  <2>1. \A u \in IoThreads : pz_thread'[u].q = pz_thread[u].q
    BY <1>2, <1>3
  <2>2. Busy \subseteq IoThreads
    BY DEF Busy
  <2>. QED  BY <1>6, <1>7, <2>1, <2>2 DEF PzInv, QueryInv
<1>12. PipeInv'
  <2>1. Unwritten' = Unwritten \ {x}
    BY <1>6, <1>7, <1>8 DEF Unwritten
  <2>. QED  BY <1>1, <1>6, <1>8, <1>9, <2>1 DEF PzInv, PipeInv
<1>13. LockInv'
  BY <1>1, <1>3, <1>5 DEF LockInv
<1>14. TimelyInv'
  <2>1. ~pz_late => Requests = {} /\ Replies = {}
    BY <1>5 DEF PzInv, TimelyInv
  <2>. QED  BY <1>1, <1>3, <1>6, <1>9, <2>1 DEF PzInv, TimelyInv
<1>. QED  BY <1>10, <1>11, <1>12, <1>13, <1>14 DEF PzInv

\* A reply is read: the client of the thread gets what came out of the pipe next.
LEMMA ReadKeeps == ASSUME PzInv, NEW t \in IoThreads, ReadReply(t)
                   PROVE  PzInv'
<1>1. /\ pz_thread[t].at = "reads" /\ pz_out # <<>> /\ pz_out' = Tail(pz_out)
      /\ pz_thread' = [pz_thread EXCEPT ![t] = NothingToDo] /\ pz_lock' = NoThread
      /\ UNCHANGED <<pz_queue, pz_next, pz_in, pz_late>>
  BY DEF ReadReply
<1>2. PICK x, y : x = pz_thread[t].q /\ y = Head(pz_out)
  OBVIOUS
<1>3. pz_result' = [pz_result EXCEPT ![x] = y]
  BY <1>2 DEF ReadReply, Ends
<1>4. y \in Queries /\ y \in Replies /\ pz_out' \in Seq(Queries) /\ AllDiffer(pz_out') /\ Replies' = Replies \ {y}
  BY <1>1, <1>2, ElemsTail DEF PzInv, PzTypes, Replies
<1>5. x \in Queries
  BY <1>1, <1>2 DEF PzInv, PzTypes
<1>6. /\ pz_result' \in [Queries -> Nat] /\ pz_result'[x] = y
      /\ \A q \in Queries \ {x} : pz_result'[q] = pz_result[q]
  BY <1>3, <1>4, <1>5 DEF PzInv, PzTypes, Queries
<1>7. /\ PzTypes' /\ QueryInv' /\ LockInv'
      /\ Unwritten' = Unwritten /\ \A u \in IoThreads \ {t} : pz_thread'[u] = pz_thread[u]
  BY <1>1, <1>4, <1>6, RestKeeps, ZenonT(30) DEF PzInv, PzTypes
<1>8. Requests' = Requests
  BY <1>1 DEF Requests, Elems
<1>9. y \notin Given /\ y \notin Requests /\ y \notin Unwritten
  BY <1>4 DEF PzInv, PipeInv
<1>10. PipeInv'
  <2>1. \A z \in Given' : z \in Given \/ z = y
    BY <1>6 DEF Given
  <2>2. (Requests' \cup Replies' \cup Given') \cap Unwritten' = {} /\ (Requests' \cup Replies') \cap Given' = {}
    BY <1>4, <1>7, <1>8, <1>9, <2>1 DEF PzInv, PipeInv
  <2>3. \A q \in Queries : pz_result[q] # y
    BY <1>9 DEF Given
  <2>4. \A p, q \in Queries : pz_result'[p] = pz_result'[q] /\ pz_result'[p] \in Queries => p = q
    BY <1>6, <2>3 DEF PzInv, PipeInv
  <2>. QED  BY <1>4, <1>8, <2>2, <2>4 DEF PzInv, PipeInv
<1>11. TimelyInv'
  <2>1. \A u \in IoThreads : pz_thread[u].at = "reads" => u = t
    BY <1>1 DEF PzInv, LockInv
  <2>2. ~pz_late => \A z \in Requests \cup Replies : z = x
    BY <1>2, <2>1 DEF PzInv, TimelyInv
  <2>3. ~pz_late => y = x /\ Requests' \cup Replies' = {}
    BY <1>4, <1>8, <1>9, <2>2
  <2>. QED  BY <1>1, <1>6, <2>3 DEF PzInv, TimelyInv
<1>. QED  BY <1>7, <1>10, <1>11 DEF PzInv

\* The deadline passed or the pipe is broken.
LEMMA FailsKeeps == ASSUME PzInv, NEW t \in IoThreads, ExchangeFails(t)
                    PROVE  PzInv'
<1>1. /\ pz_thread[t].at = "reads" /\ pz_late'
      /\ pz_thread' = [pz_thread EXCEPT ![t] = NothingToDo] /\ pz_lock' = NoThread
      /\ pz_result' = [pz_result EXCEPT ![pz_thread[t].q] = SERVFAIL]
      /\ UNCHANGED <<pz_queue, pz_next, pz_in, pz_out>>
  BY DEF ExchangeFails, Ends
<1>2. PICK x : x = pz_thread[t].q
  OBVIOUS
<1>3. x \in Queries /\ SERVFAIL \in Nat /\ SERVFAIL \notin Queries
  BY <1>1, <1>2, PzAssumption DEF PzInv, PzTypes, SERVFAIL, Queries
<1>4. /\ pz_result' \in [Queries -> Nat] /\ pz_result'[x] = SERVFAIL
      /\ \A q \in Queries \ {x} : pz_result'[q] = pz_result[q]
  BY <1>1, <1>2, <1>3 DEF PzInv, PzTypes
<1>5. /\ PzTypes' /\ QueryInv' /\ LockInv' /\ Unwritten' = Unwritten
  BY <1>1, <1>4, RestKeeps, ZenonT(30) DEF PzInv, PzTypes
<1>6. Requests' = Requests /\ Replies' = Replies
  BY <1>1 DEF Requests, Replies, Elems
<1>7. PipeInv'
  BY <1>3, <1>4, <1>5, <1>6, ServfailKeeps
<1>8. TimelyInv'
  BY <1>1 DEF TimelyInv
<1>. QED  BY <1>5, <1>7, <1>8 DEF PzInv

\* The program takes a request and writes its reply.
LEMMA AnswersKeeps == ASSUME PzInv, ProgramAnswers
                      PROVE  PzInv'
<1>1. /\ pz_in # <<>> /\ pz_in' = Tail(pz_in)
      /\ UNCHANGED <<pz_queue, pz_next, pz_thread, pz_lock, pz_result, pz_late>>
  BY DEF ProgramAnswers
<1>2. PICK x : x = Head(pz_in)
  OBVIOUS
<1>3. x \in Queries /\ x \in Requests /\ pz_in' \in Seq(Queries) /\ AllDiffer(pz_in') /\ Requests' = Requests \ {x}
  BY <1>1, <1>2, ElemsTail DEF PzInv, PzTypes, Requests
<1>4. x \notin Replies
  BY <1>3 DEF PzInv, PipeInv
<1>5. pz_out' = Append(pz_out, x)
  BY <1>2 DEF ProgramAnswers
<1>6. pz_out' \in Seq(Queries) /\ AllDiffer(pz_out') /\ Replies' = Replies \cup {x}
  BY <1>3, <1>4, <1>5, ElemsAppend DEF PzInv, PzTypes, Replies
<1>7. Queued' = Queued /\ ToCome' = ToCome /\ WaitsFor' = WaitsFor /\ Busy' = Busy /\ Given' = Given
  BY <1>1 DEF Queued, ToCome, WaitsFor, Busy, Given, Elems
<1>8. PzTypes'
  BY <1>1, <1>3, <1>6 DEF PzInv, PzTypes
<1>9. QueryInv' /\ LockInv'
  BY <1>1, <1>7 DEF PzInv, QueryInv, LockInv
<1>10. PipeInv'
  <2>1. Unwritten' = Unwritten
    BY <1>7 DEF Unwritten
  <2>. QED  BY <1>1, <1>3, <1>4, <1>6, <1>7, <2>1 DEF PzInv, PipeInv
<1>11. TimelyInv'
  BY <1>1, <1>3, <1>6 DEF PzInv, TimelyInv
<1>. QED  BY <1>8, <1>9, <1>10, <1>11 DEF PzInv

\* Every step of the pool, of the clients and of the program keeps the invariant.
LEMMA PzNextInv == PzInv /\ [PzNext]_pzvars => PzInv'
<1> SUFFICES ASSUME PzInv, [PzNext]_pzvars
             PROVE  PzInv'
  OBVIOUS
<1>1. CASE PzNext
  BY <1>1, EnqueueKeeps, AnswersKeeps, TaskKeeps, WriteKeeps, ReadKeeps, FailsKeeps, Zenon DEF PzNext
<1>2. CASE UNCHANGED pzvars
  <2>1. UNCHANGED <<Queued, Busy, WaitsFor, Requests, Replies, Given, ToCome>>
    BY <1>2 DEF pzvars, Queued, Busy, WaitsFor, Requests, Replies, Given, ToCome, Elems
  <2>2. PzTypes' /\ LockInv'
    BY <1>2 DEF pzvars, PzInv, PzTypes, LockInv
  <2>3. QueryInv' /\ PipeInv'
    BY <1>2, <2>1 DEF pzvars, PzInv, QueryInv, PipeInv, Unwritten
  <2>4. TimelyInv'
    BY <1>2, <2>1 DEF pzvars, PzInv, TimelyInv
  <2>. QED  BY <2>2, <2>3, <2>4 DEF PzInv
<1>. QED  BY <1>1, <1>2

\* No reply of the program goes to two clients, and as long as every exchange ended in time each client gets the
\* reply to its own query, although a reply does not name its query.
THEOREM PipesInOrder == PzSpec => []PipeInOrder
<1>1. PzInv => PipeInOrder
  BY DEF PzInv, PipeInv, TimelyInv, PipeInOrder, Queries
<1>. QED  BY <1>1, PzInitInv, PzNextInv, PTL DEF PzSpec

-----------------------------------------------------------------------------
(* NotifyTable *)

Notes(n) ==
  [used : {TRUE}, id : 1 .. n, key : NKeys, tcp : BOOLEAN, tries : Nat \ {0}, sends : 0 .. MaxSends, wait : Nat]
Jobs(n) == [id : 1 .. n, tries : Nat \ {0}]

TabInv(tab, n) ==
  /\ tab \in [Slots -> Notes(n) \cup {Unused}]
  /\ \A i, j \in Slots : tab[i].used /\ tab[j].used /\ i # j => tab[i].key # tab[j].key /\ tab[i].id # tab[j].id

\* An exchange over TCP is of one NOTIFY, which is not in the table any more.
JobInv(tab, act, jobs, n) ==
  /\ jobs \subseteq Jobs(n) /\ IsFiniteSet(jobs)
  /\ act = Cardinality(jobs) /\ act <= TcpMax
  /\ \A j, k \in jobs : j.id = k.id => j = k
  /\ \A j \in jobs : \A i \in Slots : tab[i].used => tab[i].id # j.id

Sound(tab, act, jobs, n) == TabInv(tab, n) /\ JobInv(tab, act, jobs, n)

NtInv == nid \in Nat /\ Sound(ntab, tcp_active, tcp_jobs, nid)

\* The working state of a call.
Shaped(s) == s = [tab |-> s.tab, rl |-> s.rl, act |-> s.act, jobs |-> s.jobs, asked |-> s.asked]
Good(s, n) == Shaped(s) /\ Sound(s.tab, s.act, s.jobs, n)

-----------------------------------------------------------------------------
(* The table and the exchanges *)

\* A place is emptied.
LEMMA EmptyKeeps ==
  ASSUME NEW n \in Nat, NEW s, Good(s, n), NEW i \in Slots
  PROVE  Good([s EXCEPT !.tab[i] = Unused], n)
<1> DEFINE t == [s EXCEPT !.tab[i] = Unused]
<1>1. Shaped(t) /\ t.tab = [s.tab EXCEPT ![i] = Unused] /\ t.act = s.act /\ t.jobs = s.jobs
  BY DEF Good, Shaped
<1>2. ~Unused.used
  BY DEF Unused
<1>3. t.tab[i] = Unused /\ \A j \in Slots \ {i} : t.tab[j] = s.tab[j]
  BY <1>1 DEF Good, Sound, TabInv
<1>4. t.tab \in [Slots -> Notes(n) \cup {Unused}]
  BY <1>1, SMTT(30) DEF Good, Sound, TabInv
<1> HIDE DEF t
<1>5. TabInv(t.tab, n)
  BY <1>2, <1>3, <1>4, SMTT(30) DEF Good, Sound, TabInv
<1>6. JobInv(t.tab, t.act, t.jobs, n)
  BY <1>1, <1>2, <1>3 DEF Good, Sound, JobInv
<1>. QED  BY <1>1, <1>5, <1>6 DEF Good, Sound, t

\* A NOTIFY is written into a place: no other place has its key or its id, and no exchange its id.
LEMMA PutKeeps ==
  ASSUME NEW n \in Nat, NEW s, Good(s, n), NEW i \in Slots, NEW p \in Notes(n),
         \A j \in Slots \ {i} : s.tab[j].used => s.tab[j].key # p.key /\ s.tab[j].id # p.id,
         \A j \in s.jobs : j.id # p.id
  PROVE  Good([s EXCEPT !.tab[i] = p], n)
<1> DEFINE t == [s EXCEPT !.tab[i] = p]
<1>1. Shaped(t) /\ t.tab = [s.tab EXCEPT ![i] = p] /\ t.act = s.act /\ t.jobs = s.jobs
  BY DEF Good, Shaped
<1>2. t.tab[i] = p /\ \A j \in Slots \ {i} : t.tab[j] = s.tab[j]
  BY <1>1 DEF Good, Sound, TabInv
<1>3. t.tab \in [Slots -> Notes(n) \cup {Unused}]
  BY <1>1, SMTT(30) DEF Good, Sound, TabInv
<1> HIDE DEF t
<1>4. TabInv(t.tab, n)
  BY <1>2, <1>3, SMTT(30) DEF Good, Sound, TabInv
<1>5. JobInv(t.tab, t.act, t.jobs, n)
  BY <1>1, <1>2 DEF Good, Sound, JobInv
<1>. QED  BY <1>1, <1>4, <1>5 DEF Good, Sound, t

\* The NOTIFY of a place is changed, and stays the same one.
LEMMA ChangeKeeps ==
  ASSUME NEW n \in Nat, NEW s, Good(s, n), NEW i \in Slots, s.tab[i].used, NEW p \in Notes(n),
         p.key = s.tab[i].key, p.id = s.tab[i].id
  PROVE  Good([s EXCEPT !.tab[i] = p], n)
<1>1. \A j \in Slots \ {i} : s.tab[j].used => s.tab[j].key # p.key /\ s.tab[j].id # p.id
  BY SMTT(30) DEF Good, Sound, TabInv
<1>2. \A j \in s.jobs : j.id # p.id
  BY SMTT(30) DEF Good, Sound, JobInv
<1>. QED  BY <1>1, <1>2, PutKeeps, SMTT(30)

\* An exchange begins: there is room for it, and its NOTIFY is neither in the table nor in another exchange.
LEMMA StartKeeps ==
  ASSUME NEW n \in Nat, NEW s, Good(s, n), NEW p \in Notes(n), NEW fails \in BOOLEAN, TcpRoom(s),
         \A j \in Slots : s.tab[j].used => s.tab[j].id # p.id,
         \A j \in s.jobs : j.id # p.id
  PROVE  Good(notify_tcp_start(s, p, fails), n)
<1>1. CASE fails
  BY <1>1 DEF notify_tcp_start
<1>2. CASE ~fails
  <2> DEFINE job == [id |-> p.id, tries |-> p.tries]
             t == [tab |-> s.tab, rl |-> s.rl, act |-> s.act + 1, jobs |-> s.jobs \cup {job}, asked |-> s.asked]
  <2>1. notify_tcp_start(s, p, fails) = t
    BY <1>2, ZenonT(30) DEF notify_tcp_start, Good, Shaped
  <2>2. job \in Jobs(n) /\ job.id = p.id
    BY DEF Notes, Jobs
  <2>3. job \notin s.jobs
    BY <2>2
  <2>4. IsFiniteSet(s.jobs) /\ s.act = Cardinality(s.jobs) /\ s.jobs \subseteq Jobs(n)
    BY DEF Good, Sound, JobInv
  <2>5. IsFiniteSet(s.jobs \cup {job}) /\ Cardinality(s.jobs \cup {job}) = s.act + 1
    BY <2>3, <2>4, FS_AddElement, SMTT(30)
  <2>6. s.act + 1 <= TcpMax
    BY <2>4, FS_CardinalityType, NtAssumption DEF TcpRoom
  <2>7. \A j, k \in s.jobs \cup {job} : j.id = k.id => j = k
    BY <2>2, SMTT(30) DEF Good, Sound, JobInv
  <2>8. \A j \in s.jobs \cup {job} : \A i \in Slots : s.tab[i].used => s.tab[i].id # j.id
    BY <2>2 DEF Good, Sound, JobInv
  <2> HIDE DEF job
  <2>9. JobInv(s.tab, s.act + 1, s.jobs \cup {job}, n)
    BY <2>2, <2>4, <2>5, <2>6, <2>7, <2>8, ZenonT(40) DEF JobInv
  <2>10. Shaped(t) /\ t.tab = s.tab /\ t.act = s.act + 1 /\ t.jobs = s.jobs \cup {job}
    BY DEF Shaped
  <2>. QED  BY <2>1, <2>9, <2>10, Zenon DEF Good, Sound
<1>. QED  BY <1>1, <1>2

\* What is asked and the messages of this second say nothing about the table.
LEMMA BesideKeeps ==
  ASSUME NEW n \in Nat, NEW s, Good(s, n), NEW r, NEW p
  PROVE  Good([s EXCEPT !.rl = r], n) /\ Good(Datagram(s, p), n)
<1>1. Shaped([s EXCEPT !.rl = r]) /\ Shaped(Datagram(s, p))
  BY DEF Good, Shaped, Datagram
<1>2. /\ [s EXCEPT !.rl = r].tab = s.tab /\ [s EXCEPT !.rl = r].act = s.act /\ [s EXCEPT !.rl = r].jobs = s.jobs
      /\ Datagram(s, p).tab = s.tab /\ Datagram(s, p).act = s.act /\ Datagram(s, p).jobs = s.jobs
  BY DEF Good, Shaped, Datagram
<1>. QED  BY <1>1, <1>2, Zenon DEF Good

\* The fields of a NOTIFY.
LEMMA NoteShape ==
  ASSUME NEW n, NEW q \in Notes(n)
  PROVE  \E id \in 1 .. n, key \in NKeys, tcp \in BOOLEAN, tries \in Nat \ {0}, sends \in 0 .. MaxSends, wait \in Nat :
           q = [used |-> TRUE, id |-> id, key |-> key, tcp |-> tcp, tries |-> tries, sends |-> sends, wait |-> wait]
BY ZenonT(30) DEF Notes

\* A NOTIFY that was not sent yet.
LEMMA NoteTyped ==
  ASSUME NEW n \in Nat, NEW id \in 1 .. n, NEW k \in NKeys
  PROVE  /\ \A tcp \in BOOLEAN, tries \in Nat \ {0}, wait \in Nat :
              /\ Note(id, k, tcp, tries, wait) \in Notes(n)
              /\ Note(id, k, tcp, tries, wait).tcp = tcp
         /\ \A tcp, tries, wait : /\ Note(id, k, tcp, tries, wait).id = id /\ Note(id, k, tcp, tries, wait).key = k
                                  /\ Note(id, k, tcp, tries, wait).sends = 0
         /\ 0 \in Nat /\ 1 \in Nat \ {0} /\ 2 \in Nat \ {0}
<1>1. 0 \in 0 .. MaxSends
  BY NtAssumption
<1>. QED  BY <1>1 DEF Note, Notes

\* A NOTIFY with other counts, or one that goes on over TCP, is still that NOTIFY.
LEMMA NoteSteps ==
  ASSUME NEW n \in Nat, NEW q \in Notes(n)
  PROVE  /\ q.tcp \in BOOLEAN /\ q.sends \in 0 .. MaxSends /\ q.wait \in Nat
         /\ Held(q) \in Notes(n) /\ Held(q).id = q.id /\ Held(q).key = q.key
         /\ q.wait > 0 => Older(q) \in Notes(n) /\ Older(q).id = q.id /\ Older(q).key = q.key
         /\ q.sends < MaxSends => Sent(q) \in Notes(n) /\ Sent(q).id = q.id /\ Sent(q).key = q.key /\ Sent(q).tcp = q.tcp
         /\ notify_to_tcp(q) \in Notes(n) /\ notify_to_tcp(q).id = q.id /\ notify_to_tcp(q).key = q.key /\ notify_to_tcp(q).sends = 0
<1>1. PICK id \in 1 .. n, key \in NKeys, tcp \in BOOLEAN, tries \in Nat \ {0}, sends \in 0 .. MaxSends, wait \in Nat :
           q = [used |-> TRUE, id |-> id, key |-> key, tcp |-> tcp, tries |-> tries, sends |-> sends, wait |-> wait]
  BY NoteShape
<1>2. q.tcp \in BOOLEAN /\ q.sends \in 0 .. MaxSends /\ q.wait \in Nat
  BY <1>1
<1>3. Held(q) \in Notes(n) /\ Held(q).id = q.id /\ Held(q).key = q.key
  BY <1>1, ZenonT(30) DEF Notes, Held
<1>4. ASSUME q.wait > 0 PROVE Older(q) \in Notes(n) /\ Older(q).id = q.id /\ Older(q).key = q.key
  <2>1. wait - 1 \in Nat
    BY <1>1, <1>4
  <2>. QED  BY <1>1, <2>1, ZenonT(30) DEF Notes, Older
<1>5. ASSUME q.sends < MaxSends
      PROVE  Sent(q) \in Notes(n) /\ Sent(q).id = q.id /\ Sent(q).key = q.key /\ Sent(q).tcp = q.tcp
  <2>1. sends + 1 \in 0 .. MaxSends
    BY <1>1, <1>5, NtAssumption
  <2>. QED  BY <1>1, <2>1, ZenonT(30) DEF Notes, Sent
<1>6. notify_to_tcp(q) \in Notes(n) /\ notify_to_tcp(q).id = q.id /\ notify_to_tcp(q).key = q.key /\ notify_to_tcp(q).sends = 0
  <2>1. q.id \in 1 .. n /\ q.key \in NKeys
    BY <1>1
  <2>2. /\ Note(q.id, q.key, TRUE, 1, 0) \in Notes(n) /\ Note(q.id, q.key, TRUE, 1, 0).id = q.id
        /\ Note(q.id, q.key, TRUE, 1, 0).key = q.key /\ Note(q.id, q.key, TRUE, 1, 0).sends = 0
    <3>1. 0 \in 0 .. MaxSends
      BY NtAssumption
    <3>. QED  BY <2>1, <3>1 DEF Note, Notes
  <2>. QED  BY <2>2, Zenon DEF notify_to_tcp
<1>. QED  BY <1>2, <1>3, <1>4, <1>5, <1>6, Zenon

\* A NOTIFY goes out: as a datagram it keeps its place, over TCP it leaves the table.
LEMMA XmitKeeps ==
  ASSUME NEW n \in Nat, NEW s, Good(s, n), NEW i \in Slots, NEW p \in Notes(n), NEW fails \in BOOLEAN,
         p.tcp => TcpRoom(s),
         \A j \in Slots \ {i} : s.tab[j].used => s.tab[j].key # p.key /\ s.tab[j].id # p.id,
         \A j \in s.jobs : j.id # p.id
  PROVE  Good(notify_xmit(s, i, p, fails), n)
<1>0. i # 0
  BY DEF Slots
<1>1. CASE ~p.tcp
  <2>1. Good([s EXCEPT !.tab[i] = p], n)
    BY PutKeeps, SMTT(30)
  <2>. QED  BY <1>0, <1>1, <2>1, BesideKeeps DEF notify_xmit
<1>2. CASE p.tcp
  <2> DEFINE t == [s EXCEPT !.tab[i] = Unused]
  <2>1. Good(t, n)
    BY EmptyKeeps
  <2>2. t.tab[i] = Unused /\ t.act = s.act /\ t.jobs = s.jobs /\ \A j \in Slots \ {i} : t.tab[j] = s.tab[j]
    BY DEF Good, Shaped, Sound, TabInv
  <2>3. ~Unused.used
    BY DEF Unused
  <2>4. notify_xmit(s, i, p, fails) = notify_tcp_start(t, p, fails)
    BY <1>0, <1>2 DEF notify_xmit
  <2> HIDE DEF t
  <2>5. TcpRoom(t)
    BY <1>2, <2>2 DEF TcpRoom
  <2>6. \A j \in Slots : t.tab[j].used => t.tab[j].id # p.id
    BY <2>2, <2>3
  <2>7. \A j \in t.jobs : j.id # p.id
    BY <2>2, SMTT(30)
  <2>. QED  BY <2>1, <2>4, <2>5, <2>6, <2>7, StartKeeps
<1>. QED  BY <1>1, <1>2

\* A NOTIFY in the table is typed, and its place is its own.
LEMMA PlaceOwn ==
  ASSUME NEW n \in Nat, NEW s, Good(s, n), NEW i \in Slots, s.tab[i].used
  PROVE  /\ s.tab[i] \in Notes(n)
         /\ \A j \in Slots \ {i} : s.tab[j].used => s.tab[j].key # s.tab[i].key /\ s.tab[j].id # s.tab[i].id
         /\ \A j \in s.jobs : j.id # s.tab[i].id
<1>1. ~Unused.used
  BY DEF Unused
<1>2. s.tab[i] \in Notes(n) \cup {Unused}
  BY DEF Good, Sound, TabInv
<1>3. s.tab[i] \in Notes(n)
  BY <1>1, <1>2
<1>. QED  BY <1>3 DEF Good, Sound, TabInv, JobInv

\* A NOTIFY that is due is held back, sent again, sent first, or given to a TCP thread.
LEMMA DueKeeps ==
  ASSUME NEW n \in Nat, NEW s, Good(s, n), NEW i \in Slots, s.tab[i].used, NEW fails \in BOOLEAN, NEW unsigned \in BOOLEAN
  PROVE  Good(Due(s, i, fails, unsigned), n)
<1> DEFINE q == s.tab[i]
           p == IF q.sends > 0 /\ q.sends >= MaxSends THEN notify_to_tcp(q) ELSE q
<1>1. q \in Notes(n)
  BY PlaceOwn, SMTT(30)
<1>2. p \in Notes(n) /\ p.key = q.key /\ p.id = q.id /\ (p.sends > 0 => p.sends < MaxSends)
  <2>1. CASE q.sends > 0 /\ q.sends >= MaxSends
    <3>1. p = notify_to_tcp(q)
      BY <2>1
    <3>2. p \in Notes(n) /\ p.key = q.key /\ p.id = q.id /\ p.sends = 0
      BY <1>1, <3>1, NoteSteps, ZenonT(40)
    <3>. QED  BY <3>2, SMTT(30)
  <2>2. CASE ~(q.sends > 0 /\ q.sends >= MaxSends)
    <3>1. q.sends \in 0 .. MaxSends
      BY <1>1, NoteSteps, Zenon
    <3>. QED  BY <1>1, <2>2, <3>1, NtAssumption
  <2>. QED  BY <2>1, <2>2, ZenonT(30)
<1>3. Due(s, i, fails, unsigned) =
        CASE p.sends = 0 /\ ((p.tcp /\ ~TcpRoom(s)) \/ ~xfr_rl_take(s)) ->
               [s EXCEPT !.tab[i] = Held(p)]
          [] p.sends = 0 /\ (~p.tcp \/ TcpRoom(s)) /\ xfr_rl_take(s) ->
               LET t == [s EXCEPT !.rl = @ + 1] IN
               IF unsigned /\ ~p.tcp THEN [t EXCEPT !.tab[i] = Unused]
               ELSE notify_xmit(t, i, Sent(p), fails)
          [] p.sends > 0 ->
               IF unsigned THEN [s EXCEPT !.tab[i] = Unused]
               ELSE Datagram([s EXCEPT !.tab[i] = Sent(p)], p)
  BY Zenon DEF Due
<1> HIDE DEF p
<1>4. p.sends \in Nat /\ p.tcp \in BOOLEAN
  <2>1. p.sends \in 0 .. MaxSends /\ p.tcp \in BOOLEAN
    BY <1>2, NoteSteps, Zenon
  <2>. QED  BY <2>1, NtAssumption
<1>5. CASE p.sends = 0 /\ ((p.tcp /\ ~TcpRoom(s)) \/ ~xfr_rl_take(s))
  <2>1. Due(s, i, fails, unsigned) = [s EXCEPT !.tab[i] = Held(p)]
    BY <1>3, <1>5
  <2>2. Held(p) \in Notes(n) /\ Held(p).key = q.key /\ Held(p).id = q.id
    BY <1>2, NoteSteps, Zenon
  <2>. QED  BY <2>1, <2>2, ChangeKeeps
<1>6. CASE p.sends = 0 /\ (~p.tcp \/ TcpRoom(s)) /\ xfr_rl_take(s)
  <2> DEFINE t == [s EXCEPT !.rl = s.rl + 1]
             r == Sent(p)
  <2>1. Due(s, i, fails, unsigned) = IF unsigned /\ ~p.tcp THEN [t EXCEPT !.tab[i] = Unused] ELSE notify_xmit(t, i, r, fails)
    BY <1>3, <1>4, <1>6
  <2>2. Good(t, n)
    BY BesideKeeps, ZenonT(30)
  <2>3. t.tab = s.tab /\ t.jobs = s.jobs /\ t.act = s.act
    BY DEF Good, Shaped
  <2>4. r \in Notes(n) /\ r.key = q.key /\ r.id = q.id /\ r.tcp = p.tcp
    <3>1. p.sends < MaxSends
      BY <1>6, NtAssumption
    <3>. QED  BY <1>2, <3>1, NoteSteps, Zenon
  <2> HIDE DEF t, r
  <2>5. Good([t EXCEPT !.tab[i] = Unused], n)
    BY <2>2, EmptyKeeps
  <2>6. r.tcp => TcpRoom(t)
    BY <1>6, <2>3, <2>4 DEF TcpRoom
  <2>7. /\ \A j \in Slots \ {i} : t.tab[j].used => t.tab[j].key # r.key /\ t.tab[j].id # r.id
        /\ \A j \in t.jobs : j.id # r.id
    BY <2>3, <2>4, PlaceOwn, SMTT(30)
  <2>8. Good(notify_xmit(t, i, r, fails), n)
    BY <2>2, <2>4, <2>6, <2>7, XmitKeeps
  <2>. QED  BY <2>1, <2>5, <2>8
<1>7. CASE p.sends > 0
  <2> DEFINE r == Sent(p)
  <2>1. Due(s, i, fails, unsigned) = IF unsigned THEN [s EXCEPT !.tab[i] = Unused] ELSE Datagram([s EXCEPT !.tab[i] = r], p)
    BY <1>3, <1>4, <1>7
  <2>2. r \in Notes(n) /\ r.key = q.key /\ r.id = q.id
    BY <1>2, <1>7, NoteSteps, Zenon
  <2> HIDE DEF r
  <2>3. Good([s EXCEPT !.tab[i] = r], n)
    BY <2>2, ChangeKeeps
  <2>. QED  BY <2>1, <2>3, EmptyKeeps, BesideKeeps
<1>. QED  BY <1>4, <1>5, <1>6, <1>7, SMTT(30)

\* One place at the tick.
LEMMA TickPlaceKeeps ==
  ASSUME NEW n \in Nat, NEW s, Good(s, n), NEW i \in Slots, NEW fails \in BOOLEAN, NEW unsigned \in BOOLEAN
  PROVE  Good(TickPlace(s, i, fails, unsigned), n)
<1>1. CASE ~s.tab[i].used
  BY <1>1 DEF TickPlace
<1>2. CASE s.tab[i].used /\ s.tab[i].wait > 0
  <2> DEFINE p == Older(s.tab[i])
  <2>1. s.tab[i] \in Notes(n)
    BY <1>2, PlaceOwn
  <2>2. p \in Notes(n) /\ p.key = s.tab[i].key /\ p.id = s.tab[i].id
    BY <1>2, <2>1, NoteSteps, Zenon
  <2>3. TickPlace(s, i, fails, unsigned) = [s EXCEPT !.tab[i] = p]
    BY <1>2 DEF TickPlace
  <2> HIDE DEF p
  <2>. QED  BY <1>2, <2>2, <2>3, ChangeKeeps
<1>3. CASE s.tab[i].used /\ ~(s.tab[i].wait > 0)
  BY <1>3, DueKeeps DEF TickPlace
<1>. QED  BY <1>1, <1>2, <1>3

-----------------------------------------------------------------------------
(* The whole tick *)

\* A set of numbers that is not empty has a least one.
LEMMA LeastNumber ==
  ASSUME NEW D \in SUBSET Nat, D # {}
  PROVE  \E d \in D : \A e \in D : d <= e
<1>1. PICK d \in D : \A e \in D : ~ (<<e, d>> \in OpToRel(<, Nat))
  BY NatLessThanWellFounded, WFMin
<1>2. ASSUME NEW e \in D PROVE d <= e
  <2>1. d \in Nat /\ e \in Nat
    OBVIOUS
  <2>2. e < d => <<e, d>> \in OpToRel(<, Nat)
    BY <2>1 DEF OpToRel
  <2>3. ~ (e < d)
    BY <1>1, <2>2, Zenon
  <2>. QED  BY <2>1, <2>3
<1>. QED  BY <1>2, Zenon

\* A property of numbers that is handed on from each one to the next one.
LEMMA Along ==
  ASSUME NEW b \in Nat, NEW G, 0 \in G, \A k \in 1 .. b : k - 1 \in G => k \in G
  PROVE  \A k \in 0 .. b : k \in G
<1> DEFINE D == (0 .. b) \ G
<1> SUFFICES ASSUME D # {} PROVE FALSE
  OBVIOUS
<1>0. D \in SUBSET Nat
  OBVIOUS
<1>1. PICK d \in D : \A e \in D : d <= e
  BY <1>0, LeastNumber, Zenon
<1>2. d \in 1 .. b /\ d - 1 \notin D
  BY <1>1
<1>. QED  BY <1>1, <1>2

IsAfter(g, s0, m, fails, unsigned) ==
  g = [i \in 0 .. m |-> IF i = 0 THEN s0 ELSE TickPlace(g[i - 1], i, fails, unsigned)]

\* The places are looked at one after the other: what the recursion over them yields exists.
LEMMA AfterExists ==
  ASSUME NEW s0, NEW fails, NEW unsigned
  PROVE  \E g : IsAfter(g, s0, PendMax, fails, unsigned)
<1> DEFINE From(g, m) == IsAfter(g, s0, m, fails, unsigned)
           G == {m \in Nat : \E g : From(g, m)}
<1>1. 0 \in G
  <2>1. From([i \in 0 .. 0 |-> s0], 0)
    BY DEF IsAfter
  <2>. QED  BY <2>1
<1>2. ASSUME NEW k \in 1 .. PendMax, k - 1 \in G PROVE k \in G
  <2>1. PICK g : From(g, k - 1)
    BY <1>2
  <2> DEFINE h == [i \in 0 .. k |-> IF i = k THEN TickPlace(g[k - 1], k, fails, unsigned) ELSE g[i]]
  <2>2. \A i \in 0 .. k : h[i] = IF i = 0 THEN s0 ELSE TickPlace(h[i - 1], i, fails, unsigned)
    <3> SUFFICES ASSUME NEW i \in 0 .. k
                 PROVE  h[i] = IF i = 0 THEN s0 ELSE TickPlace(h[i - 1], i, fails, unsigned)
      OBVIOUS
    <3>1. CASE i = k
      <4>1. h[i] = TickPlace(g[k - 1], k, fails, unsigned) /\ h[k - 1] = g[k - 1] /\ i # 0
        BY <3>1
      <4> HIDE DEF h
      <4>. QED  BY <3>1, <4>1
    <3>2. CASE i # k
      <4>1. i \in 0 .. k - 1 /\ h[i] = g[i] /\ (i # 0 => h[i - 1] = g[i - 1])
        BY <3>2
      <4>2. g[i] = IF i = 0 THEN s0 ELSE TickPlace(g[i - 1], i, fails, unsigned)
        BY <2>1, <4>1 DEF IsAfter
      <4> HIDE DEF h, From
      <4>. QED  BY <4>1, <4>2
    <3>. QED  BY <3>1, <3>2
  <2>3. h = [i \in 0 .. k |-> h[i]]
    OBVIOUS
  <2> HIDE DEF h
  <2>4. From(h, k)
    BY <2>2, <2>3, Zenon DEF IsAfter
  <2>5. k \in Nat
    OBVIOUS
  <2>. QED  BY <2>4, <2>5
<1> HIDE DEF G
<1>3. PendMax \in G
  <2>1. PendMax \in Nat /\ PendMax \in 0 .. PendMax
    BY NtAssumption
  <2>. QED  BY <1>1, <1>2, <2>1, Along, Zenon
<1>. QED  BY <1>3 DEF G

\* Between two calls the working state is the state.
LEMMA HereGood == ASSUME NtInv PROVE Good(Here, nid) /\ Here.tab = ntab /\ Here.act = tcp_active /\ Here.jobs = tcp_jobs
BY DEF NtInv, Good, Shaped, Here

\* A call leaves behind what it worked on.
LEMMA BecomesKeeps ==
  ASSUME NEW s, NEW n \in Nat, Good(s, n), Becomes(s), nid' = n
  PROVE  NtInv'
BY Zenon DEF Becomes, Good, NtInv

\* A second passes.
LEMMA TickKeeps == ASSUME NtInv, NEW fails \in BOOLEAN, NEW unsigned \in BOOLEAN, notify_retransmit_due(fails, unsigned)
                   PROVE  NtInv'
<1> DEFINE s0 == [Here EXCEPT !.rl = 0]
           A == CHOOSE g : g = [i \in 0 .. PendMax |-> IF i = 0 THEN s0 ELSE TickPlace(g[i - 1], i, fails, unsigned)]
<1>1. Becomes(A[PendMax]) /\ nid' = nid
  BY Zenon DEF notify_retransmit_due
<1>2. A = [i \in 0 .. PendMax |-> IF i = 0 THEN s0 ELSE TickPlace(A[i - 1], i, fails, unsigned)]
  <2>1. A = CHOOSE g : IsAfter(g, s0, PendMax, fails, unsigned)
    BY DEF IsAfter
  <2> HIDE DEF s0, A
  <2>2. IsAfter(A, s0, PendMax, fails, unsigned)
    BY <2>1, AfterExists, Zenon
  <2>. QED  BY <2>2, Zenon DEF IsAfter
<1>3. nid \in Nat /\ Good(s0, nid)
  BY HereGood, BesideKeeps DEF NtInv
<1> HIDE DEF s0, A
<1> DEFINE G == {i \in 0 .. PendMax : Good(A[i], nid)}
<1>4. 0 \in 0 .. PendMax /\ PendMax \in 0 .. PendMax /\ PendMax \in Nat
  BY NtAssumption
<1>5. A[0] = s0
  BY <1>2, <1>4
<1>6. ASSUME NEW k \in 1 .. PendMax PROVE A[k] = TickPlace(A[k - 1], k, fails, unsigned) /\ k \in 0 .. PendMax /\ k \in Slots
  BY <1>2, <1>4 DEF Slots
<1>7. ASSUME NEW k \in 1 .. PendMax, k - 1 \in G PROVE k \in G
  BY <1>3, <1>6, <1>7, TickPlaceKeeps, ZenonT(40)
<1>8. 0 \in G
  BY <1>3, <1>4, <1>5
<1> HIDE DEF G
<1>9. PendMax \in G
  BY <1>4, <1>7, <1>8, Along, Zenon
<1>. QED  BY <1>1, <1>3, <1>9, BecomesKeeps DEF G

\* The next id is a new one.
LEMMA FreshId ==
  ASSUME NEW n \in Nat, NEW s, Good(s, n)
  PROVE  /\ Good(s, n + 1)
         /\ \A j \in Slots : s.tab[j].used => s.tab[j].id # n + 1
         /\ \A j \in s.jobs : j.id # n + 1
<1>1. Notes(n) \subseteq Notes(n + 1) /\ Jobs(n) \subseteq Jobs(n + 1)
  <2>1. 1 .. n \subseteq 1 .. n + 1
    OBVIOUS
  <2>. QED  BY <2>1, ZenonT(30) DEF Notes, Jobs
<1>2. \A p \in Notes(n) : p.id # n + 1
  BY DEF Notes
<1>3. \A j \in Jobs(n) : j.id # n + 1
  BY DEF Jobs
<1>4. TabInv(s.tab, n + 1)
  BY <1>1, ZenonT(30) DEF Good, Sound, TabInv
<1>5. JobInv(s.tab, s.act, s.jobs, n + 1)
  BY <1>1 DEF Good, Sound, JobInv
<1>6. \A j \in Slots : s.tab[j].used => s.tab[j].id # n + 1
  BY <1>2, PlaceOwn, SMTT(30)
<1>7. \A j \in s.jobs : j.id # n + 1
  BY <1>3 DEF Good, Sound, JobInv
<1>. QED  BY <1>4, <1>5, <1>6, <1>7 DEF Good, Sound

\* Where a NOTIFY goes: no other place has one for this zone and destination.
LEMMA PlaceRight ==
  ASSUME NtInv, NEW k \in NKeys
  PROVE  Place(k) = 0 \/ (Place(k) \in Slots /\ \A j \in Slots \ {Place(k)} : ntab[j].used => ntab[j].key # k)
<1> DEFINE same == {i \in Slots : ntab[i].used /\ ntab[i].key = k}
           free == {i \in Slots : ~ntab[i].used}
           pick == IF same # {} THEN same ELSE free
<1>1. Place(k) = IF pick = {} THEN 0 ELSE CHOOSE i \in pick : \A j \in pick : i <= j
  BY Zenon DEF Place
<1>2. pick \in SUBSET Nat /\ pick \subseteq Slots
  BY DEF Slots
<1>3. ASSUME NEW i \in pick PROVE \A j \in Slots \ {i} : ntab[j].used => ntab[j].key # k
  <2>1. CASE same # {}
    BY <1>3, <2>1 DEF NtInv, Sound, TabInv
  <2>2. CASE same = {}
    BY <2>2
  <2>. QED  BY <2>1, <2>2
<1> HIDE DEF pick
<1>4. ASSUME pick # {} PROVE Place(k) \in pick
  <2>1. \E i \in pick : \A j \in pick : i <= j
    BY <1>2, <1>4, LeastNumber, Zenon
  <2>. QED  BY <1>1, <1>4, <2>1, Zenon
<1>. QED  BY <1>1, <1>2, <1>3, <1>4, Zenon

\* A NOTIFY is asked for: it takes its place, goes out at once, or is not sent.
LEMMA SendKeeps ==
  ASSUME NtInv, NEW k \in NKeys, NEW fails \in BOOLEAN, NEW unsigned \in BOOLEAN, notify_send_to(k, fails, unsigned)
  PROVE  NtInv'
<1>1. PICK i, n : i = Place(k) /\ n = nid + 1
  OBVIOUS
<1>2. PICK tcp \in BOOLEAN : tcp = (k \in TcpOnly)
  <2>1. CASE k \in TcpOnly
    <3>1. TRUE = (k \in TcpOnly)
      BY <2>1
    <3>. QED  BY <3>1, Zenon
  <2>2. CASE k \notin TcpOnly
    <3>1. FALSE = (k \in TcpOnly)
      BY <2>2
    <3>. QED  BY <3>1, Zenon
  <2>. QED  BY <2>1, <2>2
<1>3. PICK tries \in Nat \ {0} : tries = IF k \in TcpOnly THEN 2 ELSE 1
  OBVIOUS
<1> DEFINE p == Note(n, k, tcp, tries, 1)
           room == ~p.tcp \/ TcpRoom(Here)
<1>4. /\ nid' = n
      /\ CASE unsigned -> Becomes(IF i = 0 THEN Here ELSE [Here EXCEPT !.tab[i] = Unused])
           [] ~unsigned /\ i = 0 -> Becomes(IF room THEN notify_xmit(Here, 0, Sent(p), fails) ELSE Here)
           [] ~unsigned /\ i # 0 ->
                IF room /\ xfr_rl_take(Here)
                THEN Becomes(notify_xmit([Here EXCEPT !.rl = @ + 1], i, Sent(p), fails))
                ELSE Becomes([Here EXCEPT !.tab[i] = p])
  BY <1>1, <1>2, <1>3, ZenonT(40) DEF notify_send_to
<1>5. /\ n \in Nat /\ Good(Here, n) /\ Here.tab = ntab /\ Here.jobs = tcp_jobs /\ Here.act = tcp_active
      /\ \A j \in Slots : ntab[j].used => ntab[j].id # n
      /\ \A j \in tcp_jobs : j.id # n
  BY <1>1, HereGood, FreshId DEF NtInv
<1>6. i = 0 \/ (i \in Slots /\ \A j \in Slots \ {i} : ntab[j].used => ntab[j].key # k)
  BY <1>1, PlaceRight
<1>7. n \in 1 .. n /\ 1 \in Nat
  BY <1>1 DEF NtInv
<1>8. p \in Notes(n) /\ p.id = n /\ p.key = k /\ p.sends = 0
  <2>1. tcp \in BOOLEAN /\ tries \in Nat \ {0}
    BY <1>2, <1>3
  <2>2. Note(n, k, tcp, tries, 1) \in Notes(n)
    BY <1>5, <1>7, <2>1, NoteTyped, Zenon
  <2>3. /\ Note(n, k, tcp, tries, 1).id = n /\ Note(n, k, tcp, tries, 1).key = k
        /\ Note(n, k, tcp, tries, 1).sends = 0
    BY DEF Note
  <2>. QED  BY <2>2, <2>3
<1> HIDE DEF p
<1>9. p.sends < MaxSends
  BY <1>8, NtAssumption
<1>10. Sent(p) \in Notes(n) /\ Sent(p).id = n /\ Sent(p).key = k /\ Sent(p).tcp = p.tcp /\ p.tcp \in BOOLEAN
  BY <1>5, <1>8, <1>9, NoteSteps, ZenonT(40)
<1>11. CASE unsigned
  <2>1. Becomes(IF i = 0 THEN Here ELSE [Here EXCEPT !.tab[i] = Unused])
    BY <1>4, <1>11
  <2>2. i # 0 => Good([Here EXCEPT !.tab[i] = Unused], n)
    BY <1>5, <1>6, EmptyKeeps
  <2>. QED  BY <1>4, <1>5, <2>1, <2>2, BecomesKeeps
<1>12. CASE ~unsigned /\ i = 0
  <2>1. Becomes(IF room THEN notify_xmit(Here, 0, Sent(p), fails) ELSE Here)
    BY <1>4, <1>12
  <2>2. ASSUME room PROVE Good(notify_xmit(Here, 0, Sent(p), fails), n)
    <3>1. CASE p.tcp
      <4>1. notify_xmit(Here, 0, Sent(p), fails) = notify_tcp_start(Here, Sent(p), fails)
        BY <1>10, <3>1 DEF notify_xmit
      <4>2. TcpRoom(Here)
        BY <2>2, <3>1
      <4>. QED  BY <1>5, <1>10, <4>1, <4>2, StartKeeps
    <3>2. CASE ~p.tcp
      <4>1. notify_xmit(Here, 0, Sent(p), fails) = Datagram(Here, Sent(p))
        BY <1>10, <3>2 DEF notify_xmit
      <4>. QED  BY <1>5, <4>1, BesideKeeps, ZenonT(30)
    <3>. QED  BY <3>1, <3>2
  <2>. QED  BY <1>4, <1>5, <2>1, <2>2, BecomesKeeps
<1>13. CASE ~unsigned /\ i # 0
  <2> DEFINE t == [Here EXCEPT !.rl = Here.rl + 1]
  <2>1. CASE room /\ xfr_rl_take(Here)
    <3>1. Becomes(notify_xmit(t, i, Sent(p), fails))
      BY <1>4, <1>13, <2>1
    <3>2. Good(t, n)
      BY <1>5, BesideKeeps
    <3>3. t.tab = ntab /\ t.jobs = tcp_jobs /\ t.act = tcp_active
      BY DEF Here
    <3> HIDE DEF t
    <3>4. Sent(p).tcp => TcpRoom(t)
      BY <1>5, <1>10, <2>1, <3>3 DEF TcpRoom
    <3>5. Good(notify_xmit(t, i, Sent(p), fails), n)
      BY <1>5, <1>6, <1>10, <1>13, <3>2, <3>3, <3>4, XmitKeeps
    <3>. QED  BY <1>4, <1>5, <3>1, <3>5, BecomesKeeps
  <2>2. CASE ~(room /\ xfr_rl_take(Here))
    <3>1. Becomes([Here EXCEPT !.tab[i] = p])
      BY <1>4, <1>13, <2>2
    <3>2. Good([Here EXCEPT !.tab[i] = p], n)
      BY <1>5, <1>6, <1>8, <1>13, PutKeeps
    <3>. QED  BY <1>4, <1>5, <3>1, <3>2, BecomesKeeps
  <2>. QED  BY <2>1, <2>2
<1>. QED  BY <1>11, <1>12, <1>13

\* An answer ends a NOTIFY, or sends it on over TCP; a late one finds nothing.
LEMMA ResponseKeeps ==
  ASSUME NtInv, NEW a, NEW good \in BOOLEAN, notify_handle_response(a, good)
  PROVE  NtInv'
<1> DEFINE hit == {i \in Slots : ntab[i].used /\ ntab[i].id = a.id /\ ntab[i].key = a.key}
           new == [i \in Slots |-> IF i \notin hit THEN ntab[i]
                                   ELSE IF good THEN Unused ELSE IF ~ntab[i].tcp THEN notify_to_tcp(ntab[i]) ELSE ntab[i]]
<1>1. ntab' = new /\ UNCHANGED <<tcp_active, tcp_jobs, nid>>
  BY DEF notify_handle_response, Becomes, Here
<1>2. ~Unused.used
  BY SMTT(30) DEF Unused
<1>3. ASSUME NEW i \in Slots
      PROVE  /\ new[i] \in Notes(nid) \cup {Unused}
             /\ new[i].used => ntab[i].used /\ new[i].key = ntab[i].key /\ new[i].id = ntab[i].id
  <2>1. CASE i \notin hit
    BY <2>1, ZenonT(30) DEF NtInv, Sound, TabInv
  <2>2. CASE i \in hit /\ good
    BY <1>2, <2>2, SMTT(30)
  <2>3. CASE i \in hit /\ ~good
    <3>1. ntab[i].used /\ ntab[i] \in Notes(nid) /\ nid \in Nat
      BY <2>3, HereGood, PlaceOwn DEF NtInv
    <3>2. /\ notify_to_tcp(ntab[i]) \in Notes(nid) /\ notify_to_tcp(ntab[i]).id = ntab[i].id
          /\ notify_to_tcp(ntab[i]).key = ntab[i].key
      BY <3>1, NoteSteps, ZenonT(40)
    <3>3. new[i] = IF ~ntab[i].tcp THEN notify_to_tcp(ntab[i]) ELSE ntab[i]
      BY <2>3, SMTT(30)
    <3> HIDE DEF new
    <3>. QED  BY <3>1, <3>2, <3>3, SMTT(30)
  <2>. QED  BY <2>1, <2>2, <2>3, ZenonT(30)
<1>4. new = [i \in Slots |-> new[i]]
  OBVIOUS
<1> HIDE DEF new
<1>5. TabInv(new, nid)
  BY <1>3, <1>4, SMTT(30) DEF NtInv, Sound, TabInv
<1>6. JobInv(new, tcp_active, tcp_jobs, nid)
  BY <1>3 DEF NtInv, Sound, JobInv
<1>. QED  BY <1>1, <1>5, <1>6, Zenon DEF NtInv, Sound

\* An attempt of a TCP thread: the exchange ends or has one try less.
LEMMA AttemptKeeps ==
  ASSUME NtInv, NEW j \in tcp_jobs, NEW answered \in BOOLEAN, TcpAttempt(j, answered)
  PROVE  NtInv'
<1>1. UNCHANGED <<ntab, nid>>
  BY SMTT(30) DEF TcpAttempt
<1>2. /\ tcp_jobs \subseteq Jobs(nid) /\ IsFiniteSet(tcp_jobs) /\ tcp_active = Cardinality(tcp_jobs) /\ tcp_active <= TcpMax
      /\ \A x, y \in tcp_jobs : x.id = y.id => x = y
      /\ \A x \in tcp_jobs : \A i \in Slots : ntab[i].used => ntab[i].id # x.id
  BY SMTT(30) DEF NtInv, Sound, JobInv
<1>3. IsFiniteSet(tcp_jobs \ {j}) /\ Cardinality(tcp_jobs \ {j}) = tcp_active - 1 /\ tcp_active \in Nat
  BY <1>2, FS_RemoveElement, FS_CardinalityType
<1>4. CASE tcp_jobs' = tcp_jobs \ {j} /\ tcp_active' = tcp_active - 1
  <2>1. tcp_active' = Cardinality(tcp_jobs') /\ tcp_active' <= TcpMax
    BY <1>2, <1>3, <1>4, NtAssumption, SMTT(30)
  <2>2. JobInv(ntab, tcp_active', tcp_jobs', nid)
    BY <1>2, <1>3, <1>4, <2>1 DEF JobInv
  <2>. QED  BY <1>1, <2>2, Zenon DEF NtInv, Sound
<1>5. CASE tcp_jobs' = (tcp_jobs \ {j}) \cup {[j EXCEPT !.tries = @ - 1]} /\ UNCHANGED tcp_active /\ j.tries # 1
  <2>1. PICK m : m = [j EXCEPT !.tries = j.tries - 1]
    BY ZenonT(30)
  <2>2. m \in Jobs(nid) /\ m.id = j.id
    BY <1>2, <1>5, <2>1 DEF Jobs
  <2>3. \A x \in tcp_jobs \ {j} : x.id # m.id
    BY <1>2, <2>2
  <2>4. tcp_jobs' = (tcp_jobs \ {j}) \cup {m} /\ m \notin tcp_jobs \ {j}
    BY <1>5, <2>1, <2>3, ZenonT(30)
  <2>5. IsFiniteSet(tcp_jobs') /\ tcp_active' = Cardinality(tcp_jobs')
    <3>1. PICK S : S = tcp_jobs \ {j}
      BY ZenonT(30)
    <3>2. IsFiniteSet(S \cup {m}) /\ Cardinality(S \cup {m}) = Cardinality(S) + 1
      BY <1>3, <2>4, <3>1, FS_AddElement
    <3>3. Cardinality(S) + 1 = tcp_active
      BY <1>3, <3>1
    <3>. QED  BY <1>5, <2>4, <3>1, <3>2, <3>3, Zenon
  <2>6. JobInv(ntab, tcp_active', tcp_jobs', nid)
    <3>1. tcp_jobs' \subseteq Jobs(nid) /\ \A x, y \in tcp_jobs' : x.id = y.id => x = y
      BY <1>2, <2>2, <2>3, <2>4, SMTT(30)
    <3>2. \A x \in tcp_jobs' : \A i \in Slots : ntab[i].used => ntab[i].id # x.id
      BY <1>2, <2>2, <2>4
    <3>. QED  BY <1>2, <1>5, <2>5, <3>1, <3>2 DEF JobInv
  <2>. QED  BY <1>1, <2>6, Zenon DEF NtInv, Sound
<1>. QED  BY <1>4, <1>5 DEF TcpAttempt

\* The table is empty.
LEMMA NtInitInv == NtInit => NtInv
<1> SUFFICES ASSUME NtInit
             PROVE  NtInv
  OBVIOUS
<1>1. ~Unused.used
  BY DEF Unused
<1>2. TabInv(ntab, 0)
  BY <1>1 DEF NtInit, TabInv
<1>3. JobInv(ntab, 0, {}, 0)
  BY FS_EmptySet, NtAssumption DEF JobInv
<1>. QED  BY <1>2, <1>3 DEF NtInit, NtInv, Sound

\* Every step of the control thread, of the answers and of the TCP threads keeps the invariant.
LEMMA NtNextInv == NtInv /\ [NtNext]_ntvars => NtInv'
<1> SUFFICES ASSUME NtInv, [NtNext]_ntvars
             PROVE  NtInv'
  OBVIOUS
<1>1. CASE NtNext
  BY <1>1, TickKeeps, AttemptKeeps, SendKeeps, ResponseKeeps, Zenon DEF NtNext, NtTick, TcpThread
<1>2. CASE UNCHANGED ntvars
  BY <1>2, Zenon DEF ntvars, NtInv
<1>. QED  BY <1>1, <1>2

\* The table of NOTIFYs stays sound: one NOTIFY for a zone and destination, no message more than notify-retries
\* allows, and an exact count of the TCP exchanges that never passes its limit, for every size of the table.
THEOREM NotifyIsSound == NtSpec => []NotifySound
<1>1. NtInv => NotifySound
  <2> SUFFICES ASSUME NtInv
               PROVE  NotifySound
    OBVIOUS
  <2>1. tcp_active = Cardinality(tcp_jobs) /\ tcp_active <= TcpMax
    BY DEF NtInv, Sound, JobInv
  <2>2. \A i, j \in 1 .. PendMax : ntab[i].used /\ ntab[j].used /\ i # j => ntab[i].key # ntab[j].key
    BY DEF NtInv, Sound, TabInv, Slots
  <2>3. \A p \in Notes(nid) : p.sends <= MaxSends
    BY NtAssumption, SMTT(30) DEF Notes
  <2>4. \A i \in 1 .. PendMax : ntab[i].used => ntab[i].sends <= MaxSends
    BY <2>3, HereGood, PlaceOwn DEF NtInv, Slots
  <2>. QED  BY <2>1, <2>2, <2>4 DEF NotifySound
<1>. QED  BY <1>1, NtInitInv, NtNextInv, PTL DEF NtSpec
=============================================================================
