----------------------------- MODULE ParkProofs -----------------------------
(***************************************************************************)
(* No request and no wake-up is lost between the workers' rings, the       *)
(* fetches of the ingest thread and its broadcasts, for any number of      *)
(* workers and queries and any size of the rings and tables.               *)
(***************************************************************************)
EXTENDS Park, FiniteSetTheorems, TLAPS

-----------------------------------------------------------------------------
(* Rings. *)

\* What is appended to a ring is in it, with what was in it before.
LEMMA RangeAppend ==
  ASSUME NEW S, NEW s \in Seq(S), NEW x \in S
  PROVE  Append(s, x) \in Seq(S) /\ Range(Append(s, x)) = Range(s) \cup {x}
<1>1. /\ Append(s, x) \in Seq(S)
      /\ DOMAIN s = 1 .. Len(s) /\ Len(s) \in Nat /\ DOMAIN Append(s, x) = 1 .. Len(s) + 1
      /\ \A i \in 1 .. Len(s) : Append(s, x)[i] = s[i]
      /\ Append(s, x)[Len(s) + 1] = x
  OBVIOUS
<1>2. Range(Append(s, x)) \subseteq Range(s) \cup {x}
  BY <1>1 DEF Range
<1>3. Range(s) \cup {x} \subseteq Range(Append(s, x))
  BY <1>1 DEF Range
<1>. QED  BY <1>1, <1>2, <1>3

\* What is taken from a ring is the only thing that leaves it.
LEMMA RangeTail ==
  ASSUME NEW S, NEW s \in Seq(S), s # <<>>
  PROVE  /\ Tail(s) \in Seq(S) /\ Head(s) \in S /\ Len(Tail(s)) = Len(s) - 1 /\ Len(s) \in Nat \ {0}
         /\ Range(s) \subseteq Range(Tail(s)) \cup {Head(s)}
<1>1. /\ Tail(s) \in Seq(S) /\ Head(s) \in S
      /\ DOMAIN s = 1 .. Len(s) /\ Len(s) \in Nat \ {0}
      /\ Len(Tail(s)) = Len(s) - 1 /\ DOMAIN Tail(s) = 1 .. Len(s) - 1
      /\ \A i \in 1 .. Len(s) - 1 : Tail(s)[i] = s[i + 1]
      /\ Head(s) = s[1]
  OBVIOUS
<1>2. ASSUME NEW i \in 1 .. Len(s)
      PROVE  s[i] \in Range(Tail(s)) \cup {Head(s)}
  <2>1. CASE i = 1
    BY <1>1, <2>1
  <2>2. CASE i # 1
    <3>1. i - 1 \in 1 .. Len(s) - 1 /\ Tail(s)[i - 1] = s[i]
      BY <1>1, <2>2
    <3>. QED  BY <1>1, <3>1, ZenonT(30) DEF Range
  <2>. QED  BY <2>1, <2>2
<1>. QED  BY <1>1, <1>2 DEF Range

-----------------------------------------------------------------------------
(* Types. *)

\* The initial state has the types.
LEMMA InitType == Init => TypeOK
<1> SUFFICES ASSUME Init
             PROVE  TypeOK
  OBVIOUS
<1>1. places \in Nat /\ slot \in 0 .. 2 /\ side \in 0 .. MaxSide /\ nfetch \in 0 .. MaxFetch
  BY ParkAssumption, SMT DEF Init
<1>2. <<>> \in Seq({"ok", "failed", "other"}) /\ <<>> \in Seq({"z", "other"})
  BY SMT
<1>3. /\ entry \in BOOLEAN /\ evicting \in BOOLEAN /\ freq \in BOOLEAN /\ stale \in BOOLEAN
      /\ state \in {ABSENT, LOADING, RESIDENT, ERROR} /\ job \in {"none", "build", "ok", "rejected"}
  BY Zenon DEF Init
<1>4. bcast \in [left : SUBSET Workers, trig : SUBSET Workers, key : {"ok", "failed", "other"}]
  <2>1. bcast = NoBroadcast
    BY DEF Init
  <2>. QED  BY <2>1 DEF NoBroadcast
<1>. QED  BY <1>1, <1>2, <1>3, <1>4, Zenon DEF Init, TypeOK, QueryStates, WorkerSteps

\* The steps a query takes through the worker that handles it keep the types.
LEMMA AnswerType ==
  ASSUME TypeOK, NEW w \in Workers, NEW how \in {"answered", "not_ready"}, Answer(w, how)
  PROVE  /\ qst' \in [Queries -> QueryStates]
         /\ late' \in [Queries -> BOOLEAN] /\ woken' \in [Queries -> BOOLEAN] /\ nready' \in [Queries -> BOOLEAN]
         /\ wpc' \in [Workers -> WorkerSteps]
         /\ cur' \in [Workers -> Queries \cup {None}] /\ ret' \in [Workers -> {"events", "done"}]
BY ZenonT(30) DEF TypeOK, Answer, Return, Goto, QueryStates, WorkerSteps

\* What the end of a request leaves.
LEMMA EndType ==
  ASSUME TypeOK, NEW ok, fetch_complete(ok)
  PROVE  /\ state' \in {ABSENT, LOADING, RESIDENT, ERROR} /\ freq' \in BOOLEAN
         /\ bcast' \in [left : SUBSET Workers, trig : SUBSET Workers, key : {"ok", "failed", "other"}]
BY ZenonT(30) DEF TypeOK, fetch_complete, dbreg_fetch_end, Broadcast

\* Every step of the workers, the ingest thread and the builder keeps the types.
LEMMA NextType == TypeOK /\ [Next]_vars => TypeOK'
<1> SUFFICES ASSUME TypeOK, [Next]_vars
             PROVE  TypeOK'
  BY Zenon
<1> USE DEF zoneVars, queryVars, workVars, ringVars, askVars, ingVars, Goto, QueryStates, WorkerSteps
<1>1. ASSUME NEW w \in Workers, kevent(w) PROVE TypeOK'
  BY <1>1 DEF TypeOK, kevent
<1>2. ASSUME NEW w \in Workers, EventsEnd(w) PROVE TypeOK'
  BY <1>2 DEF TypeOK, EventsEnd
<1>3. ASSUME NEW w \in Workers, Lookup(w) PROVE TypeOK'
  <2>1. CASE Answer(w, "answered") \/ Answer(w, "not_ready")
    BY <1>3, <2>1, AnswerType DEF TypeOK, Lookup
  <2>2. CASE UNCHANGED <<queryVars, cur, ret>> /\ Goto(w, "park")
    BY <1>3, <2>2 DEF TypeOK, Lookup
  <2>. QED  BY <1>3, <2>1, <2>2 DEF Lookup
<1>4. ASSUME NEW w \in Workers, udp_park(w) PROVE TypeOK'
  <2>1. CASE Answer(w, "not_ready")
    BY <1>4, <2>1, AnswerType DEF TypeOK, udp_park
  <2>2. CASE ~Answer(w, "not_ready")
    <3>1. /\ qst' = [qst EXCEPT ![cur[w]] = IF Relies(w) THEN "wait" ELSE "blind"]
          /\ UNCHANGED <<late, woken, nready>>
          /\ Return(w) \/ (Goto(w, "ask") /\ UNCHANGED <<cur, ret>>)
      BY <1>4, <2>2 DEF udp_park
    <3>2. qst' \in [Queries -> QueryStates]
      BY <3>1, ZenonT(30) DEF TypeOK
    <3>3. /\ wpc' \in [Workers -> WorkerSteps]
          /\ cur' \in [Workers -> Queries \cup {None}] /\ ret' \in [Workers -> {"events", "done"}]
      <4>1. CASE Return(w)
        BY <4>1 DEF TypeOK, Return
      <4>2. CASE Goto(w, "ask") /\ UNCHANGED <<cur, ret>>
        BY <4>2 DEF TypeOK
      <4>. QED  BY <3>1, <4>1, <4>2
    <3>. QED  BY <1>4, <3>1, <3>2, <3>3 DEF TypeOK, udp_park
  <2>. QED  BY <2>1, <2>2
<1>5. ASSUME NEW w \in Workers, park_fetch_request(w) PROVE TypeOK'
  <2>1. CASE Answer(w, "not_ready") /\ UNCHANGED fetch
    BY <1>5, <2>1, AnswerType DEF TypeOK, park_fetch_request
  <2>2. CASE fetch' = [fetch EXCEPT ![w] = Append(@, "z")] /\ Return(w) /\ UNCHANGED queryVars
    BY <1>5, <2>2, RangeAppend DEF TypeOK, park_fetch_request, Return
  <2>. QED  BY <1>5, <2>1, <2>2 DEF park_fetch_request, RingFull
<1>6. ASSUME NEW w \in Workers, WakePop(w) PROVE TypeOK'
  <2>1. wake' \in [Workers -> Seq({"ok", "failed", "other"})]
    BY <1>6, RangeTail DEF TypeOK, WakePop
  <2>2. qst' \in [Queries -> QueryStates]
    BY <1>6 DEF TypeOK, WakePop, Mark
  <2>. QED  BY <1>6, <2>1, <2>2 DEF TypeOK, WakePop
<1>7. ASSUME NEW w \in Workers, WakeEmpty(w) PROVE TypeOK'
  BY <1>7 DEF TypeOK, WakeEmpty
<1>8. ASSUME NEW w \in Workers, TakeOverflow(w) PROVE TypeOK'
  BY <1>8 DEF TypeOK, TakeOverflow
<1>9. ASSUME NEW w \in Workers, ServiceEnd(w) PROVE TypeOK'
  BY <1>9 DEF TypeOK, ServiceEnd
<1>10. ASSUME NEW w \in Workers, AskOther(w) PROVE TypeOK'
  <2>1. fetch' \in [Workers -> Seq({"z", "other"})]
    BY <1>10, RangeAppend DEF TypeOK, AskOther
  <2>2. side' \in 0 .. MaxSide
    BY <1>10, ParkAssumption DEF TypeOK, AskOther
  <2>. QED  BY <1>10, <2>1, <2>2 DEF TypeOK, AskOther
<1>11. ASSUME NEW w \in Workers, NEW q \in Queries, Receive(w, q) PROVE TypeOK'
  BY <1>11 DEF TypeOK, Receive
<1>12. ASSUME NEW w \in Workers, NEW q \in Queries, ServeDone(w, q) PROVE TypeOK'
  <2>1. /\ woken' \in [Queries -> BOOLEAN] /\ nready' \in [Queries -> BOOLEAN]
        /\ qst' \in [Queries -> QueryStates]
    <3>1. woken' \in [Queries -> BOOLEAN] /\ nready' \in [Queries -> BOOLEAN]
      BY <1>12, Zenon DEF TypeOK, ServeDone
    <3>2. PICK st \in {"running", "resume", "closed"} : qst' = [qst EXCEPT ![q] = st]
      BY <1>12 DEF ServeDone
    <3>3. qst' \in [Queries -> QueryStates]
      BY <3>2 DEF TypeOK
    <3>. QED  BY <3>1, <3>3
  <2>2. /\ wpc' \in [Workers -> WorkerSteps]
        /\ cur' \in [Workers -> Queries \cup {None}] /\ ret' \in [Workers -> {"events", "done"}]
    <3>1. CASE UNCHANGED workVars
      BY <3>1 DEF TypeOK
    <3>2. CASE /\ cur' = [cur EXCEPT ![w] = q] /\ ret' = [ret EXCEPT ![w] = "done"] /\ Goto(w, "lookup")
      BY <3>2 DEF TypeOK
    <3>. QED  BY <1>12, <3>1, <3>2 DEF ServeDone
  <2>. QED  BY <1>12, <2>1, <2>2 DEF TypeOK, ServeDone
<1>13. ASSUME NEW q \in Queries, Deadline(q) PROVE TypeOK'
  BY <1>13 DEF TypeOK, Deadline
<1>14. CASE fetch_issue
  <2>1. fetch' \in [Workers -> Seq({"z", "other"})] /\ slot' \in 0 .. 2
    <3>1. CASE slot' = 0 /\ fetch' = fetch
      BY <3>1 DEF TypeOK
    <3>2. ASSUME NEW w \in Workers, fetch[w] # <<>>, fetch' = [fetch EXCEPT ![w] = Tail(@)], slot' = slot
          PROVE  fetch' \in [Workers -> Seq({"z", "other"})] /\ slot' \in 0 .. 2
      BY <3>2, RangeTail DEF TypeOK
    <3>. QED  BY <1>14, <3>1, <3>2 DEF fetch_issue
  <2>2. /\ state' \in {ABSENT, LOADING, RESIDENT, ERROR} /\ freq' \in BOOLEAN /\ nfetch' \in 0 .. MaxFetch
        /\ bcast' \in [left : SUBSET Workers, trig : SUBSET Workers, key : {"ok", "failed", "other"}]
    <3>1. CASE Issue
      <4>1. state' \in {ABSENT, LOADING, RESIDENT, ERROR} /\ freq' \in BOOLEAN
        BY <3>1, ZenonT(30) DEF TypeOK, Issue
      <4>2. nfetch' \in 0 .. MaxFetch
        BY <3>1, ParkAssumption DEF TypeOK, Issue
      <4>3. bcast' \in [left : SUBSET Workers, trig : SUBSET Workers, key : {"ok", "failed", "other"}]
        BY <3>1 DEF TypeOK, Issue, Broadcast
      <4>. QED  BY <4>1, <4>2, <4>3
    <3>2. CASE Broadcast("other") /\ UNCHANGED <<state, freq, nfetch>>
      BY <3>2 DEF TypeOK, Broadcast
    <3>. QED  BY <1>14, <3>1, <3>2 DEF fetch_issue
  <2>. QED  BY <1>14, <2>1, <2>2 DEF TypeOK, fetch_issue
<1>15. CASE on_fetch_end
  BY <1>15, ZenonT(30) DEF TypeOK, on_fetch_end
<1>16. CASE fetch_job_finish
  <2>1. /\ state' \in {ABSENT, LOADING, RESIDENT, ERROR} /\ freq' \in BOOLEAN
        /\ bcast' \in [left : SUBSET Workers, trig : SUBSET Workers, key : {"ok", "failed", "other"}]
    BY <1>16, EndType DEF TypeOK, fetch_job_finish
  <2>. QED  BY <1>16, <2>1, ZenonT(30) DEF TypeOK, fetch_job_finish
<1>17. CASE FetchFails
  <2>1. /\ state' \in {ABSENT, LOADING, RESIDENT, ERROR} /\ freq' \in BOOLEAN
        /\ bcast' \in [left : SUBSET Workers, trig : SUBSET Workers, key : {"ok", "failed", "other"}]
    BY <1>17, EndType, ZenonT(30) DEF FetchFails
  <2>2. side' \in 0 .. MaxSide
    BY <1>17, ParkAssumption DEF TypeOK, FetchFails
  <2>. QED  BY <1>17, <2>1, <2>2 DEF TypeOK, FetchFails
<1>18. ASSUME NEW w \in Workers, BroadcastPush(w) PROVE TypeOK'
  <2>1. wake' \in [Workers -> Seq({"ok", "failed", "other"})] /\ overflow' \in [Workers -> BOOLEAN] /\ kq' = kq
    <3>1. bcast.key \in {"ok", "failed", "other"} /\ park_wake_push(w) /\ kq' = kq
      BY <1>18 DEF TypeOK, BroadcastPush, PushThenTrigger
    <3>2. CASE overflow' = [overflow EXCEPT ![w] = TRUE] /\ UNCHANGED wake
      BY <3>1, <3>2 DEF TypeOK
    <3>3. CASE wake' = [wake EXCEPT ![w] = Append(@, bcast.key)] /\ UNCHANGED overflow
      BY <3>1, <3>3, RangeAppend DEF TypeOK
    <3>. QED  BY <3>1, <3>2, <3>3 DEF park_wake_push
  <2>2. bcast' \in [left : SUBSET Workers, trig : SUBSET Workers, key : {"ok", "failed", "other"}]
    BY <1>18, ZenonT(30) DEF TypeOK, BroadcastPush
  <2>. QED  BY <1>18, <2>1, <2>2 DEF TypeOK, BroadcastPush
<1>19. ASSUME NEW w \in Workers, BroadcastTrigger(w) PROVE TypeOK'
  BY <1>19, ZenonT(90) DEF TypeOK, BroadcastTrigger, PushThenTrigger, trigger, NoBroadcast
<1>20. CASE job_execute
  BY <1>20, ZenonT(30) DEF TypeOK, job_execute
<1>21. CASE TakeSlot \/ FillSlot
  BY <1>21, ParkAssumption DEF TypeOK, TakeSlot, FillSlot
<1>22. CASE Evict \/ EvictState
  BY <1>22, ZenonT(30) DEF TypeOK, Evict, EvictState
<1>23. CASE BatchJob
  <2>1. side' \in 0 .. MaxSide
    BY <1>23, ParkAssumption DEF TypeOK, BatchJob
  <2>2. entry' \in BOOLEAN /\ state' \in {ABSENT, LOADING, RESIDENT, ERROR}
    BY <1>23, ZenonT(30) DEF TypeOK, BatchJob
  <2>. QED  BY <1>23, <2>1, <2>2 DEF TypeOK, BatchJob
<1>24. CASE UNCHANGED vars
  BY <1>24 DEF TypeOK, vars
<1>. QED
  BY <1>1, <1>2, <1>3, <1>4, <1>5, <1>6, <1>7, <1>8, <1>9, <1>10, <1>11, <1>12, <1>13, <1>14, <1>15,
     <1>16, <1>17, <1>18, <1>19, <1>20, <1>21, <1>22, <1>23, <1>24, SMTT(30)
  DEF Next, Worker, Ingest

\* The variables of Park have their types in every state.
THEOREM TypeCorrect == Spec => []TypeOK
BY InitType, NextType, PTL DEF Spec

-----------------------------------------------------------------------------
(* The zone.  entry and state change together but for the gap inside an    *)
(* eviction, and no fetch starts in the gap: the registry lock is held.    *)

ZoneInv ==
  /\ entry => state = RESIDENT
  /\ evicting => ~entry
  /\ LoadingHasFetch

\* Every step keeps what relates the zone's data, its state and the request for it.
LEMMA NextZone == TypeOK /\ ZoneInv /\ [Next]_vars => ZoneInv'
<1> SUFFICES ASSUME TypeOK, ZoneInv, [Next]_vars
             PROVE  ZoneInv'
  BY Zenon
<1> USE DEF zoneVars, queryVars, workVars, ringVars, askVars, ingVars, ABSENT, LOADING, RESIDENT, ERROR
<1>1. CASE UNCHANGED <<entry, state, evicting, freq>>
  BY <1>1 DEF ZoneInv, LoadingHasFetch
<1>2. CASE fetch_issue
  <2>1. entry' = entry /\ evicting' = evicting /\ ~evicting
    BY <1>2 DEF fetch_issue, Idle
  <2>2. CASE UNCHANGED <<state, freq>>
    BY <1>1, <2>1, <2>2
  <2>3. CASE ~entry /\ state' = LOADING /\ freq' = TRUE
    BY <2>1, <2>3 DEF ZoneInv, LoadingHasFetch
  <2>4. CASE ~entry /\ state' = ABSENT
    BY <2>1, <2>4 DEF ZoneInv, LoadingHasFetch
  <2>. QED  BY <1>2, <2>2, <2>3, <2>4, ZenonT(30) DEF fetch_issue, Issue
<1>3. CASE fetch_job_finish \/ FetchFails
  BY <1>3, <1>1 DEF ZoneInv, LoadingHasFetch, fetch_job_finish, FetchFails, fetch_complete, dbreg_fetch_end
<1>4. CASE job_execute
  BY <1>4 DEF ZoneInv, LoadingHasFetch, job_execute
<1>5. CASE Evict \/ EvictState
  BY <1>5 DEF ZoneInv, LoadingHasFetch, Evict, EvictState
<1>6. CASE BatchJob
  BY <1>6 DEF ZoneInv, LoadingHasFetch, BatchJob
<1>7. CASE \/ \E w \in Workers : Worker(w) \/ BroadcastPush(w) \/ BroadcastTrigger(w)
           \/ \E q \in Queries : Deadline(q)
           \/ on_fetch_end \/ TakeSlot \/ FillSlot \/ UNCHANGED vars
  BY <1>7, <1>1, ZenonT(60) DEF Worker, kevent, EventsEnd, Lookup, udp_park, park_fetch_request, WakePop, WakeEmpty,
     TakeOverflow, ServiceEnd, AskOther, Receive, ServeDone, BroadcastPush, BroadcastTrigger, Deadline,
     on_fetch_end, TakeSlot, FillSlot, vars
<1>. QED  BY <1>2, <1>3, <1>4, <1>5, <1>6, <1>7 DEF Next, Ingest

\* A zone is LOADING only while a request for it is active, whatever evictions, refused jobs and late
\* jobs did meanwhile (dbreg_fetch_end(), dbreg_evict_locked(), job_execute()).
THEOREM LoadingSafe == Spec => []LoadingHasFetch
<1>1. Init => ZoneInv
  BY DEF Init, ZoneInv, LoadingHasFetch, ABSENT, LOADING, RESIDENT
<1>2. ZoneInv => LoadingHasFetch
  BY DEF ZoneInv
<1>. QED  BY <1>1, <1>2, TypeCorrect, NextZone, PTL DEF Spec

-----------------------------------------------------------------------------
(* The query a worker handles is its own, and runs. *)

CurInv ==
  \A w \in Workers :
    /\ wpc[w] \in {"lookup", "park"} => cur[w] \in Queries /\ Home[cur[w]] = w /\ qst[cur[w]] = "running"
    /\ wpc[w] = "ask" => cur[w] \in Queries /\ Home[cur[w]] = w /\ qst[cur[w]] = "wait"

\* The query that makes the request relies on it.
LEMMA AskRelies == ASSUME NEW w \in Workers, Ask(w) PROVE Relies(w)
BY DEF Ask, Relies

\* A worker that is done with its query goes on; the queries of the other workers do not change.
LEMMA AnswerCur ==
  ASSUME TypeOK, CurInv, NEW w \in Workers, wpc[w] \in {"lookup", "park", "ask"}, NEW how, Answer(w, how)
  PROVE  CurInv'
<1>1. cur[w] \in Queries /\ Home[cur[w]] = w
  BY DEF CurInv
<1>2. wpc'[w] \in {"events", "done"}
  BY DEF TypeOK, Answer, Return, Goto
<1>3. ASSUME NEW v \in Workers, v # w
      PROVE  /\ wpc'[v] = wpc[v] /\ cur'[v] = cur[v]
             /\ cur[v] \in Queries /\ Home[cur[v]] = v => qst'[cur[v]] = qst[cur[v]]
  BY <1>1, <1>3 DEF TypeOK, Answer, Return, Goto
<1>. QED  BY <1>2, <1>3 DEF CurInv

\* Every step keeps the query that a worker handles its own.
LEMMA NextCur == TypeOK /\ CurInv /\ [Next]_vars => CurInv'
<1> SUFFICES ASSUME TypeOK, CurInv, [Next]_vars
             PROVE  CurInv'
  BY Zenon
<1> USE DEF zoneVars, queryVars, workVars, ringVars, askVars, ingVars
<1>1. CASE UNCHANGED <<qst, wpc, cur>>
  BY <1>1 DEF CurInv
<1>2. ASSUME NEW w \in Workers, UNCHANGED <<qst, cur>>, NEW pc \in {"kevent", "events", "drain", "overflow", "done"},
             Goto(w, pc)
      PROVE  CurInv'
  BY <1>2 DEF CurInv, TypeOK, Goto
<1>3. ASSUME NEW w \in Workers, Lookup(w) PROVE CurInv'
  <2>1. CASE Goto(w, "park") /\ UNCHANGED <<qst, cur>>
    BY <1>3, <2>1, ZenonT(30) DEF CurInv, TypeOK, Goto, Lookup
  <2>. QED  BY <1>3, <2>1, AnswerCur DEF Lookup
<1>4. ASSUME NEW w \in Workers, udp_park(w) PROVE CurInv'
  <2>1. CASE ~Answer(w, "not_ready")
    <3>1. /\ wpc[w] = "park" /\ qst' = [qst EXCEPT ![cur[w]] = IF Relies(w) THEN "wait" ELSE "blind"]
          /\ Return(w) \/ (Ask(w) /\ Goto(w, "ask") /\ UNCHANGED <<cur, ret>>)
      BY <1>4, <2>1 DEF udp_park
    <3>2. cur[w] \in Queries /\ Home[cur[w]] = w
      BY <3>1, SMTT(30) DEF CurInv
    <3>3. ASSUME NEW v \in Workers, v # w
          PROVE  /\ wpc'[v] = wpc[v] /\ cur'[v] = cur[v]
                 /\ cur[v] \in Queries /\ Home[cur[v]] = v => qst'[cur[v]] = qst[cur[v]]
      BY <3>1, <3>2, <3>3 DEF TypeOK, Return, Goto
    <3>4. CASE Return(w)
      BY <3>3, <3>4, ZenonT(90) DEF CurInv, TypeOK, Return, Goto
    <3>5. CASE Ask(w) /\ Goto(w, "ask") /\ UNCHANGED <<cur, ret>>
      <4>1. Relies(w)
        BY <3>5, AskRelies
      <4>2. qst'[cur[w]] = "wait" /\ wpc'[w] = "ask" /\ cur'[w] = cur[w]
        BY <3>1, <3>2, <3>5, <4>1 DEF TypeOK, Goto
      <4>. QED  BY <3>2, <3>3, <4>2 DEF CurInv
    <3>. QED  BY <3>1, <3>4, <3>5
  <2>. QED  BY <1>4, <2>1, AnswerCur DEF udp_park
<1>5. ASSUME NEW w \in Workers, park_fetch_request(w) PROVE CurInv'
  <2>1. CASE Return(w) /\ UNCHANGED queryVars
    BY <1>5, <2>1, ZenonT(30) DEF CurInv, TypeOK, Return, Goto
  <2>. QED  BY <1>5, <2>1, AnswerCur DEF park_fetch_request, RingFull
<1>6. ASSUME NEW w \in Workers, WakePop(w) \/ TakeOverflow(w) PROVE CurInv'
  <2>1. /\ wpc[w] \in {"drain", "overflow"} /\ wpc'[w] \in {"drain", "done"} /\ cur' = cur
        /\ \A v \in Workers : v # w => wpc'[v] = wpc[v]
    BY <1>6 DEF TypeOK, WakePop, TakeOverflow, Goto
  <2>2. ASSUME NEW q \in Queries, Home[q] # w PROVE qst'[q] = qst[q]
    BY <1>6, <2>2 DEF TypeOK, WakePop, TakeOverflow, Mark, park_wake_all, park_expire, Waiting, InTable
  <2>. QED  BY <2>1, <2>2 DEF CurInv
<1>7. ASSUME NEW w \in Workers, NEW q \in Queries, Receive(w, q) \/ ServeDone(w, q) PROVE CurInv'
  <2>1. /\ wpc[w] \in {"events", "done"} /\ qst[q] \notin {"running", "wait"} /\ Home[q] = w
        /\ \A p \in Queries : p # q => qst'[p] = qst[p]
        /\ \A v \in Workers : v # w => wpc'[v] = wpc[v] /\ cur'[v] = cur[v]
        /\ \/ wpc'[w] = wpc[w]
           \/ wpc'[w] = "lookup" /\ cur'[w] = q /\ qst'[q] = "running"
    BY <1>7, SMTT(30) DEF TypeOK, Receive, ServeDone, Goto, Done, InTable, Waiting
  <2>. QED  BY <2>1 DEF CurInv
<1>8. CASE \E w \in Workers : kevent(w) \/ EventsEnd(w) \/ WakeEmpty(w) \/ ServiceEnd(w)
  BY <1>8, <1>2, SMTT(30) DEF kevent, EventsEnd, WakeEmpty, ServiceEnd
<1>9. CASE \/ \E w \in Workers : AskOther(w) \/ BroadcastPush(w) \/ BroadcastTrigger(w)
           \/ \E q \in Queries : Deadline(q)
           \/ fetch_issue \/ on_fetch_end \/ fetch_job_finish \/ FetchFails \/ job_execute
           \/ TakeSlot \/ FillSlot \/ Evict \/ EvictState \/ BatchJob \/ UNCHANGED vars
  BY <1>9, <1>1, ZenonT(30) DEF AskOther, BroadcastPush, BroadcastTrigger, Deadline, fetch_issue, on_fetch_end, fetch_job_finish,
     FetchFails, job_execute, TakeSlot, FillSlot, Evict, EvictState, BatchJob, vars
<1>. QED  BY <1>3, <1>4, <1>5, <1>6, <1>7, <1>8, <1>9 DEF Next, Worker, Ingest

\* The query that a worker handles is one of its own sockets, and nobody else changes it.
LEMMA CurCorrect == Spec => []CurInv
<1>1. Init => CurInv
  BY ZenonT(30) DEF Init, CurInv
<1>. QED  BY <1>1, TypeCorrect, NextCur, PTL DEF Spec

-----------------------------------------------------------------------------
(* Wake-ups.  The broadcast pushes to one worker and triggers it before it *)
(* goes on, so at most one worker has an entry and not yet its trigger.    *)

\* After its last look at the ring and at the overflow flag a worker goes to sleep only.
Past(w) == wpc[w] \in {"done", "kevent"} \/ (wpc[w] \in {"lookup", "park", "ask"} /\ ret[w] = "done")

WakeInv ==
  /\ \A u, v \in bcast.trig : u = v
  /\ \A w \in Workers :
       /\ wpc[w] = "overflow" /\ wake[w] # <<>> => kq[w] \/ w \in bcast.trig
       /\ Past(w) /\ (wake[w] # <<>> \/ overflow[w]) => kq[w] \/ w \in bcast.trig

\* A step of a worker that leaves the rings alone.
LEMMA WorkerWake ==
  ASSUME TypeOK, WakeInv, NEW w \in Workers, UNCHANGED <<wake, overflow, bcast>>,
         \A v \in Workers : v # w => wpc'[v] = wpc[v] /\ ret'[v] = ret[v] /\ kq'[v] = kq[v],
         wpc'[w] = "overflow" => wake[w] = <<>>,
         Past(w)' => Past(w) /\ kq'[w] = kq[w]
  PROVE  WakeInv'
<1>1. ASSUME NEW v \in Workers, v # w PROVE Past(v)' <=> Past(v)
  BY <1>1 DEF Past
<1>2. \A u, v \in bcast'.trig : u = v
  BY DEF WakeInv
<1>3. ASSUME NEW v \in Workers
      PROVE  /\ wpc'[v] = "overflow" /\ wake'[v] # <<>> => kq'[v] \/ v \in bcast'.trig
             /\ Past(v)' /\ (wake'[v] # <<>> \/ overflow'[v]) => kq'[v] \/ v \in bcast'.trig
  <2>1. CASE v = w
    BY <2>1 DEF WakeInv
  <2>2. CASE v # w
    BY <1>1, <2>2 DEF WakeInv
  <2>. QED  BY <2>1, <2>2
<1>. QED  BY <1>2, <1>3 DEF WakeInv

\* Every step keeps the trigger behind what was pushed: there is no order of pushes, drains and triggers that
\* leaves a worker past its last look without one.
LEMMA NextWake == TypeOK /\ WakeInv /\ [Next]_vars => WakeInv'
<1> SUFFICES ASSUME TypeOK, WakeInv, [Next]_vars
             PROVE  WakeInv'
  BY Zenon
<1> USE DEF zoneVars, queryVars, workVars, ringVars, askVars, ingVars
<1>1. CASE UNCHANGED <<wpc, ret, wake, overflow, kq, bcast>>
  BY <1>1 DEF WakeInv, Past
<1>2. ASSUME NEW w \in Workers, kevent(w) PROVE WakeInv'
  <2>1. /\ UNCHANGED <<wake, overflow, bcast, ret>> /\ wpc'[w] = "events"
        /\ \A v \in Workers : v # w => wpc'[v] = wpc[v] /\ kq'[v] = kq[v]
    BY <1>2 DEF TypeOK, kevent, Goto
  <2>2. ~Past(w)'
    BY <2>1 DEF Past
  <2>. QED  BY <2>1, <2>2, WorkerWake
<1>3. ASSUME NEW w \in Workers, EventsEnd(w) \/ ServiceEnd(w) PROVE WakeInv'
  <2>1. /\ UNCHANGED <<wake, overflow, bcast, ret, kq>>
        /\ wpc'[w] = "drain" \/ (wpc[w] = "done" /\ wpc'[w] = "kevent")
        /\ \A v \in Workers : v # w => wpc'[v] = wpc[v]
    BY <1>3 DEF TypeOK, EventsEnd, ServiceEnd, Goto
  <2>2. Past(w)' => Past(w)
    BY <2>1 DEF Past
  <2>. QED  BY <2>1, <2>2, WorkerWake
<1>4. ASSUME NEW w \in Workers, Lookup(w) \/ udp_park(w) \/ park_fetch_request(w) PROVE WakeInv'
  <2>1. UNCHANGED <<wake, overflow, bcast, kq>> /\ wpc[w] \in {"lookup", "park", "ask"}
    BY <1>4, SMTT(30) DEF Lookup, udp_park, park_fetch_request
  <2>2. Return(w) \/ (wpc' = [wpc EXCEPT ![w] = "park"] /\ ret' = ret)
                  \/ (wpc' = [wpc EXCEPT ![w] = "ask"] /\ ret' = ret)
    BY <1>4 DEF Lookup, udp_park, park_fetch_request, RingFull, Answer, Goto
  <2>3. /\ \A v \in Workers : v # w => wpc'[v] = wpc[v] /\ ret'[v] = ret[v]
        /\ \/ wpc'[w] = ret[w] /\ ret'[w] = "events"
           \/ wpc'[w] \in {"park", "ask"} /\ ret'[w] = ret[w]
    BY <2>2 DEF TypeOK, Return, Goto
  <2>4. ret[w] \in {"events", "done"}
    BY DEF TypeOK
  <2>5. Past(w)' => Past(w)
    BY <2>1, <2>3, <2>4 DEF Past
  <2>6. wpc'[w] # "overflow"
    BY <2>3, <2>4
  <2>. QED  BY <2>1, <2>3, <2>5, <2>6, WorkerWake, SMTT(30)
<1>5. ASSUME NEW w \in Workers, WakePop(w) PROVE WakeInv'
  <2>1. /\ UNCHANGED <<wpc, ret, overflow, kq, bcast>> /\ wpc[w] = "drain"
        /\ \A v \in Workers : v # w => wake'[v] = wake[v]
    BY <1>5 DEF TypeOK, WakePop
  <2>2. \A v \in Workers : Past(v)' <=> Past(v)
    BY <2>1 DEF Past
  <2>3. ~Past(w)
    BY <2>1 DEF Past
  <2>. QED  BY <2>1, <2>2, <2>3 DEF WakeInv
<1>6. ASSUME NEW w \in Workers, WakeEmpty(w) PROVE WakeInv'
  <2>1. /\ UNCHANGED <<wake, overflow, bcast, ret, kq>> /\ wpc'[w] = "overflow" /\ wake[w] = <<>>
        /\ \A v \in Workers : v # w => wpc'[v] = wpc[v]
    BY <1>6 DEF TypeOK, WakeEmpty, Goto
  <2>2. ~Past(w)'
    BY <2>1 DEF Past
  <2>. QED  BY <2>1, <2>2, WorkerWake
<1>7. ASSUME NEW w \in Workers, TakeOverflow(w) PROVE WakeInv'
  <2>1. /\ UNCHANGED <<wake, bcast, ret, kq>> /\ wpc[w] = "overflow" /\ wpc'[w] = "done" /\ overflow'[w] = FALSE
        /\ \A v \in Workers : v # w => wpc'[v] = wpc[v] /\ overflow'[v] = overflow[v]
    BY <1>7 DEF TypeOK, TakeOverflow, Goto
  <2>2. \A v \in Workers : v # w => (Past(v)' <=> Past(v))
    BY <2>1 DEF Past
  <2>. QED  BY <2>1, <2>2 DEF WakeInv
<1>8. ASSUME NEW w \in Workers, NEW q \in Queries, Receive(w, q) \/ ServeDone(w, q) PROVE WakeInv'
  <2>1. /\ UNCHANGED <<wake, overflow, bcast, kq>>
        /\ \A v \in Workers : v # w => wpc'[v] = wpc[v] /\ ret'[v] = ret[v]
        /\ \/ wpc'[w] = "lookup" /\ (ret'[w] = "events" \/ wpc[w] = "done")
           \/ wpc[w] = "done" /\ wpc'[w] = "done"
    BY <1>8 DEF TypeOK, Receive, ServeDone, Goto
  <2>2. Past(w)' => Past(w)
    BY <2>1 DEF Past
  <2>. QED  BY <2>1, <2>2, WorkerWake
<1>9. CASE fetch_issue \/ fetch_job_finish \/ FetchFails
  <2>1. UNCHANGED <<wpc, ret, wake, overflow, kq>> /\ bcast.trig = {} /\ (bcast' = bcast \/ bcast'.trig = {})
    BY <1>9 DEF fetch_issue, Issue, fetch_job_finish, FetchFails, fetch_complete, Broadcast, Idle
  <2>2. bcast'.trig = {} /\ \A w \in Workers : Past(w)' <=> Past(w)
    BY <2>1, SMTT(30) DEF Past
  <2>. QED  BY <2>1, <2>2, SMTT(30) DEF WakeInv
<1>10. ASSUME NEW w \in Workers, BroadcastPush(w) PROVE WakeInv'
  <2>1. /\ UNCHANGED <<wpc, ret, kq>> /\ bcast.trig = {} /\ bcast'.trig = {w}
        /\ \A v \in Workers : v # w => wake'[v] = wake[v] /\ overflow'[v] = overflow[v]
    BY <1>10 DEF TypeOK, BroadcastPush, PushThenTrigger, park_wake_push
  <2>2. \A v \in Workers : Past(v)' <=> Past(v)
    BY <2>1 DEF Past
  <2>. QED  BY <2>1, <2>2 DEF WakeInv
<1>11. ASSUME NEW w \in Workers, BroadcastTrigger(w) PROVE WakeInv'
  <2>1. /\ UNCHANGED <<wpc, ret, wake, overflow>> /\ w \in bcast.trig /\ bcast'.trig = {} /\ kq'[w] = TRUE
        /\ \A v \in Workers : v # w => kq'[v] = kq[v]
    BY <1>11 DEF TypeOK, BroadcastTrigger, PushThenTrigger, trigger, NoBroadcast
  <2>2. \A v \in Workers : Past(v)' <=> Past(v)
    BY <2>1 DEF Past
  <2>3. \A v \in bcast.trig : v = w
    BY <2>1, SMTT(30) DEF WakeInv
  <2>. QED  BY <2>1, <2>2, <2>3 DEF WakeInv
<1>12. CASE \/ \E w \in Workers : AskOther(w)
            \/ \E q \in Queries : Deadline(q)
            \/ on_fetch_end \/ job_execute \/ TakeSlot \/ FillSlot \/ Evict \/ EvictState \/ BatchJob
            \/ UNCHANGED vars
  BY <1>12, <1>1 DEF AskOther, Deadline, on_fetch_end, job_execute, TakeSlot, FillSlot, Evict, EvictState,
     BatchJob, vars
<1>. QED
  BY <1>2, <1>3, <1>4, <1>5, <1>6, <1>7, <1>8, <1>9, <1>10, <1>11, <1>12 DEF Next, Worker, Ingest

\* A worker never sleeps in kevent() on a wake that it was sent, also when the wake came while the worker
\* was in park_service(): park_wake_broadcast() triggers the kqueue after the push.
THEOREM WakeSafe == Spec => []NoLostWake
<1>1. Init => WakeInv
  BY DEF Init, WakeInv, NoBroadcast
<1>2. WakeInv => NoLostWake
  BY DEF WakeInv, NoLostWake, Past
<1>. QED  BY <1>1, <1>2, TypeCorrect, NextWake, PTL DEF Spec

-----------------------------------------------------------------------------
(* What wakes the queries of w that wait; no step but the wake itself ends it. *)
Coming(w) ==
  \/ \E v \in Workers : "z" \in Range(fetch[v])
  \/ slot = 2
  \/ freq
  \/ w \in bcast.left /\ bcast.key # "other"
  \/ "ok" \in Range(wake[w]) \/ "failed" \in Range(wake[w])
  \/ overflow[w]

AskInv ==
  \A q \in Queries :
    qst[q] = "wait" => (q = cur[Home[q]] /\ wpc[Home[q]] = "ask") \/ Coming(Home[q])

\* What is on its way stays so while the rings, the slot, the request and the broadcast are as they were.
LEMMA ComingFrame ==
  ASSUME UNCHANGED <<fetch, slot, freq, bcast, wake, overflow>>
  PROVE  \A v \in Workers : Coming(v) => Coming(v)'
BY DEF Coming

\* A step of w that parks nobody and stops nothing that is on its way.
LEMMA AskKept ==
  ASSUME TypeOK, AskInv, NEW w \in Workers,
         \A v \in Workers : Coming(v) => Coming(v)',
         \A v \in Workers : v # w => wpc'[v] = wpc[v] /\ cur'[v] = cur[v],
         wpc[w] # "ask" \/ (wpc'[w] = wpc[w] /\ cur'[w] = cur[w]),
         \A q \in Queries : qst'[q] = "wait" => qst[q] = "wait"
  PROVE  AskInv'
BY ParkAssumption DEF AskInv

\* The same of a step of the other threads.
LEMMA AskKeptOther ==
  ASSUME TypeOK, AskInv, UNCHANGED <<qst, wpc, cur>>, \A v \in Workers : Coming(v) => Coming(v)'
  PROVE  AskInv'
BY ParkAssumption DEF AskInv

\* Every request for the zone ends in a broadcast to every worker or in a request that is active:
\* fetch_issue() drops one without a word only when there is an active one.
LEMMA IssueComing ==
  ASSUME TypeOK, ZoneInv, Issue
  PROVE  \A v \in Workers : Coming(v)'
<1>1. freq' \/ (bcast'.left = Workers /\ bcast'.key # "other")
  BY DEF Issue, Broadcast, ZoneInv, LoadingHasFetch, TypeOK
<1>. QED  BY <1>1, ZenonT(30) DEF Coming

\* Every step keeps something on its way to each query that relies on it.
LEMMA NextAsk == TypeOK /\ ZoneInv /\ CurInv /\ AskInv /\ [Next]_vars => AskInv'
<1> SUFFICES ASSUME TypeOK, ZoneInv, CurInv, AskInv, [Next]_vars
             PROVE  AskInv'
  BY Zenon
<1> USE DEF zoneVars, queryVars, workVars, ringVars, askVars, ingVars
<1>1. ASSUME NEW w \in Workers, kevent(w) \/ EventsEnd(w) \/ WakeEmpty(w) \/ ServiceEnd(w) PROVE AskInv'
  <2>1. /\ UNCHANGED <<fetch, slot, freq, bcast, wake, overflow, qst, cur>> /\ wpc[w] # "ask"
        /\ \A v \in Workers : v # w => wpc'[v] = wpc[v]
    BY <1>1, SMTT(30) DEF TypeOK, kevent, EventsEnd, WakeEmpty, ServiceEnd, Goto
  <2>. QED  BY <2>1, ComingFrame, AskKept, SMTT(30)
<1>2. ASSUME NEW w \in Workers, Lookup(w) PROVE AskInv'
  <2>1. UNCHANGED <<fetch, slot, freq, bcast, wake, overflow>> /\ wpc[w] = "lookup"
    BY <1>2, ZenonT(30) DEF Lookup
  <2>2. \/ Answer(w, "answered") \/ Answer(w, "not_ready")
        \/ wpc' = [wpc EXCEPT ![w] = "park"] /\ UNCHANGED <<qst, cur>>
    BY <1>2, ZenonT(30) DEF Lookup, Goto
  <2>3. /\ \A v \in Workers : v # w => wpc'[v] = wpc[v] /\ cur'[v] = cur[v]
        /\ \A q \in Queries : qst'[q] = "wait" => qst[q] = "wait"
    BY <2>2 DEF TypeOK, Answer, Return, Goto
  <2>. QED  BY <2>1, <2>3, ComingFrame, AskKept, ZenonT(30)
<1>3. ASSUME NEW w \in Workers, udp_park(w) PROVE AskInv'
  <2>1. UNCHANGED <<fetch, slot, freq, bcast, wake, overflow, state>> /\ wpc[w] = "park"
    BY <1>3, ZenonT(30) DEF udp_park
  <2>2. CASE Answer(w, "not_ready")
    <3>1. /\ \A v \in Workers : v # w => wpc'[v] = wpc[v] /\ cur'[v] = cur[v]
          /\ \A q \in Queries : qst'[q] = "wait" => qst[q] = "wait"
      BY <2>2 DEF TypeOK, Answer, Return, Goto
    <3>. QED  BY <2>1, <3>1, ComingFrame, AskKept, ZenonT(30)
  <2>3. CASE ~Answer(w, "not_ready")
    <3>1. /\ qst' = [qst EXCEPT ![cur[w]] = IF Relies(w) THEN "wait" ELSE "blind"]
          /\ \/ ~Ask(w) /\ Return(w)
             \/ Ask(w) /\ wpc' = [wpc EXCEPT ![w] = "ask"] /\ cur' = cur
      BY <1>3, <2>3, ZenonT(30) DEF udp_park, Goto
    <3>2. /\ cur[w] \in Queries /\ Home[cur[w]] = w
          /\ \A v \in Workers : v # w => wpc'[v] = wpc[v] /\ cur'[v] = cur[v]
          /\ \A q \in Queries : q # cur[w] => qst'[q] = qst[q]
      BY <2>1, <3>1, SMTT(30) DEF CurInv, TypeOK, Return, Goto
    <3>3. ASSUME qst'[cur[w]] = "wait"
          PROVE  (cur[w] = cur'[w] /\ wpc'[w] = "ask") \/ Coming(w)'
      <4>1. Relies(w)
        BY <3>1, <3>2, <3>3 DEF TypeOK
      <4>2. CASE Ask(w)
        BY <3>1, <4>2 DEF TypeOK
      <4>3. CASE ~Ask(w) /\ Waiting(w) # {}
        <5>1. PICK p \in Waiting(w) : qst[p] = "wait"
          BY <4>1, <4>3 DEF Relies
        <5>2. p \in Queries /\ Home[p] = w
          BY DEF Waiting, InTable
        <5>3. Coming(w)
          BY <2>1, <5>1, <5>2 DEF AskInv
        <5>. QED  BY <2>1, <5>3, ComingFrame
      <4>4. CASE ~Ask(w) /\ Waiting(w) = {}
        <5>1. state = LOADING
          BY <4>1, <4>4 DEF Relies, Ask
        <5>2. Coming(w)
          BY <5>1 DEF ZoneInv, LoadingHasFetch, Coming
        <5>. QED  BY <2>1, <5>2, ComingFrame
      <4>. QED  BY <4>2, <4>3, <4>4
    <3>4. ASSUME NEW q \in Queries, q # cur[w], qst'[q] = "wait"
          PROVE  (q = cur'[Home[q]] /\ wpc'[Home[q]] = "ask") \/ Coming(Home[q])'
      <4>1. Home[q] \in Workers /\ qst[q] = "wait"
        BY <3>2, <3>4, ParkAssumption
      <4>2. CASE Home[q] = w
        BY <2>1, <4>1, <4>2, ComingFrame DEF AskInv
      <4>3. CASE Home[q] # w
        BY <2>1, <3>2, <4>1, <4>3, ComingFrame DEF AskInv
      <4>. QED  BY <4>2, <4>3
    <3>. QED  BY <3>2, <3>3, <3>4, ZenonT(30) DEF AskInv
  <2>. QED  BY <2>2, <2>3, ZenonT(30)
<1>4. ASSUME NEW w \in Workers, park_fetch_request(w) PROVE AskInv'
  <2>1. CASE Answer(w, "not_ready") /\ UNCHANGED fetch
    <3>1. UNCHANGED <<fetch, slot, freq, bcast, wake, overflow>> /\ wpc[w] = "ask"
      BY <1>4, <2>1, ZenonT(30) DEF park_fetch_request
    <3>2. /\ cur[w] \in Queries /\ qst'[cur[w]] = "not_ready"
          /\ \A v \in Workers : v # w => wpc'[v] = wpc[v] /\ cur'[v] = cur[v]
          /\ \A q \in Queries : q # cur[w] => qst'[q] = qst[q]
      BY <2>1, <3>1 DEF CurInv, TypeOK, Answer, Return, Goto
    <3>3. ASSUME NEW q \in Queries, qst'[q] = "wait"
          PROVE  (q = cur'[Home[q]] /\ wpc'[Home[q]] = "ask") \/ Coming(Home[q])'
      <4>1. Home[q] \in Workers /\ q # cur[w] /\ qst[q] = "wait"
        BY <3>2, <3>3, ParkAssumption
      <4>2. CASE Home[q] = w
        BY <3>1, <4>1, <4>2, ComingFrame DEF AskInv
      <4>3. CASE Home[q] # w
        BY <3>1, <3>2, <4>1, <4>3, ComingFrame, ZenonT(30) DEF AskInv
      <4>. QED  BY <4>2, <4>3
    <3>. QED  BY <3>3 DEF AskInv
  <2>2. CASE fetch' = [fetch EXCEPT ![w] = Append(@, "z")]
    <3>1. "z" \in Range(fetch'[w])
      <4>1. fetch[w] \in Seq({"z", "other"}) /\ fetch'[w] = Append(fetch[w], "z")
        BY <2>2 DEF TypeOK
      <4>2. "z" \in {"z", "other"}
        OBVIOUS
      <4>3. Range(Append(fetch[w], "z")) = Range(fetch[w]) \cup {"z"}
        BY <4>1, <4>2, RangeAppend, Zenon
      <4>. QED  BY <4>1, <4>3
    <3>2. \A v \in Workers : Coming(v)'
      BY <3>1 DEF Coming
    <3>. QED  BY <3>2, ParkAssumption DEF AskInv
  <2>. QED  BY <1>4, <2>1, <2>2, ZenonT(30) DEF park_fetch_request, RingFull
<1>5. ASSUME NEW w \in Workers, WakePop(w) PROVE AskInv'
  <2>1. /\ UNCHANGED <<fetch, slot, freq, bcast, overflow, wpc, cur>> /\ wpc[w] = "drain"
        /\ \A v \in Workers : v # w => wake'[v] = wake[v]
        /\ wake'[w] = Tail(wake[w]) /\ wake[w] # <<>> /\ wake[w] \in Seq({"ok", "failed", "other"})
    BY <1>5 DEF TypeOK, WakePop
  <2>2. Range(wake[w]) \subseteq Range(Tail(wake[w])) \cup {Head(wake[w])}
    BY <2>1, RangeTail
  <2>3. \A q \in Queries : qst'[q] = "wait" => qst[q] = "wait"
    BY <1>5 DEF TypeOK, WakePop, Mark
  <2>4. ASSUME NEW q \in Queries, qst'[q] = "wait"
        PROVE  (q = cur'[Home[q]] /\ wpc'[Home[q]] = "ask") \/ Coming(Home[q])'
    <3>1. Home[q] \in Workers /\ qst[q] = "wait"
      BY <2>3, <2>4, ParkAssumption, ZenonT(30)
    <3>2. CASE Home[q] # w
      <4>1. Coming(Home[q]) => Coming(Home[q])'
        BY <2>1, <3>1, <3>2 DEF Coming
      <4>. QED  BY <2>1, <3>1, <4>1 DEF AskInv
    <3>3. CASE Home[q] = w
      <4>1. q \in Waiting(w)
        BY <3>1, <3>3 DEF Waiting, InTable
      <4>2. Head(wake[w]) \notin {"ok", "failed"}
        <5>1. ASSUME NEW st \in {"ready", "timeout"}, Mark(Waiting(w), st) PROVE FALSE
          BY <2>4, <4>1, <5>1 DEF Mark
        <5>2. CASE Head(wake[w]) = "ok"
          BY <1>5, <5>1, <5>2 DEF WakePop
        <5>3. CASE Head(wake[w]) = "failed"
          BY <1>5, <5>1, <5>3, ZenonT(30) DEF WakePop
        <5>. QED  BY <5>2, <5>3
      <4>3. Coming(w)
        BY <2>1, <3>1, <3>3, ZenonT(30) DEF AskInv
      <4>4. Coming(w)'
        BY <2>1, <2>2, <4>2, <4>3 DEF Coming
      <4>. QED  BY <3>3, <4>4
    <3>. QED  BY <3>2, <3>3
  <2>. QED  BY <2>4 DEF AskInv
<1>6. ASSUME NEW w \in Workers, TakeOverflow(w) PROVE AskInv'
  <2>1. /\ UNCHANGED <<fetch, slot, freq, bcast, wake, cur>> /\ wpc[w] = "overflow"
        /\ \A v \in Workers : v # w => overflow'[v] = overflow[v] /\ wpc'[v] = wpc[v]
    BY <1>6 DEF TypeOK, TakeOverflow, Goto
  <2>2. \A q \in Queries : qst'[q] = "wait" => qst[q] = "wait"
    BY <1>6, ZenonT(30) DEF TypeOK, TakeOverflow
  <2>3. ASSUME NEW q \in Queries, qst'[q] = "wait"
        PROVE  (q = cur'[Home[q]] /\ wpc'[Home[q]] = "ask") \/ Coming(Home[q])'
    <3>1. Home[q] \in Workers /\ qst[q] = "wait"
      BY <2>2, <2>3, ParkAssumption
    <3>2. CASE Home[q] # w
      <4>1. Coming(Home[q]) => Coming(Home[q])'
        BY <2>1, <3>1, <3>2 DEF Coming
      <4>. QED  BY <2>1, <3>1, <3>2, <4>1, ZenonT(30) DEF AskInv
    <3>3. CASE Home[q] = w
      <4>1. q \in Waiting(w)
        BY <3>1, <3>3 DEF Waiting, InTable
      <4>2. ~overflow[w]
        BY <1>6, <2>3, <4>1, SMTT(30) DEF TakeOverflow, park_wake_all
      <4>3. Coming(w)
        <5>1. (q = cur[w] /\ wpc[w] = "ask") \/ Coming(w)
          BY <3>1, <3>3, ZenonT(30) DEF AskInv
        <5>2. wpc[w] # "ask"
          BY <2>1, Zenon
        <5>. QED  BY <5>1, <5>2, Zenon
      <4>4. Coming(w)'
        BY <2>1, <4>2, <4>3, ZenonT(30) DEF Coming
      <4>. QED  BY <3>3, <4>4
    <3>. QED  BY <3>2, <3>3
  <2>. QED  BY <2>3 DEF AskInv
<1>7. ASSUME NEW w \in Workers, AskOther(w) PROVE AskInv'
  <2>1. /\ UNCHANGED <<slot, freq, bcast, wake, overflow, qst, wpc, cur>>
        /\ fetch' = [fetch EXCEPT ![w] = Append(@, "other")]
    BY <1>7 DEF AskOther
  <2>2. \A v \in Workers : Range(fetch[v]) \subseteq Range(fetch'[v])
    <3>1. fetch[w] \in Seq({"z", "other"}) /\ fetch'[w] = Append(fetch[w], "other")
      BY <2>1 DEF TypeOK
    <3>2. \A v \in Workers : v # w => fetch'[v] = fetch[v]
      BY <2>1 DEF TypeOK
    <3>3. Range(fetch'[w]) = Range(fetch[w]) \cup {"other"}
      <4>1. "other" \in {"z", "other"}
        OBVIOUS
      <4>2. Range(Append(fetch[w], "other")) = Range(fetch[w]) \cup {"other"}
        BY <3>1, <4>1, RangeAppend, Zenon
      <4>. QED  BY <3>1, <4>2
    <3>. QED  BY <3>2, <3>3
  <2>3. \A v \in Workers : Coming(v) => Coming(v)'
    BY <2>1, <2>2 DEF Coming
  <2>. QED  BY <2>1, <2>3, AskKeptOther
<1>8. ASSUME NEW w \in Workers, NEW q \in Queries, Receive(w, q) \/ ServeDone(w, q) PROVE AskInv'
  <2>1. /\ UNCHANGED <<fetch, slot, freq, bcast, wake, overflow>> /\ wpc[w] # "ask"
        /\ \A v \in Workers : v # w => wpc'[v] = wpc[v] /\ cur'[v] = cur[v]
    BY <1>8, SMTT(30) DEF TypeOK, Receive, ServeDone, Goto
  <2>2. PICK st \in {"running", "resume", "closed"} : qst' = [qst EXCEPT ![q] = st]
    BY <1>8, ZenonT(30) DEF Receive, ServeDone
  <2>3. \A p \in Queries : qst'[p] = "wait" => qst[p] = "wait"
    BY <2>2 DEF TypeOK
  <2>. QED  BY <2>1, <2>3, ComingFrame, AskKept, ZenonT(30)
<1>9. CASE fetch_issue
  <2>1. UNCHANGED <<qst, wpc, cur, wake, overflow>> /\ bcast.left = {}
    BY <1>9, Zenon DEF fetch_issue, Idle
  <2>2. CASE Issue
    BY <2>1, <2>2, IssueComing, AskKeptOther
  <2>3. ASSUME NEW w \in Workers, fetch[w] # <<>>, fetch' = [fetch EXCEPT ![w] = Tail(@)],
               slot' = slot, freq' = freq, Head(fetch[w]) # "z"
        PROVE  AskInv'
    <3>1. \A v \in Workers : "z" \in Range(fetch[v]) => "z" \in Range(fetch'[v])
      BY <2>3, RangeTail DEF TypeOK
    <3>2. \A v \in Workers : Coming(v) => Coming(v)'
      BY <2>1, <2>3, <3>1 DEF Coming
    <3>. QED  BY <2>1, <3>2, AskKeptOther
  <2>. QED  BY <1>9, <2>2, <2>3 DEF fetch_issue
<1>10. CASE fetch_job_finish \/ FetchFails
  <2>1. UNCHANGED <<qst, wpc, cur, fetch, slot, wake, overflow>>
    BY <1>10, ZenonT(30) DEF fetch_job_finish, FetchFails
  <2>2. UNCHANGED <<freq, bcast>> \/ (bcast'.left = Workers /\ bcast'.key # "other")
    BY <1>10, SMTT(30) DEF fetch_job_finish, FetchFails, fetch_complete, Broadcast
  <2>3. \A v \in Workers : Coming(v) => Coming(v)'
    BY <2>1, <2>2 DEF Coming
  <2>. QED  BY <2>1, <2>3, AskKeptOther
<1>11. ASSUME NEW w \in Workers, BroadcastPush(w) PROVE AskInv'
  <2>1. /\ UNCHANGED <<qst, wpc, cur, fetch, slot, freq>>
        /\ bcast'.left = bcast.left \ {w} /\ bcast'.key = bcast.key
        /\ \A v \in Workers : v # w => wake'[v] = wake[v] /\ overflow'[v] = overflow[v]
    BY <1>11 DEF TypeOK, BroadcastPush, PushThenTrigger, park_wake_push
  <2>2. \/ overflow'[w] = TRUE
        \/ overflow'[w] = overflow[w] /\ Range(wake'[w]) = Range(wake[w]) \cup {bcast.key}
    <3>1. bcast.key \in {"ok", "failed", "other"} /\ park_wake_push(w)
      BY <1>11 DEF TypeOK, BroadcastPush, PushThenTrigger
    <3>2. wake[w] \in Seq({"ok", "failed", "other"})
      BY DEF TypeOK
    <3>3. Range(Append(wake[w], bcast.key)) = Range(wake[w]) \cup {bcast.key}
      BY <3>1, <3>2, RangeAppend, Zenon
    <3>. QED  BY <3>1, <3>3, ZenonT(30) DEF TypeOK, park_wake_push
  <2>3. Coming(w) => Coming(w)'
    <3>1. bcast.key \in {"ok", "failed", "other"}
      BY SMTT(30) DEF TypeOK
    <3>. QED  BY <2>1, <2>2, <3>1 DEF Coming
  <2>4. \A v \in Workers : Coming(v) => Coming(v)'
    BY <2>1, <2>3 DEF Coming
  <2>. QED  BY <2>1, <2>4, AskKeptOther
<1>12. ASSUME NEW w \in Workers, BroadcastTrigger(w) PROVE AskInv'
  <2>1. /\ UNCHANGED <<qst, wpc, cur, fetch, slot, freq, wake, overflow>>
        /\ bcast.left = {} \/ (bcast'.left = bcast.left /\ bcast'.key = bcast.key)
    BY <1>12 DEF TypeOK, BroadcastTrigger, PushThenTrigger, trigger, NoBroadcast
  <2>2. \A v \in Workers : Coming(v) => Coming(v)'
    BY <2>1 DEF Coming
  <2>. QED  BY <2>1, <2>2, AskKeptOther
<1>13. CASE TakeSlot \/ FillSlot
  <2>1. UNCHANGED <<qst, wpc, cur, fetch, freq, bcast, wake, overflow>> /\ (slot # 2 \/ slot' = 2)
    BY <1>13, SMTT(30) DEF TakeSlot, FillSlot
  <2>2. \A v \in Workers : Coming(v) => Coming(v)'
    BY <2>1 DEF Coming
  <2>. QED  BY <2>1, <2>2, AskKeptOther
<1>14. CASE \/ \E q \in Queries : Deadline(q)
            \/ on_fetch_end \/ job_execute \/ Evict \/ EvictState \/ BatchJob \/ UNCHANGED vars
  <2>1. UNCHANGED <<fetch, slot, freq, bcast, wake, overflow, qst, wpc, cur>>
    BY <1>14 DEF Deadline, on_fetch_end, job_execute, Evict, EvictState, BatchJob, vars
  <2>. QED  BY <2>1, ComingFrame, AskKeptOther, ZenonT(30)
<1>. QED
  BY <1>1, <1>2, <1>3, <1>4, <1>5, <1>6, <1>7, <1>8, <1>9, <1>10, <1>11, <1>12, <1>13, <1>14
  DEF Next, Worker, Ingest

\* A query that asked, or that found somebody waiting or the zone LOADING, always has something on its
\* way that wakes it: nothing is lost between the rings (park_fetch_request(), park_wake_push()), the
\* fetch table and the overflow flags, whatever their sizes.
THEOREM AskerSafe == Spec => []AskerHasWaker
<1>1. Init => AskInv /\ ZoneInv /\ CurInv
  BY DEF Init, AskInv, ZoneInv, CurInv, LoadingHasFetch, ABSENT, LOADING, RESIDENT
<1>2. AskInv => AskerHasWaker
  <2> SUFFICES ASSUME AskInv, NEW w \in Workers, NEW q \in Waiting(w), qst[q] # "blind", q # cur[w]
               PROVE  Waker(w)
    BY DEF AskerHasWaker
  <2>1. q \in Queries /\ Home[q] = w /\ qst[q] = "wait"
    BY DEF Waiting, InTable
  <2>2. Coming(w)
    BY <2>1 DEF AskInv
  <2>. QED  BY <2>2 DEF Coming, Waker
<1>. QED  BY <1>1, <1>2, TypeCorrect, NextZone, NextCur, NextAsk, PTL DEF Spec

-----------------------------------------------------------------------------
(* The capacities of the rings and of the park tables. *)

CapInv ==
  \A w \in Workers :
    /\ Len(wake[w]) <= WakeRing /\ Len(fetch[w]) <= FetchRing
    /\ IsFiniteSet(InTable(w)) /\ Cardinality(InTable(w)) <= places

\* A table that nothing entered keeps its bound.
LEMMA TableKept ==
  ASSUME TypeOK, CapInv, NEW w \in Workers, places' = places, InTable(w)' \subseteq InTable(w)
  PROVE  IsFiniteSet(InTable(w)') /\ Cardinality(InTable(w)') <= places'
<1>1. IsFiniteSet(InTable(w)) /\ Cardinality(InTable(w)) <= places /\ places \in Nat
  BY DEF CapInv, TypeOK
<1>2. /\ IsFiniteSet(InTable(w)') /\ Cardinality(InTable(w)') <= Cardinality(InTable(w))
  BY <1>1, FS_Subset
<1>3. Cardinality(InTable(w)') \in Nat /\ Cardinality(InTable(w)) \in Nat
  BY <1>1, <1>2, FS_CardinalityType
<1>. QED  BY <1>1, <1>2, <1>3

\* The entries of a table.
Parked == {"wait", "blind", "ready", "timeout"}

\* The steps that leave the tables as they are, or take queries out.
LEMMA TablesKept ==
  ASSUME TypeOK, CapInv, places' = places,
         \A q \in Queries : qst'[q] \in Parked => qst[q] \in Parked
  PROVE  \A w \in Workers : IsFiniteSet(InTable(w)') /\ Cardinality(InTable(w)') <= places'
<1> TAKE w \in Workers
<1>1. InTable(w)' \subseteq InTable(w)
  BY DEF InTable, Parked
<1>. QED  BY <1>1, TableKept

RingsKept ==
  \A w \in Workers : Len(wake'[w]) <= WakeRing /\ Len(fetch'[w]) <= FetchRing

\* Every step keeps the rings and the tables within their capacities.
LEMMA NextCap == TypeOK /\ CurInv /\ CapInv /\ [Next]_vars => CapInv'
<1> SUFFICES ASSUME TypeOK, CurInv, CapInv, [Next]_vars
             PROVE  CapInv'
  BY Zenon
<1> USE DEF zoneVars, queryVars, workVars, ringVars, askVars, ingVars
<1>0. places' = places
  BY ZenonT(30) DEF Next, Worker, Ingest, kevent, EventsEnd, Lookup, udp_park, park_fetch_request, WakePop, WakeEmpty,
     TakeOverflow, ServiceEnd, AskOther, Receive, ServeDone, Deadline, fetch_issue, on_fetch_end,
     fetch_job_finish, FetchFails, BroadcastPush, BroadcastTrigger, job_execute, TakeSlot, FillSlot, Evict,
     EvictState, BatchJob, vars
<1>1. ASSUME RingsKept, \A q \in Queries : qst'[q] \in Parked => qst[q] \in Parked
      PROVE  CapInv'
  BY <1>0, <1>1, TablesKept DEF CapInv, RingsKept
<1>2. UNCHANGED <<wake, fetch>> => RingsKept
  BY DEF CapInv, RingsKept
<1>3. ASSUME NEW w \in Workers, Lookup(w) PROVE CapInv'
  <2>1. UNCHANGED <<wake, fetch>> /\ wpc[w] = "lookup"
    BY <1>3, SMTT(30) DEF Lookup
  <2>2. \A q \in Queries : qst'[q] \in Parked => qst[q] \in Parked
    BY <1>3 DEF Lookup, Answer, TypeOK, Parked
  <2>. QED  BY <1>1, <1>2, <2>1, <2>2
<1>4. ASSUME NEW w \in Workers, udp_park(w) PROVE CapInv'
  <2>1. UNCHANGED <<wake, fetch>> /\ wpc[w] = "park"
    BY <1>4, ZenonT(30) DEF udp_park
  <2>2. CASE Answer(w, "not_ready")
    <3>1. \A q \in Queries : qst'[q] \in Parked => qst[q] \in Parked
      BY <2>2 DEF Answer, TypeOK, Parked
    <3>. QED  BY <1>1, <1>2, <2>1, <3>1
  <2>3. CASE ~Answer(w, "not_ready")
    <3>1. ~TableFull(w) /\ qst' = [qst EXCEPT ![cur[w]] = IF Relies(w) THEN "wait" ELSE "blind"]
      BY <1>4, <2>3, SMTT(30) DEF udp_park
    <3>2. cur[w] \in Queries /\ Home[cur[w]] = w /\ qst[cur[w]] = "running"
      BY <2>1 DEF CurInv
    <3>3. InTable(w)' = InTable(w) \cup {cur[w]} /\ cur[w] \notin InTable(w)
      BY <3>1, <3>2 DEF InTable, TypeOK
    <3>4. IsFiniteSet(InTable(w)) /\ places \in Nat /\ Cardinality(InTable(w)) \in Nat
      BY FS_CardinalityType DEF CapInv, TypeOK
    <3>5. IsFiniteSet(InTable(w)') /\ Cardinality(InTable(w)') = Cardinality(InTable(w)) + 1
      <4>1. /\ IsFiniteSet(InTable(w) \cup {cur[w]})
            /\ Cardinality(InTable(w) \cup {cur[w]}) = Cardinality(InTable(w)) + 1
        BY <3>3, <3>4, FS_AddElement, Zenon
      <4>. QED  BY <3>3, <4>1
    <3>6. Cardinality(InTable(w)') <= places
      BY <3>1, <3>4, <3>5 DEF TableFull
    <3>7. ASSUME NEW v \in Workers, v # w
          PROVE  IsFiniteSet(InTable(v)') /\ Cardinality(InTable(v)') <= places'
      <4>1. InTable(v)' \subseteq InTable(v)
        BY <3>1, <3>2, <3>7 DEF InTable, TypeOK
      <4>. QED  BY <1>0, <4>1, TableKept
    <3>. QED  BY <1>0, <1>2, <2>1, <3>5, <3>6, <3>7, SMTT(30) DEF CapInv, RingsKept
  <2>. QED  BY <2>2, <2>3, SMTT(30)
<1>5. ASSUME NEW w \in Workers, park_fetch_request(w) PROVE CapInv'
  <2>1. CASE Answer(w, "not_ready") /\ UNCHANGED fetch
    <3>1. \A q \in Queries : qst'[q] \in Parked => qst[q] \in Parked
      BY <2>1 DEF Answer, TypeOK, Parked
    <3>2. UNCHANGED <<wake, fetch>>
      BY <1>5, <2>1 DEF park_fetch_request
    <3>. QED  BY <1>1, <1>2, <3>1, <3>2
  <2>2. CASE /\ Len(fetch[w]) < FetchRing /\ fetch' = [fetch EXCEPT ![w] = Append(@, "z")]
             /\ UNCHANGED queryVars
    <3>1. RingsKept
      <4>1. fetch[w] \in Seq({"z", "other"}) /\ fetch'[w] = Append(fetch[w], "z")
        BY <2>2 DEF TypeOK
      <4>2. Len(fetch'[w]) <= FetchRing
        BY <2>2, <4>1, ParkAssumption
      <4>3. wake' = wake /\ \A v \in Workers : v # w => fetch'[v] = fetch[v]
        BY <1>5, <2>2 DEF TypeOK, park_fetch_request
      <4>. QED  BY <4>2, <4>3 DEF RingsKept, CapInv
    <3>. QED  BY <1>1, <2>2, <3>1, ZenonT(30)
  <2>. QED  BY <1>5, <2>1, <2>2 DEF park_fetch_request, RingFull
<1>6. ASSUME NEW w \in Workers, WakePop(w) PROVE CapInv'
  <2>1. /\ wake[w] \in Seq({"ok", "failed", "other"}) /\ wake[w] # <<>> /\ wake'[w] = Tail(wake[w])
        /\ fetch' = fetch /\ \A v \in Workers : v # w => wake'[v] = wake[v]
    BY <1>6 DEF TypeOK, WakePop
  <2>2. Len(wake[w]) \in Nat /\ Len(wake'[w]) = Len(wake[w]) - 1
    BY <2>1
  <2>3. RingsKept
    <3>1. Len(wake[w]) <= WakeRing /\ WakeRing \in Nat
      BY ParkAssumption DEF CapInv
    <3>2. Len(wake'[w]) <= WakeRing
      BY <2>2, <3>1
    <3>. QED  BY <2>1, <3>2, ZenonT(30) DEF RingsKept, CapInv
  <2>4. \A q \in Queries : qst'[q] \in Parked => qst[q] \in Parked
    BY <1>6 DEF WakePop, Mark, Waiting, InTable, TypeOK, Parked
  <2>. QED  BY <1>1, <2>3, <2>4
<1>7. ASSUME NEW w \in Workers, TakeOverflow(w) PROVE CapInv'
  <2>1. UNCHANGED <<wake, fetch>>
    BY <1>7 DEF TakeOverflow
  <2>2. \A q \in Queries : qst'[q] \in Parked => qst[q] \in Parked
    BY <1>7 DEF TakeOverflow, park_wake_all, park_expire, Waiting, InTable, TypeOK, Parked
  <2>. QED  BY <1>1, <1>2, <2>1, <2>2
<1>8. ASSUME NEW w \in Workers, NEW q \in Queries, Receive(w, q) \/ ServeDone(w, q) PROVE CapInv'
  <2>1. UNCHANGED <<wake, fetch>>
    BY <1>8, ZenonT(30) DEF Receive, ServeDone
  <2>2. PICK st \in {"running", "resume", "closed"} : qst' = [qst EXCEPT ![q] = st]
    BY <1>8 DEF Receive, ServeDone
  <2>3. \A p \in Queries : qst'[p] \in Parked => qst[p] \in Parked
    BY <2>2 DEF TypeOK, Parked
  <2>. QED  BY <1>1, <1>2, <2>1, <2>3, ZenonT(30)
<1>9. ASSUME NEW w \in Workers, AskOther(w) PROVE CapInv'
  <2>1. /\ fetch[w] \in Seq({"z", "other"}) /\ fetch'[w] = Append(fetch[w], "other") /\ Len(fetch[w]) < FetchRing
        /\ UNCHANGED <<wake, qst>> /\ \A v \in Workers : v # w => fetch'[v] = fetch[v]
    BY <1>9, ZenonT(30) DEF TypeOK, AskOther
  <2>2. Len(fetch'[w]) <= FetchRing
    BY <2>1, ParkAssumption
  <2>3. RingsKept
    BY <2>1, <2>2 DEF RingsKept, CapInv
  <2>. QED  BY <1>1, <2>1, <2>3
<1>10. CASE fetch_issue
  <2>1. UNCHANGED <<wake, qst>>
    BY <1>10, Zenon DEF fetch_issue
  <2>2. CASE fetch' = fetch
    BY <1>1, <1>2, <2>1, <2>2
  <2>3. ASSUME NEW w \in Workers, fetch[w] # <<>>, fetch' = [fetch EXCEPT ![w] = Tail(@)]
        PROVE  CapInv'
    <3>1. /\ fetch[w] \in Seq({"z", "other"}) /\ fetch'[w] = Tail(fetch[w])
          /\ \A v \in Workers : v # w => fetch'[v] = fetch[v]
      BY <2>3 DEF TypeOK
    <3>2. Len(fetch[w]) \in Nat /\ Len(fetch'[w]) = Len(fetch[w]) - 1
      BY <2>3, <3>1, RangeTail, ZenonT(30)
    <3>3. RingsKept
      <4>1. Len(fetch[w]) <= FetchRing /\ FetchRing \in Nat
        BY ParkAssumption DEF CapInv
      <4>2. Len(fetch'[w]) <= FetchRing
        BY <3>2, <4>1
      <4>. QED  BY <2>1, <3>1, <4>2, ZenonT(30) DEF RingsKept, CapInv
    <3>. QED  BY <1>1, <2>1, <3>3
  <2>. QED  BY <1>10, <2>2, <2>3 DEF fetch_issue
<1>11. ASSUME NEW w \in Workers, BroadcastPush(w) PROVE CapInv'
  <2>1. /\ UNCHANGED <<fetch, qst>> /\ park_wake_push(w) /\ wake[w] \in Seq({"ok", "failed", "other"})
        /\ bcast.key \in {"ok", "failed", "other"}
    BY <1>11 DEF TypeOK, BroadcastPush, PushThenTrigger
  <2>2. \/ wake' = wake
        \/ /\ Len(wake[w]) < WakeRing /\ wake'[w] = Append(wake[w], bcast.key)
           /\ \A v \in Workers : v # w => wake'[v] = wake[v]
    BY <2>1, ParkAssumption DEF TypeOK, park_wake_push
  <2>3. CASE wake' = wake
    BY <1>1, <1>2, <2>1, <2>3
  <2>4. CASE wake' # wake
    <3>1. Len(wake'[w]) <= WakeRing
      BY <2>1, <2>2, <2>4, ParkAssumption
    <3>2. RingsKept
      BY <2>1, <2>2, <2>4, <3>1 DEF RingsKept, CapInv
    <3>. QED  BY <1>1, <2>1, <3>2
  <2>. QED  BY <2>3, <2>4
<1>12. CASE \/ \E w \in Workers : kevent(w) \/ EventsEnd(w) \/ WakeEmpty(w) \/ ServiceEnd(w) \/ BroadcastTrigger(w)
            \/ \E q \in Queries : Deadline(q)
            \/ on_fetch_end \/ fetch_job_finish \/ FetchFails \/ job_execute \/ TakeSlot \/ FillSlot
            \/ Evict \/ EvictState \/ BatchJob \/ UNCHANGED vars
  <2>1. UNCHANGED <<wake, fetch, qst>>
    BY <1>12, Zenon DEF kevent, EventsEnd, WakeEmpty, ServiceEnd, BroadcastTrigger, PushThenTrigger, Deadline,
       on_fetch_end, fetch_job_finish, FetchFails, job_execute, TakeSlot, FillSlot, Evict, EvictState,
       BatchJob, vars
  <2>. QED  BY <1>1, <1>2, <2>1
<1>. QED
  BY <1>3, <1>4, <1>5, <1>6, <1>7, <1>8, <1>9, <1>10, <1>11, <1>12 DEF Next, Worker, Ingest

\* No ring and no park table ever holds more than its capacity, whatever the order in which queries are
\* parked, woken and answered: park_take(), park_fetch_request() and park_wake_push() look before they add.
THEOREM CapacitySafe == Spec => []CapacitiesKept
<1>1. Init => CapInv /\ CurInv
  <2> SUFFICES ASSUME Init
               PROVE  CapInv /\ CurInv
    OBVIOUS
  <2>1. CurInv
    BY DEF Init, CurInv
  <2>2. \A w \in Workers : InTable(w) = {} /\ wake[w] = <<>> /\ fetch[w] = <<>>
    BY DEF Init, InTable
  <2>3. IsFiniteSet({}) /\ Cardinality({}) = 0
    BY FS_EmptySet
  <2>4. Len(<<>>) = 0
    OBVIOUS
  <2>5. 0 <= WakeRing /\ 0 <= FetchRing /\ 0 <= places
    <3>1. \A n \in Nat : 0 <= n
      OBVIOUS
    <3>2. places \in Nat
      BY ParkAssumption, ZenonT(30) DEF Init
    <3>3. WakeRing \in Nat /\ FetchRing \in Nat
      BY ParkAssumption, ZenonT(30)
    <3>. QED  BY <3>1, <3>2, <3>3, ZenonT(30)
  <2>6. ASSUME NEW w \in Workers
        PROVE  /\ Len(wake[w]) <= WakeRing /\ Len(fetch[w]) <= FetchRing
               /\ IsFiniteSet(InTable(w)) /\ Cardinality(InTable(w)) <= places
    <3>1. Len(wake[w]) = 0 /\ Len(fetch[w]) = 0
      BY <2>2, <2>4, Zenon
    <3>2. IsFiniteSet(InTable(w)) /\ Cardinality(InTable(w)) = 0
      BY <2>2, <2>3, Zenon
    <3>3. Len(wake[w]) <= WakeRing /\ Len(fetch[w]) <= FetchRing
      BY <2>5, <3>1, Zenon
    <3>4. Cardinality(InTable(w)) <= places
      BY <2>5, <3>2, Zenon
    <3>. QED  BY <3>2, <3>3, <3>4, Zenon
  <2>7. CapInv
    BY <2>6 DEF CapInv
  <2>. QED  BY <2>1, <2>7
<1>2. CapInv => CapacitiesKept
  BY DEF CapInv, CapacitiesKept
<1>. QED  BY <1>1, <1>2, TypeCorrect, NextCur, NextCap, PTL DEF Spec
=============================================================================
