----------------------------- MODULE AnswerCache -----------------------------
(* What the shared response cache is keyed with (dns_query_engine.c) and what is allowed into it, while zones, their siblings and the configuration change.      *)
(* A zone's answers depend on its version, on the configuration, with tags on the client, and for the glue of an NS, MX or SRV target on a sibling zone, whose   *)
(* publications reach the zone's data generation only later, through the control thread (dns_snapshot_rcu.c zone_glue_refresh_dependents()).                      *)
EXTENDS Naturals

CONSTANTS AcWorkers, MaxPublish, MaxReload

Questions == {"own", "glue", "away"}      \* answered by the zone alone, with a sibling's addresses, by a CNAME into the sibling
Clients == {1, 2}

VARIABLES
  ac_ver,       \* the zone's version: its data, its generation, tagged: answers depend on the client; targets looked up at built_at
  ac_sib,       \* the data of the sibling
  ac_gen,       \* g_zone_data_generation
  ac_cfg,       \* the configuration's generation
  ac_cache,     \* key -> body
  ac_dirty,     \* g_glue_dirty
  ac_worker
acvars == <<ac_ver, ac_sib, ac_gen, ac_cfg, ac_cache, ac_dirty, ac_worker>>

NoQuery == [at |-> "idle"]

AcInit ==
  /\ ac_ver = [data |-> 1, gen |-> 1, tagged |-> FALSE, saw |-> 1]
  /\ ac_sib = 1
  /\ ac_gen = 2 /\ ac_cfg = 1 /\ ac_cache = {} /\ ac_dirty = FALSE
  /\ ac_worker = [w \in AcWorkers |-> NoQuery]

\* The configuration and the version are those of the worker's read section; the sibling is looked up when the answer is made.
Body(q, ver, sib, cfg, client) ==
  [q |-> q, data |-> ver.data, sib |-> IF q = "own" THEN 0 ELSE sib, cfg |-> cfg, client |-> IF ver.tagged THEN client ELSE 0]

\* The generation is read before the name is resolved.
Key(q, ver, cfg) == [q |-> q, gen |-> ver.gen, cfg |-> cfg]

\* build_zone_response_cache(): zones whose answers depend on the client are left out.
rcache_ok(ver) == ~ver.tagged

Ask(w) ==
  /\ ac_worker[w].at = "idle"
  /\ \E q \in Questions, c \in Clients :
       LET key == Key(q, ac_ver, ac_cfg)
           hit == {e \in ac_cache : e.key = key} IN
       ac_worker' = [ac_worker EXCEPT ![w] =
         IF rcache_ok(ac_ver) /\ hit # {}
         THEN [at |-> "hit", body |-> (CHOOSE e \in hit : TRUE).body, fresh |-> Body(q, ac_ver, ac_sib, ac_cfg, c)]
         ELSE [at |-> "asked", q |-> q, client |-> c, ver |-> ac_ver, cfg |-> ac_cfg, key |-> key]]
  /\ UNCHANGED <<ac_ver, ac_sib, ac_gen, ac_cfg, ac_cache, ac_dirty>>

Resolve(w) ==
  LET s == ac_worker[w] IN
  /\ s.at = "asked"
  /\ ac_worker' = [ac_worker EXCEPT ![w] = [at |-> "built", q |-> s.q, ver |-> s.ver, key |-> s.key,
                                            body |-> Body(s.q, s.ver, ac_sib, s.cfg, s.client)]]
  /\ UNCHANGED <<ac_ver, ac_sib, ac_gen, ac_cfg, ac_cache, ac_dirty>>

\* t_resolve_crossed_zone, t_resolve_sibling_glue: an answer that needed another zone is not stored.
Storable(q) == q = "own"

Store(w) ==
  LET s == ac_worker[w] IN
  /\ s.at = "built"
  /\ ac_cache' = IF Storable(s.q) /\ rcache_ok(s.ver)
                 THEN {e \in ac_cache : e.key # s.key} \union {[key |-> s.key, body |-> s.body]} ELSE ac_cache
  /\ ac_worker' = [ac_worker EXCEPT ![w] = NoQuery]
  /\ UNCHANGED <<ac_ver, ac_sib, ac_gen, ac_cfg, ac_dirty>>

SendHit(w) ==
  /\ ac_worker[w].at = "hit"
  /\ ac_worker' = [ac_worker EXCEPT ![w] = NoQuery]
  /\ UNCHANGED <<ac_ver, ac_sib, ac_gen, ac_cfg, ac_cache, ac_dirty>>

\* A new version of the zone: the targets' zone is looked up, the generation is new.
zone_publish ==
  /\ ac_ver.data < MaxPublish
  /\ \E tagged \in BOOLEAN : ac_ver' = [data |-> ac_ver.data + 1, gen |-> ac_gen, tagged |-> tagged, saw |-> ac_sib]
  /\ ac_gen' = ac_gen + 1
  /\ UNCHANGED <<ac_sib, ac_cfg, ac_cache, ac_dirty, ac_worker>>

\* The sibling, which is marked as a provider of glue since the zone's version was built, is published.
PublishSibling ==
  /\ ac_sib < MaxPublish
  /\ ac_sib' = ac_sib + 1
  /\ ac_dirty' = TRUE
  /\ UNCHANGED <<ac_ver, ac_gen, ac_cfg, ac_cache, ac_worker>>

\* The tick of the control thread.
zone_glue_refresh_dependents ==
  /\ ac_dirty /\ ac_dirty' = FALSE
  /\ IF ac_sib > ac_ver.saw
     THEN ac_ver' = [ac_ver EXCEPT !.gen = ac_gen, !.saw = ac_sib] /\ ac_gen' = ac_gen + 1
     ELSE UNCHANGED <<ac_ver, ac_gen>>
  /\ UNCHANGED <<ac_sib, ac_cfg, ac_cache, ac_worker>>

Reload ==
  /\ ac_cfg < MaxReload /\ ac_cfg' = ac_cfg + 1
  /\ UNCHANGED <<ac_ver, ac_sib, ac_gen, ac_cache, ac_dirty, ac_worker>>

AcNext == zone_publish \/ PublishSibling \/ zone_glue_refresh_dependents \/ Reload \/ \E w \in AcWorkers : Ask(w) \/ Resolve(w) \/ Store(w) \/ SendHit(w)

AcSpec == AcInit /\ [][AcNext]_acvars

\* A hit is what the version, the configuration, the sibling and the client would give if the answer were made now (the fast path of process_query_body()).
HitIsFresh == \A w \in AcWorkers : ac_worker[w].at = "hit" => ac_worker[w].body = ac_worker[w].fresh
=============================================================================
