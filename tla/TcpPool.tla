------------------------------ MODULE TcpPool ------------------------------
(***************************************************************************)
(* The pool of TCP connection contexts (dns_server_core.c, D-04): a free   *)
(* list without a lock that every worker takes from and gives back to.     *)
(* The head is a generation and an index in one word; a compare-and-swap   *)
(* of the head is the only step that is atomic.                            *)
(***************************************************************************)
EXTENDS Naturals, FiniteSets

CONSTANTS
  PoolUsers,      \* the threads that take and give back contexts
  PoolSize,       \* MAX_TCP_CLIENTS
  MaxGen          \* bound: exchanges of the head that are explored

VARIABLES
  pool_head,      \* g_tcp_pool_head: [gen, top], top is an index + 1 or 0
  pool_next,      \* g_tcp_pool_next
  puser,          \* per thread: where it is in tcp_ctx_alloc or tcp_ctx_free
  held            \* the contexts each thread holds

ASSUME PoolAssumption == PoolSize \in Nat \ {0}

pvars == <<pool_head, pool_next, puser, held>>

Slots == 1 .. PoolSize

Idle == [at |-> "idle"]

\* tcp_pool_init() links every context to the one behind it.
tcp_pool_init ==
  /\ pool_head = [gen |-> 0, top |-> 1]
  /\ pool_next = [i \in Slots |-> IF i < PoolSize THEN i + 1 ELSE 0]
  /\ puser = [u \in PoolUsers |-> Idle]
  /\ held = [u \in PoolUsers |-> {}]

\* Mutant: the generation stays, and a head that came back is taken for the one that was read.
SameGeneration(top) == [gen |-> pool_head.gen, top |-> top]

Bumped(top) == [gen |-> pool_head.gen + 1, top |-> top]

(***************************************************************************)
(* tcp_ctx_alloc: load the head, load the successor of the top, exchange.  *)
(* A failed exchange leaves the head that was found in `old'; the exchange *)
(* is a weak one, which may also fail on the head that was expected.       *)
(***************************************************************************)
AllocLoad(u) ==
  /\ puser[u] = Idle /\ pool_head.top # 0
  /\ puser' = [puser EXCEPT ![u] = [at |-> "next", old |-> pool_head]]
  /\ UNCHANGED <<pool_head, pool_next, held>>

AllocNext(u) ==
  /\ puser[u].at = "next"
  /\ puser' = [puser EXCEPT ![u] =
       [at |-> "take", old |-> puser[u].old, next |-> pool_next[puser[u].old.top]]]
  /\ UNCHANGED <<pool_head, pool_next, held>>

AllocExchange(u) ==
  /\ puser[u].at = "take"
  /\ pool_head = puser[u].old /\ pool_head.gen < MaxGen
  /\ pool_head' = Bumped(puser[u].next)
  /\ held' = [held EXCEPT ![u] = @ \cup {puser[u].old.top}]
  /\ puser' = [puser EXCEPT ![u] = Idle]
  /\ UNCHANGED pool_next

AllocRetry(u) ==
  /\ puser[u].at = "take"
  /\ puser' = [puser EXCEPT ![u] = IF pool_head.top = 0 THEN Idle
                                   ELSE [at |-> "next", old |-> pool_head]]
  /\ UNCHANGED <<pool_head, pool_next, held>>

(***************************************************************************)
(* tcp_ctx_free: load the head, link the context to it, exchange.  The     *)
(* context is the caller's until the exchange succeeds.                    *)
(***************************************************************************)
FreeLoad(u) ==
  /\ puser[u] = Idle
  /\ \E c \in held[u] :
       puser' = [puser EXCEPT ![u] = [at |-> "link", old |-> pool_head, ctx |-> c]]
  /\ UNCHANGED <<pool_head, pool_next, held>>

FreeLink(u) ==
  /\ puser[u].at = "link"
  /\ pool_next' = [pool_next EXCEPT ![puser[u].ctx] = puser[u].old.top]
  /\ puser' = [puser EXCEPT ![u] = [@ EXCEPT !.at = "give"]]
  /\ UNCHANGED <<pool_head, held>>

FreeExchange(u) ==
  /\ puser[u].at = "give"
  /\ pool_head = puser[u].old /\ pool_head.gen < MaxGen
  /\ pool_head' = Bumped(puser[u].ctx)
  /\ held' = [held EXCEPT ![u] = @ \ {puser[u].ctx}]
  /\ puser' = [puser EXCEPT ![u] = Idle]
  /\ UNCHANGED pool_next

FreeRetry(u) ==
  /\ puser[u].at = "give"
  /\ puser' = [puser EXCEPT ![u] = [at |-> "link", old |-> pool_head, ctx |-> puser[u].ctx]]
  /\ UNCHANGED <<pool_head, pool_next, held>>

PoolStep(u) ==
  \/ AllocLoad(u)
  \/ AllocNext(u)
  \/ AllocExchange(u)
  \/ AllocRetry(u)
  \/ FreeLoad(u)
  \/ FreeLink(u)
  \/ FreeExchange(u)
  \/ FreeRetry(u)

PoolNext == \E u \in PoolUsers : PoolStep(u)

PoolSpec == tcp_pool_init /\ [][PoolNext]_pvars

(***************************************************************************)
(* Properties.                                                             *)
(***************************************************************************)

\* The contexts on the list, from the head, in at most PoolSize steps.
OnList ==
  LET reach[n \in 0 .. PoolSize] ==
        IF n = 0 THEN pool_head.top
        ELSE IF reach[n - 1] = 0 THEN 0 ELSE pool_next[reach[n - 1]]
  IN  {reach[n] : n \in 0 .. PoolSize - 1} \ {0}

Held == UNION {held[u] : u \in PoolUsers}

\* Every context is on the free list or with exactly one connection: no two
\* connections share the buffer and the flags of a context, and none is lost,
\* however the exchanges of the workers interleave (the ABA case included).
PoolExact ==
  /\ OnList \cap Held = {}
  /\ OnList \cup Held = Slots
  /\ \A u, v \in PoolUsers : u # v => held[u] \cap held[v] = {}
=============================================================================
