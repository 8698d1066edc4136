------------------------------ MODULE FastCache ------------------------------
(***************************************************************************)
(* The read-through cache of src/server/cache/fast-cache.ts: a map in each *)
(* process (L1), Redis behind it (L2), and loads that callers of the same  *)
(* key share.  Nothing invalidates a key: what was read is served until it *)
(* expires, so all that is known here of a value is its age.               *)
(***************************************************************************)
EXTENDS Integers, Sequences, SequencesExt

CONSTANTS
    Process,     \* server processes, one MemoryCache each
    Key,
    Caller,
    Ttl,         \* ttlSeconds
    MaxSize,     \* maxSize, 10_000
    Slow,        \* assumed: no load takes longer
    MaxTroubles  \* bound: calls of Redis and loads that fail, processes that die

VARIABLES
    memory,   \* memory[p]: the entries of `cache`, the one set or read last at the end
    redis,    \* the entries of Redis
    flight,   \* the tasks that run
    inflight, \* inflight[p]: the keys of the map of that name
    caller,   \* the call each caller waits for
    oldest,   \* ghost: the greatest age of a value when it was served
    used

vars == <<memory, redis, flight, inflight, caller, oldest, used>>

NoCall == [p |-> 0, k |-> 0]
Entry(k, age) == [key |-> k, age |-> age, left |-> Ttl]
Spend == used < MaxTroubles /\ used' = used + 1

Init ==
    /\ memory = [p \in Process |-> <<>>] /\ redis = {}
    /\ flight = {} /\ inflight = [p \in Process |-> {}]
    /\ caller = [c \in Caller |-> NoCall]
    /\ oldest = 0 /\ used = 0

-----------------------------------------------------------------------------
(* MemoryCache.get and set                                                 *)

\* A key has one entry at most.
Without(entries, k) ==
    LET of == {i \in DOMAIN entries : entries[i].key = k}
    IN  IF of = {} THEN entries ELSE RemoveAt(entries, CHOOSE i \in of : TRUE)

Found(entries, k) == {e \in ToSet(entries) : e.key = k /\ e.left >= 0}

\* mutant: a hit renews the entry
RenewedHit(entries, e) == Append(Without(entries, e.key), Entry(e.key, e.age))

Hit(entries, e) == Append(Without(entries, e.key), e)

\* At maxSize the first of the map goes, also to make room for a key that is there.
Set(entries, k, age) ==
    LET kept == IF Len(entries) >= MaxSize THEN Tail(entries) ELSE entries
    IN  IF \E e \in ToSet(kept) : e.key = k
        THEN [i \in DOMAIN kept |-> IF kept[i].key = k THEN Entry(k, age) ELSE kept[i]]
        ELSE Append(kept, Entry(k, age))

Served(age) == oldest' = IF age > oldest THEN age ELSE oldest

-----------------------------------------------------------------------------
(* getOrSet                                                                *)

Ask(c, p, k) ==
    /\ caller[c] = NoCall
    /\ \/ \E e \in Found(memory[p], k) :
            /\ memory' = [memory EXCEPT ![p] = Hit(@, e)]
            /\ Served(e.age)
            /\ UNCHANGED <<flight, inflight, caller>>
       \/ /\ Found(memory[p], k) = {}
          /\ memory' = [memory EXCEPT ![p] = Without(@, k)]
          /\ caller' = [caller EXCEPT ![c] = [p |-> p, k |-> k]]
          /\ IF k \in inflight[p]
             THEN UNCHANGED <<flight, inflight>>
             ELSE /\ flight' = flight \union
                               {[p |-> p, k |-> k, phase |-> "redis", age |-> 0, took |-> 0]}
                  /\ inflight' = [inflight EXCEPT ![p] = @ \union {k}]
          /\ UNCHANGED oldest
    /\ UNCHANGED <<redis, used>>

InRedis(k) == {e \in redis : e.key = k}

\* mutant: only a load that succeeds leaves the map
ForgottenIfAnswered(f, answered) ==
    IF answered THEN [inflight EXCEPT ![f.p] = @ \ {f.k}] ELSE inflight

\* The finally block.
Forgotten(f, answered) == [inflight EXCEPT ![f.p] = @ \ {f.k}]

Waiting(f) == {c \in Caller : caller[c] = [p |-> f.p, k |-> f.k]}

\* The task settles, and with it every call that awaits it.
Settle(f, answered) ==
    /\ flight' = flight \ {f}
    /\ inflight' = Forgotten(f, answered)
    /\ caller' = [c \in Caller |-> IF c \in Waiting(f) THEN NoCall ELSE caller[c]]

\* What Redis still has is kept for a full ttl of its own.
RedisHit(f) ==
    /\ f.phase = "redis"
    /\ \E e \in InRedis(f.k) :
         /\ memory' = [memory EXCEPT ![f.p] = Set(@, f.k, e.age)]
         /\ Served(e.age)
    /\ Settle(f, TRUE)
    /\ UNCHANGED <<redis, used>>

Fetching(f) == flight' = (flight \ {f}) \union {[f EXCEPT !.phase = "fetch", !.age = 0]}

RedisMiss(f) ==
    /\ f.phase = "redis" /\ InRedis(f.k) = {}
    /\ Fetching(f)
    /\ UNCHANGED <<memory, redis, inflight, caller, oldest, used>>

RedisDown(f) ==
    /\ f.phase = "redis" /\ Spend
    /\ Fetching(f)
    /\ UNCHANGED <<memory, redis, inflight, caller, oldest>>

Fetched(f) ==
    /\ f.phase = "fetch"
    /\ memory' = [memory EXCEPT ![f.p] = Set(@, f.k, f.age)]
    /\ flight' = (flight \ {f}) \union {[f EXCEPT !.phase = "setex"]}
    /\ UNCHANGED <<redis, inflight, caller, oldest, used>>

\* Its error is every waiting caller's.
FetchFails(f) ==
    /\ f.phase = "fetch" /\ Spend
    /\ Settle(f, FALSE)
    /\ UNCHANGED <<memory, redis, oldest>>

Stored(f) ==
    /\ f.phase = "setex"
    /\ redis' = {e \in redis : e.key # f.k} \union {Entry(f.k, f.age)}
    /\ Served(f.age)
    /\ Settle(f, TRUE)
    /\ UNCHANGED <<memory, used>>

StoreFails(f) ==
    /\ f.phase = "setex" /\ Spend
    /\ Served(f.age)
    /\ Settle(f, TRUE)
    /\ UNCHANGED <<memory, redis>>

Die(p) ==
    /\ Spend
    /\ memory' = [memory EXCEPT ![p] = <<>>]
    /\ flight' = {f \in flight : f.p # p}
    /\ inflight' = [inflight EXCEPT ![p] = {}]
    /\ caller' = [c \in Caller |-> IF caller[c].p = p THEN NoCall ELSE caller[c]]
    /\ UNCHANGED <<redis, oldest>>

\* An entry of L1 stays when it has expired; of its age nothing is served any more.
Tick ==
    /\ \A f \in flight : f.took < Slow
    /\ memory' = [p \in Process |-> [i \in DOMAIN memory[p] |->
                   LET e == memory[p][i]
                   IN  IF e.left > 0 THEN [e EXCEPT !.age = @ + 1, !.left = @ - 1]
                                     ELSE [e EXCEPT !.age = 0, !.left = -1]]]
    /\ redis' = {[e EXCEPT !.age = @ + 1, !.left = @ - 1] : e \in {x \in redis : x.left > 1}}
    /\ flight' = {[f EXCEPT !.age = @ + 1, !.took = @ + 1] : f \in flight}
    /\ UNCHANGED <<inflight, caller, oldest, used>>

Next ==
    \/ \E c \in Caller, p \in Process, k \in Key : Ask(c, p, k)
    \/ \E f \in flight :
        \/ RedisHit(f) \/ RedisMiss(f) \/ RedisDown(f)
        \/ Fetched(f) \/ FetchFails(f) \/ Stored(f) \/ StoreFails(f)
    \/ (\E p \in Process : Die(p)) \/ Tick

Spec == Init /\ [][Next]_vars

-----------------------------------------------------------------------------
(* Properties                                                              *)

\* Staleness is bounded, though not by the ttl a caller asks for: a process may take a
\* value from Redis at the end of its ttl there and serve it for another.
StaleAtMostTwice == oldest < 2 * Ttl + Slow

\* Callers of one process share one load of a key, no caller waits for a load that is
\* over, and the map outgrows neither its size nor its loads.
LoadsShared ==
    /\ \A f, g \in flight : f.p = g.p /\ f.k = g.k => f = g
    /\ \A p \in Process :
        /\ inflight[p] = {f.k : f \in {g \in flight : g.p = p}}
        /\ \A c \in Caller : caller[c].p = p => caller[c].k \in inflight[p]
        /\ Len(memory[p]) <= MaxSize

\* The cache is as stale and as busy as that at most.
CacheKeeps == StaleAtMostTwice /\ LoadsShared
=============================================================================
