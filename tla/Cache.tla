------------------------------- MODULE Cache -------------------------------
(***************************************************************************)
(* The two adapters of ICacheAdapter side by side, Redis and node-cache,   *)
(* given the same calls at the same time.                                  *)
(***************************************************************************)
EXTENDS Integers, Sequences, FiniteSets

CONSTANTS
    Keys, Values, None,
    Second,     \* ticks of a second
    StdTTL,     \* of node-cache, in seconds
    MaxTime     \* bound on the clock

CacheAssumption == Second \in Nat \ {0} /\ StdTTL \in Nat \ {0} /\ MaxTime \in Nat

VARIABLES
    now,
    redis,      \* key -> what is there and when it is due
    memory,
    written,    \* history: the last string Redis took, how and when, and when it was to be gone
    aside       \* history: the keys the memory was given something that Redis was not

vars == <<now, redis, memory, written, aside>>

Never == -1
Due(e) == e.due # Never /\ e.due <= now
Has(store, k) == k \in DOMAIN store /\ ~Due(store[k])
Put(f, k, v) == [x \in DOMAIN f \cup {k} |-> IF x = k THEN v ELSE f[x]]
Drop(f, k) == [x \in DOMAIN f \ {k} |-> f[x]]

\* The third argument of set: nothing, { PX: milliseconds }, here ticks, or a number
NoConfig == [by |-> "none", n |-> 0]
Ttls == {NoConfig} \cup [by : {"number"}, n : 0 .. 2]
Configs == Ttls \cup [by : {"PX"}, n : 0 .. 2]

Entry == [kind : {"string", "list", "hash"}, value : Seq(Values) \cup Values, due : {Never} \cup Nat]

TypeOK ==
    /\ now \in 0 .. MaxTime
    /\ DOMAIN redis \subseteq Keys /\ redis \in [DOMAIN redis -> Entry]
    /\ DOMAIN memory \subseteq Keys /\ \A k \in DOMAIN memory : memory[k].kind = "string"
    /\ DOMAIN written \subseteq Keys /\ aside \subseteq Keys

Empty == [k \in {} |-> None]
Init == now = 0 /\ redis = Empty /\ memory = Empty /\ written = Empty /\ aside = {}

-----------------------------------------------------------------------------
String(v, due) == [kind |-> "string", value |-> v, due |-> due]

\* node-cache counts seconds: 0 is for ever, nothing is the standard time, and
\* with an object the time is no number, which is never past
MemoryDue(c) ==
    CASE c.by = "PX" \/ (c.by = "number" /\ c.n = 0) -> Never
      [] c.by = "number" /\ c.n # 0 -> now + c.n * Second
      [] c.by = "none" -> now + StdTTL * Second
MemorySet(k, v, c) == memory' = Put(memory, k, String(v, MemoryDue(c)))

\* A number has no options
RedisDue(c) == IF c.by = "PX" THEN now + c.n ELSE Never

\* Mutant: SET KEEPTTL
RedisSetKeepTtl(k, v, c) ==
    redis' = Put(redis, k, String(v, IF c.by # "PX" /\ Has(redis, k) THEN redis[k].due ELSE RedisDue(c)))

\* SET: whatever is there goes, its time to live too
RedisSet(k, v, c) == redis' = Put(redis, k, String(v, RedisDue(c)))

Set(k, v, c) ==
    /\ c # [by |-> "PX", n |-> 0]
    /\ MemorySet(k, v, c) /\ RedisSet(k, v, c)
    /\ written' = Put(written, k, [value |-> v, due |-> RedisDue(c), at |-> now, config |-> c])
    /\ aside' = aside \ {k}
    /\ UNCHANGED now

\* Redis answers an expire time of zero with an error; the memory takes it
SetRefused(k, v) ==
    /\ MemorySet(k, v, [by |-> "PX", n |-> 0])
    /\ aside' = aside \cup {k}
    /\ UNCHANGED <<now, redis, written>>

\* Of the memory alone.  A ttl that is no number throws before anything is set
MSet(entries) ==
    /\ memory' = [k \in DOMAIN memory \cup DOMAIN entries |->
                      IF k \in DOMAIN entries THEN String(entries[k].val, MemoryDue(entries[k].ttl)) ELSE memory[k]]
    /\ aside' = aside \cup DOMAIN entries
    /\ UNCHANGED <<now, redis, written>>

Del(k) ==
    /\ redis' = Drop(redis, k) /\ memory' = Drop(memory, k)
    /\ written' = Drop(written, k) /\ aside' = aside \ {k}
    /\ UNCHANGED now

\* PEXPIRE: milliseconds, here ticks
RedisPExpire(k, n) ==
    redis' = IF ~Has(redis, k) THEN redis
             ELSE IF n = 0 THEN Drop(redis, k) ELSE [redis EXCEPT ![k].due = now + n]

\* node-cache.ttl: seconds, and 0 is the standard
MemoryPExpire(k, n) ==
    memory' = IF ~Has(memory, k) THEN memory
              ELSE [memory EXCEPT ![k].due = now + (IF n = 0 THEN StdTTL ELSE n) * Second]

PExpire(k, n) ==
    /\ RedisPExpire(k, n) /\ MemoryPExpire(k, n)
    /\ written' = IF Has(written, k) THEN [written EXCEPT ![k].due = now + n] ELSE written
    /\ UNCHANGED <<now, aside>>

\* MULTI, RPUSH of each, EXEC: what is no list answers WRONGTYPE, the others
\* are pushed all the same; a time to live stays
Push(entries) ==
    redis' = [k \in DOMAIN redis \cup DOMAIN entries |->
                 CASE k \in DOMAIN entries /\ ~Has(redis, k) ->
                        [kind |-> "list", value |-> <<entries[k]>>, due |-> Never]
                   [] k \in DOMAIN entries /\ Has(redis, k) /\ redis[k].kind = "list" ->
                        [redis[k] EXCEPT !.value = IF Len(@) < 2 THEN Append(@, entries[k]) ELSE @]
                   [] OTHER -> redis[k]]

\* The memory adapter has no setMulti
SetMulti(entries) == Push(entries) /\ UNCHANGED <<now, memory, written, aside>>

\* HSET, of one field
HSet(k, v) ==
    /\ IF Has(redis, k) /\ redis[k].kind # "hash" THEN UNCHANGED redis
       ELSE redis' = Put(redis, k, [kind |-> "hash", value |-> v,
                                    due |-> IF Has(redis, k) THEN redis[k].due ELSE Never])
    /\ UNCHANGED <<now, memory, written, aside>>

\* GET answers WRONGTYPE for what is no string
RedisGet(k) == IF Has(redis, k) /\ redis[k].kind = "string" THEN redis[k].value ELSE None
\* What has answers and what get, and mGet for each of its keys, read
MemoryHas(k) == Has(memory, k)
MemoryGet(k) == IF MemoryHas(k) THEN memory[k].value ELSE None

Tick == now < MaxTime /\ now' = now + 1 /\ UNCHANGED <<redis, memory, written, aside>>

\* What is due is deleted, some time or other: on access, or by a sweep
Sweep ==
    /\ \E k \in Keys :
          \/ k \in DOMAIN redis /\ Due(redis[k]) /\ redis' = Drop(redis, k) /\ UNCHANGED memory
          \/ k \in DOMAIN memory /\ Due(memory[k]) /\ memory' = Drop(memory, k) /\ UNCHANGED redis
    /\ UNCHANGED <<now, written, aside>>
-----------------------------------------------------------------------------
Next ==
    \/ \E k \in Keys :
          \/ Del(k)
          \/ \E v \in Values : (\E c \in Configs : Set(k, v, c)) \/ SetRefused(k, v) \/ HSet(k, v)
          \/ \E n \in 0 .. 2 : PExpire(k, n)
    \/ \E S \in SUBSET Keys :
          /\ S # {}
          /\ \/ \E entries \in [S -> Values] : SetMulti(entries)
             \/ \E entries \in [S -> [val : Values, ttl : Ttls]] : MSet(entries)
    \/ Tick \/ Sweep

Spec == Init /\ [][Next]_vars

-----------------------------------------------------------------------------
(***************************************************************************)
(* Redis answers the last string it took until the time it was given for   *)
(* it, by { PX } or by pExpire, and from then on nothing, whatever lists   *)
(* and hashes are written to the key.                                      *)
(***************************************************************************)
RedisKeepsItsWord ==
    \A k \in DOMAIN written :
        RedisGet(k) = IF Due(written[k]) THEN None ELSE written[k].value

\* The time that the memory gives a string by itself is over at t
TimeOver(w, t) ==
    \/ w.config.by = "none" /\ w.at + StdTTL * Second <= t
    \/ w.config.by = "number" /\ w.config.n # 0 /\ w.at + w.config.n * Second <= t

(***************************************************************************)
(* The adapters can be told apart in two ways only.  The memory answers    *)
(* nothing where Redis answers a string when the standard time, or the     *)
(* number that set was given, is over.  Redis answers nothing where the    *)
(* memory answers a string when its { PX } or pExpire is over: the memory  *)
(* reads neither as milliseconds.  Where both answer, they answer the same.*)
(***************************************************************************)
AdaptersAgree ==
    \A k \in Keys \ aside :
        /\ RedisGet(k) # None => MemoryGet(k) = RedisGet(k) \/ TimeOver(written[k], now)
        /\ MemoryGet(k) # None =>
              RedisGet(k) = MemoryGet(k) \/ (k \in DOMAIN written /\ Due(written[k]))

(***************************************************************************)
(* The inductive invariant.  A string that Redis took stands there with    *)
(* the end it was given, and none stands past its end or came otherwise.   *)
(* In memory it stands as long as it has time left in both.                *)
(***************************************************************************)
EntriesAreTyped ==
    /\ \A k \in DOMAIN redis : redis[k].kind = "list" => redis[k].value \in Seq(Values)
    /\ memory \in [DOMAIN memory -> [kind : {"string"}, value : Values, due : {Never} \cup Nat]]
    /\ written \in [DOMAIN written -> [value : Values, due : {Never} \cup Nat, at : Nat, config : Configs]]
RedisStands(k) ==
    /\ k \in DOMAIN written /\ ~Due(written[k]) =>
          k \in DOMAIN redis /\ redis[k] = String(written[k].value, written[k].due)
    /\ k \notin DOMAIN written \/ Due(written[k]) =>
          (k \in DOMAIN redis /\ redis[k].kind = "string" => Due(redis[k]))
Outlasts(t, w) == t = Never \/ (w.due # Never /\ w.due <= t) \/ TimeOver(w, t)
MemoryStands(k) ==
    /\ k \in DOMAIN memory => k \in DOMAIN written /\ memory[k].value = written[k].value
    /\ k \in DOMAIN written /\ ~Due(written[k]) /\ ~TimeOver(written[k], now) =>
          k \in DOMAIN memory /\ Outlasts(memory[k].due, written[k])
CacheInv ==
    /\ TypeOK /\ EntriesAreTyped
    /\ \A k \in Keys : RedisStands(k)
    /\ \A k \in Keys \ aside : MemoryStands(k)
=============================================================================
