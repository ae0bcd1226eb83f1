-------------------------- MODULE OperationsProofs --------------------------
(***************************************************************************)
(* Proofs about the processes, the caches and the migrations, for every    *)
(* set of applications, keys and values, every time to live, and any       *)
(* number of runs and undos.                                               *)
(***************************************************************************)
EXTENDS MCOperations, Integers, Sequences, TLAPS

-----------------------------------------------------------------------------
(***************************************************************************)
(* The processes.                                                          *)
(***************************************************************************)
ProcessInv(a) ==
    /\ phase[a] \in {"none", "config", "exited"} => client[a] = NoClients
    /\ phase[a] = "wiring" =>
          /\ config[a] # "missing" /\ \A s \in Stores : client[a][s] # "broken"
          /\ client[a]["postgres"] = "connected" => config[a] # "noUser"
    /\ phase[a] \in {"starting", "listening", "mute"} =>
          /\ config[a] \notin {"missing", "noUser"}
          /\ \A s \in Stores : client[a][s] = "connected" \/ (s = "redis" /\ client[a][s] = "broken")

LEMMA InvOfEach == LifecycleInv <=> TypeOK /\ \A a \in Apps : ProcessInv(a)
  BY DEF LifecycleInv, ConnectsInOrder, ListensWired, ProcessInv

\* A step of one process, or of the stores alone
OfOne(a) ==
    /\ phase' \in [Apps -> Phases] /\ config' \in [Apps -> Configs]
    /\ client' \in [Apps -> [Stores -> {"none", "connected", "broken"}]]
    /\ \A b \in Apps \ {a} : phase'[b] = phase[b] /\ config'[b] = config[b] /\ client'[b] = client[b]
    /\ up' = up

LEMMA NoClientsTyped == NoClients \in [Stores -> {"none", "connected", "broken"}]
  BY DEF NoClients

LEMMA StepOfOne ==
  ASSUME LifecycleInv, NEW a \in Apps, NEW s \in Stores,
         \/ Start(a) \/ Validate(a) \/ Wire(a) \/ Listen(a) \/ Kill(a)
         \/ Connect(a, s) \/ GiveUp(a, s) \/ Notice(a, s)
  PROVE  OfOne(a) /\ ProcessInv(a)'
<1> USE DEF LifecycleInv, TypeOK, Phases, Configs, OfOne, ProcessInv
<1>0. ProcessInv(a)
  BY InvOfEach
<1>1. CASE Start(a)
  BY <1>0, <1>1 DEF Start, Goto
<1>2. CASE Validate(a)
  <2>1. CASE Accepted(config[a])
    <3>1. phase' = [phase EXCEPT ![a] = "wiring"] /\ client' = client /\ config' = config /\ up' = up
      BY <1>2, <2>1 DEF Validate, Goto
    <3>2. client[a] = NoClients /\ config[a] # "missing"
      BY <1>0, <1>2, <2>1 DEF Validate, Accepted
    <3> QED
      BY <3>1, <3>2 DEF NoClients, Stores
  <2>2. CASE ~Accepted(config[a])
    BY <1>0, <1>2, <2>2, NoClientsTyped DEF Validate, Goto, Exit
  <2> QED
    BY <2>1, <2>2
<1>3. CASE Wire(a)
  <2>1. phase' = [phase EXCEPT ![a] = "starting"] /\ client' = client /\ config' = config /\ up' = up
    BY <1>3 DEF Wire, Goto
  <2>2. /\ phase[a] = "wiring" /\ \A t \in Stores : client[a][t] = "connected"
    BY <1>0, <1>3 DEF Wire
  <2>3. config[a] \notin {"missing", "noUser"}
    BY <1>0, <2>2 DEF Stores
  <2> QED
    BY <2>1, <2>2, <2>3
<1>4. CASE Listen(a)
  <2>1. PICK p \in {"listening", "mute"} : phase' = [phase EXCEPT ![a] = p]
    BY <1>4 DEF Listen, Goto
  <2>2. client' = client /\ config' = config /\ up' = up /\ phase[a] = "starting"
    BY <1>4 DEF Listen
  <2> QED
    BY <1>0, <2>1, <2>2
<1>5. CASE Kill(a)
  BY <1>0, <1>5, NoClientsTyped DEF Kill, Goto, Exit
<1>6. CASE Connect(a, s)
  <2>1. /\ phase[a] = "wiring" /\ phase' = phase /\ config' = config /\ up' = up
        /\ client' = [client EXCEPT ![a][s] = "connected"]
        /\ s = "postgres" => config[a] # "noUser"
    BY <1>6 DEF Connect, Reachable
  <2>2. \A t \in Stores : client'[a][t] = (IF t = s THEN "connected" ELSE client[a][t])
    BY <2>1
  <2>3. client'[a]["postgres"] = "connected" => config[a] # "noUser"
    BY <1>0, <2>1, <2>2 DEF Stores
  <2>4. client' \in [Apps -> [Stores -> {"none", "connected", "broken"}]]
        /\ \A b \in Apps \ {a} : client'[b] = client[b]
    BY <2>1
  <2> QED
    BY <1>0, <2>1, <2>2, <2>3, <2>4
<1>7. CASE GiveUp(a, s)
  BY <1>0, <1>7, NoClientsTyped DEF GiveUp, Goto, Exit
<1>8. CASE Notice(a, s)
  <2>1. CASE s = "postgres"
    BY <1>0, <1>8, <2>1 DEF Notice
  <2>2. CASE Exit(a) /\ config' = config /\ up' = up
    BY <1>0, <2>2, NoClientsTyped DEF Goto, Exit
  <2>3. CASE s = "redis" /\ phase[a] # "wiring" /\ client[a][s] = "connected" /\ phase' = phase /\ config' = config /\ up' = up
             /\ client' = [client EXCEPT ![a][s] = "broken"]
    <3>1. \A t \in Stores : client'[a][t] = (IF t = s THEN "broken" ELSE client[a][t])
      BY <2>3
    <3>2. phase[a] \in {"starting", "listening", "mute"}
      BY <1>0, <2>3 DEF NoClients
    <3> QED
      BY <1>0, <2>3, <3>1, <3>2
  <2>4. s \in {"postgres", "mongo", "redis"}
    BY DEF Stores
  <2>5. CASE s = "mongo"
    BY <1>8, <2>2, <2>5 DEF Notice
  <2>6. CASE s = "redis" /\ phase[a] = "wiring"
    BY <1>8, <2>2, <2>6 DEF Notice
  <2>7. CASE s = "redis" /\ phase[a] # "wiring"
    BY <1>8, <2>3, <2>7 DEF Notice
  <2> QED
    BY <2>1, <2>4, <2>5, <2>6, <2>7
<1> QED
  BY <1>1, <1>2, <1>3, <1>4, <1>5, <1>6, <1>7, <1>8

LEMMA LifecycleStep == LifecycleInv /\ [Next]_vars => LifecycleInv'
<1> SUFFICES ASSUME LifecycleInv, [Next]_vars PROVE LifecycleInv'
  OBVIOUS
<1>1. ASSUME NEW a \in Apps, OfOne(a), ProcessInv(a)' PROVE LifecycleInv'
  <2>1. \A b \in Apps \ {a} : ProcessInv(b)'
    BY <1>1, InvOfEach DEF OfOne, ProcessInv
  <2>2. TypeOK'
    BY <1>1 DEF OfOne, TypeOK, LifecycleInv
  <2>3. \A b \in Apps : ProcessInv(b)'
    BY <1>1, <2>1
  <2> QED
    BY <2>2, <2>3 DEF LifecycleInv, ConnectsInOrder, ListensWired, ProcessInv
<1>2. CASE phase' = phase /\ config' = config /\ client' = client /\ up' \subseteq Stores
  BY <1>2 DEF LifecycleInv, TypeOK, ConnectsInOrder, ListensWired
<1>3. CASE UNCHANGED vars
  BY <1>2, <1>3 DEF vars, LifecycleInv, TypeOK
<1>4. ASSUME NEW s \in Stores, Drop(s) \/ Restore(s) PROVE LifecycleInv'
  BY <1>2, <1>4 DEF Drop, Restore, LifecycleInv, TypeOK
<1>5. ASSUME NEW a \in Apps, Start(a) \/ Validate(a) \/ Wire(a) \/ Listen(a) \/ Kill(a) PROVE LifecycleInv'
  <2>1. "redis" \in Stores
    BY DEF Stores
  <2> QED
    BY <1>1, <1>5, <2>1, StepOfOne
<1>6. ASSUME NEW a \in Apps, NEW s \in Stores, Connect(a, s) \/ GiveUp(a, s) \/ Notice(a, s) PROVE LifecycleInv'
  BY <1>1, <1>6, StepOfOne
<1> QED
  BY <1>3, <1>4, <1>5, <1>6 DEF Next

LEMMA LifecycleStart == Init => LifecycleInv
  BY NoClientsTyped DEF Init, LifecycleInv, TypeOK, ConnectsInOrder, ListensWired, Phases, Configs


(***************************************************************************)
(* A process that listens had every store, and lost at most Redis since.   *)
(***************************************************************************)
THEOREM ProcessesOfOperations == OperationsSpec => [](TypeOK /\ ListensWired)
<1>1. OperationsInit => LifecycleInv
  BY LifecycleStart DEF OperationsInit
<1>2. LifecycleInv /\ [OperationsNext]_<<part, vars, migrationVars, cacheVars>> => LifecycleInv'
  <2>1. [OperationsNext]_<<part, vars, migrationVars, cacheVars>> => [Next]_vars
    BY DEF OperationsNext
  <2> QED
    BY <2>1, LifecycleStep
<1>3. LifecycleInv => TypeOK /\ ListensWired
  BY DEF LifecycleInv
<1> QED
  BY <1>1, <1>2, <1>3, PTL DEF OperationsSpec

-----------------------------------------------------------------------------
(***************************************************************************)
(* The caches.                                                             *)
(***************************************************************************)
LEMMA CacheConstants ==
  /\ Second \in Nat \ {0} /\ StdTTL \in Nat \ {0} /\ MaxTime \in Nat
  /\ StdTTL * Second \in Nat
<1>1. Second \in Nat \ {0} /\ StdTTL \in Nat \ {0} /\ MaxTime \in Nat
  BY OperationsAssumption DEF Caches!CacheAssumption
<1> QED
  BY <1>1

Time == {Caches!Never} \cup Nat

LEMMA SpansOfTime == \A n \in 0 .. 2 : n * Second \in Nat /\ n <= n * Second
<1> SUFFICES ASSUME NEW n \in 0 .. 2 PROVE n * Second \in Nat /\ n <= n * Second
  OBVIOUS
<1>1. CASE n = 0
  BY <1>1, CacheConstants
<1>2. CASE n = 1
  BY <1>2, CacheConstants
<1>3. CASE n = 2
  BY <1>3, CacheConstants
<1> QED
  BY <1>1, <1>2, <1>3

LEMMA StringTyped ==
  ASSUME NEW v \in Values, NEW d \in Time
  PROVE  /\ Caches!String(v, d) \in Caches!Entry
         /\ Caches!String(v, d).kind = "string" /\ Caches!String(v, d).value = v /\ Caches!String(v, d).due = d
         /\ Caches!String(v, d) \in [kind : {"string"}, value : Values, due : Time]
  BY DEF Caches!String, Caches!Entry, Time

LEMMA ConfigIs ==
  ASSUME NEW c \in Caches!Configs
  PROVE  c.by \in {"none", "number", "PX"} /\ c.n \in 0 .. 2
  BY DEF Caches!Configs, Caches!Ttls, Caches!NoConfig

\* The invariant, key by key
MemoryEntry == [kind : {"string"}, value : Values, due : Time]
Write == [value : Values, due : Time, at : Nat, config : Caches!Configs]

RedisTyped(k) ==
    k \in DOMAIN redis => redis[k] \in Caches!Entry /\ (redis[k].kind = "list" => redis[k].value \in Seq(Values))
OthersTyped(k) ==
    /\ k \in DOMAIN memory => memory[k] \in MemoryEntry
    /\ k \in DOMAIN written => written[k] \in Write
MemoryHolds(k) == k \notin aside => Caches!MemoryStands(k)
KeyInv(k) == RedisTyped(k) /\ OthersTyped(k) /\ Caches!RedisStands(k) /\ MemoryHolds(k)

Shape ==
    /\ now \in 0 .. MaxTime
    /\ DOMAIN redis \subseteq Keys /\ redis = [k \in DOMAIN redis |-> redis[k]]
    /\ DOMAIN memory \subseteq Keys /\ memory = [k \in DOMAIN memory |-> memory[k]]
    /\ DOMAIN written \subseteq Keys /\ written = [k \in DOMAIN written |-> written[k]]
    /\ aside \subseteq Keys

\* The end that the memory gives a string by itself
OwnEnd(w) ==
    IF w.config.by = "none" THEN w.at + StdTTL * Second
    ELSE IF w.config.by = "number" /\ w.config.n # 0 THEN w.at + w.config.n * Second
    ELSE Caches!Never

LEMMA TimeOverIs ==
  ASSUME NEW w \in Write
  PROVE  /\ OwnEnd(w) \in Time
         /\ \A t \in Nat : Caches!TimeOver(w, t) <=> OwnEnd(w) # Caches!Never /\ OwnEnd(w) <= t
<1>1. w.at \in Nat /\ w.config.by \in {"none", "number", "PX"} /\ w.config.n \in 0 .. 2
  BY ConfigIs DEF Write
<1>2. w.at + StdTTL * Second \in Nat /\ w.at + w.config.n * Second \in Nat
  BY <1>1, CacheConstants, SpansOfTime
<1>3. \A x \in Nat : x # Caches!Never
  BY DEF Caches!Never
<1> QED
  BY <1>1, <1>2, <1>3 DEF Caches!TimeOver, OwnEnd, Time

LEMMA MemoryDueIs ==
  ASSUME NEW c \in Caches!Configs, now \in Nat
  PROVE  /\ Caches!MemoryDue(c) \in Time
         /\ \A w : w.config = c /\ w.at = now => OwnEnd(w) = Caches!MemoryDue(c)
<1>1. c.by \in {"none", "number", "PX"} /\ c.n \in 0 .. 2
  BY ConfigIs
<1>2. now + StdTTL * Second \in Nat /\ now + c.n * Second \in Nat
  BY <1>1, CacheConstants, SpansOfTime
<1>3. c.by = "none" => Caches!MemoryDue(c) = now + StdTTL * Second
  BY DEF Caches!MemoryDue
<1>4. c.by = "number" /\ c.n # 0 => Caches!MemoryDue(c) = now + c.n * Second
  BY DEF Caches!MemoryDue
<1>5. c.by = "PX" \/ (c.by = "number" /\ c.n = 0) => Caches!MemoryDue(c) = Caches!Never
  BY DEF Caches!MemoryDue
<1> QED
  BY <1>1, <1>2, <1>3, <1>4, <1>5 DEF OwnEnd, Time

LEMMA InvOfKeys == Caches!CacheInv => Shape /\ \A k \in Keys : KeyInv(k)
<1> SUFFICES ASSUME Caches!CacheInv PROVE Shape /\ \A k \in Keys : KeyInv(k)
  OBVIOUS
<1> USE DEF Caches!CacheInv, Caches!TypeOK, Caches!EntriesAreTyped
<1>1. Shape
  BY DEF Shape
<1>2. \A k \in Keys : RedisTyped(k) /\ OthersTyped(k)
  BY DEF RedisTyped, OthersTyped, MemoryEntry, Write, Time
<1>3. \A k \in Keys : Caches!RedisStands(k) /\ MemoryHolds(k)
  BY DEF MemoryHolds
<1> QED
  BY <1>1, <1>2, <1>3 DEF KeyInv

LEMMA KeysOfInv == Shape /\ (\A k \in Keys : KeyInv(k)) => Caches!CacheInv
<1> SUFFICES ASSUME Shape, \A k \in Keys : KeyInv(k) PROVE Caches!CacheInv
  OBVIOUS
<1>1. \A k \in Keys : RedisTyped(k) /\ OthersTyped(k) /\ Caches!RedisStands(k) /\ MemoryHolds(k)
  BY DEF KeyInv
<1>2. redis \in [DOMAIN redis -> Caches!Entry]
  BY <1>1 DEF Shape, RedisTyped
<1>3. memory \in [DOMAIN memory -> MemoryEntry]
  BY <1>1 DEF Shape, OthersTyped
<1>4. written \in [DOMAIN written -> Write]
  BY <1>1 DEF Shape, OthersTyped
<1>5. Caches!TypeOK
  BY <1>2, <1>3 DEF Shape, Caches!TypeOK, MemoryEntry
<1>6. Caches!EntriesAreTyped
  BY <1>1, <1>3, <1>4 DEF Shape, Caches!EntriesAreTyped, RedisTyped, MemoryEntry, Write, Time
<1>7. \A k \in Keys \ aside : Caches!MemoryStands(k)
  BY <1>1 DEF MemoryHolds
<1> QED
  BY <1>1, <1>5, <1>6, <1>7 DEF Caches!CacheInv

\* The stores are functions, and those that change keep all keys but k
Kept(k, f, g) ==
    \A j \in Keys \ {k} : (j \in DOMAIN g <=> j \in DOMAIN f) /\ (j \in DOMAIN f => g[j] = f[j])
OfKey(k) ==
    /\ Kept(k, redis, redis') /\ Kept(k, memory, memory') /\ Kept(k, written, written')
    /\ \A j \in Keys \ {k} : j \in aside' <=> j \in aside
    /\ now' = now

LEMMA OthersKept ==
  ASSUME NEW k \in Keys, OfKey(k), NEW j \in Keys \ {k}, KeyInv(j)
  PROVE  KeyInv(j)'
<1>1. RedisTyped(j)' /\ OthersTyped(j)'
  BY DEF OfKey, Kept, KeyInv, RedisTyped, OthersTyped
<1>2. Caches!RedisStands(j)'
  BY DEF OfKey, Kept, KeyInv, Caches!RedisStands, Caches!Due, Caches!String
<1>3. MemoryHolds(j)'
  BY DEF OfKey, Kept, KeyInv, MemoryHolds, Caches!MemoryStands, Caches!Due, Caches!TimeOver, Caches!Outlasts
<1> QED
  BY <1>1, <1>2, <1>3 DEF KeyInv

LEMMA PutKeeps ==
  ASSUME NEW f, NEW k \in Keys, NEW v, DOMAIN f \subseteq Keys
  PROVE  /\ Kept(k, f, Caches!Put(f, k, v)) /\ DOMAIN Caches!Put(f, k, v) \subseteq Keys
         /\ k \in DOMAIN Caches!Put(f, k, v) /\ Caches!Put(f, k, v)[k] = v
         /\ Caches!Put(f, k, v) = [x \in DOMAIN Caches!Put(f, k, v) |-> Caches!Put(f, k, v)[x]]
<1> DEFINE g == Caches!Put(f, k, v)
<1>1. g = [x \in DOMAIN f \cup {k} |-> IF x = k THEN v ELSE f[x]]
  BY DEF Caches!Put
<1>2. DOMAIN g = DOMAIN f \cup {k} /\ \A x \in DOMAIN f \cup {k} : g[x] = IF x = k THEN v ELSE f[x]
  BY <1>1
<1>3. g = [x \in DOMAIN g |-> g[x]]
  BY <1>1
<1> HIDE DEF g
<1>4. Kept(k, f, g)
  BY <1>2 DEF Kept
<1> QED
  BY <1>2, <1>3, <1>4 DEF g

LEMMA DropKeeps ==
  ASSUME NEW f, NEW k \in Keys, DOMAIN f \subseteq Keys
  PROVE  /\ Kept(k, f, Caches!Drop(f, k)) /\ DOMAIN Caches!Drop(f, k) \subseteq Keys
         /\ k \notin DOMAIN Caches!Drop(f, k)
         /\ Caches!Drop(f, k) = [x \in DOMAIN Caches!Drop(f, k) |-> Caches!Drop(f, k)[x]]
<1> DEFINE g == Caches!Drop(f, k)
<1>1. g = [x \in DOMAIN f \ {k} |-> f[x]]
  BY DEF Caches!Drop
<1>2. DOMAIN g = DOMAIN f \ {k} /\ \A x \in DOMAIN f \ {k} : g[x] = f[x]
  BY <1>1
<1>3. g = [x \in DOMAIN g |-> g[x]]
  BY <1>1
<1> HIDE DEF g
<1>4. Kept(k, f, g)
  BY <1>2 DEF Kept
<1> QED
  BY <1>2, <1>3, <1>4 DEF g

\* A step that changes the key k, and no clock
KeyStep(k) == Shape' /\ OfKey(k) /\ KeyInv(k)'

LEMMA ShapeFacts ==
  ASSUME Shape
  PROVE  /\ now \in Nat /\ now <= MaxTime
         /\ DOMAIN redis \subseteq Keys /\ DOMAIN memory \subseteq Keys /\ DOMAIN written \subseteq Keys
  BY CacheConstants DEF Shape

\* Time that is over stays over, and what is due is over
LEMMA DueIs ==
  ASSUME NEW w \in Write, now \in Nat
  PROVE  /\ Caches!Due(w) <=> w.due # Caches!Never /\ w.due <= now
         /\ w.due \in Time
  BY DEF Caches!Due, Write

LEMMA CacheSet ==
  ASSUME Shape, NEW k \in Keys, KeyInv(k), NEW v \in Values, NEW c \in Caches!Configs, Caches!Set(k, v, c)
  PROVE  KeyStep(k)
<1> DEFINE due == Caches!MemoryDue(c)
           end == Caches!RedisDue(c)
           wrote == [value |-> v, due |-> end, at |-> now, config |-> c]
<1>1. /\ redis' = Caches!Put(redis, k, Caches!String(v, end))
      /\ memory' = Caches!Put(memory, k, Caches!String(v, due))
      /\ written' = Caches!Put(written, k, wrote)
      /\ aside' = aside \ {k} /\ now' = now
  BY DEF Caches!Set, Caches!MemorySet, Caches!RedisSet
<1>2. due \in Time /\ now \in Nat
  BY MemoryDueIs, ShapeFacts
<1>3. end \in Time
  BY <1>2, ConfigIs DEF Caches!RedisDue, Time
<1>4. wrote \in Write /\ wrote.value = v /\ wrote.due = end /\ OwnEnd(wrote) = due
  <2>1. wrote \in Write
    BY <1>2, <1>3 DEF Write
  <2>2. wrote.config = c /\ wrote.at = now
    OBVIOUS
  <2> QED
    BY <1>2, <2>1, <2>2, MemoryDueIs
<1>5. c.by # "PX" => end = Caches!Never
  BY DEF Caches!RedisDue
<1> HIDE DEF due, end, wrote
<1>6. Shape' /\ OfKey(k)
  BY <1>1, PutKeeps, ShapeFacts DEF Shape, OfKey
<1>7. /\ k \in DOMAIN redis' /\ redis'[k] = Caches!String(v, end)
      /\ k \in DOMAIN memory' /\ memory'[k] = Caches!String(v, due)
      /\ k \in DOMAIN written' /\ written'[k] = wrote
  BY <1>1, PutKeeps, ShapeFacts
<1>8. /\ Caches!String(v, end) \in Caches!Entry
      /\ Caches!String(v, end).kind = "string" /\ Caches!String(v, end).due = end
      /\ Caches!String(v, due) \in MemoryEntry
      /\ Caches!String(v, due).value = v /\ Caches!String(v, due).due = due
  BY <1>2, <1>3, StringTyped DEF MemoryEntry
<1>9. RedisTyped(k)' /\ OthersTyped(k)'
  BY <1>4, <1>7, <1>8 DEF RedisTyped, OthersTyped
<1>10. Caches!RedisStands(k)'
  BY <1>1, <1>4, <1>7, <1>8 DEF Caches!RedisStands, Caches!Due
<1>11. Caches!MemoryStands(k)'
  <2>1. Caches!Outlasts(due, wrote)
    BY <1>2, <1>4, TimeOverIs DEF Caches!Outlasts, Time
  <2>2. memory'[k].due = due /\ memory'[k].value = written'[k].value
    BY <1>4, <1>7, <1>8
  <2>3. Caches!Outlasts(memory'[k].due, written'[k])
    BY <1>7, <2>1, <2>2
  <2> QED
    BY <1>7, <2>2, <2>3 DEF Caches!MemoryStands, Caches!Outlasts, Caches!TimeOver
<1> QED
  BY <1>6, <1>9, <1>10, <1>11 DEF KeyStep, KeyInv, MemoryHolds

LEMMA CacheSetRefused ==
  ASSUME Shape, NEW k \in Keys, KeyInv(k), NEW v \in Values, Caches!SetRefused(k, v)
  PROVE  KeyStep(k)
<1> DEFINE c == [by |-> "PX", n |-> 0]
           due == Caches!MemoryDue(c)
<1>1. /\ memory' = Caches!Put(memory, k, Caches!String(v, due))
      /\ aside' = aside \cup {k} /\ now' = now /\ redis' = redis /\ written' = written
  BY DEF Caches!SetRefused, Caches!MemorySet
<1>2. c \in Caches!Configs
  BY DEF Caches!Configs
<1>3. due \in Time
  BY <1>2, MemoryDueIs, ShapeFacts
<1> HIDE DEF c, due
<1>4. Shape' /\ OfKey(k)
  BY <1>1, PutKeeps, ShapeFacts DEF Shape, OfKey, Kept
<1>5. memory'[k] = Caches!String(v, due) /\ Caches!String(v, due) \in MemoryEntry
  BY <1>1, <1>3, PutKeeps, ShapeFacts, StringTyped DEF MemoryEntry
<1>6. RedisTyped(k)' /\ OthersTyped(k)'
  BY <1>1, <1>5 DEF KeyInv, RedisTyped, OthersTyped
<1>7. Caches!RedisStands(k)'
  BY <1>1 DEF KeyInv, Caches!RedisStands, Caches!Due, Caches!String
<1> QED
  BY <1>1, <1>4, <1>6, <1>7 DEF KeyStep, KeyInv, MemoryHolds

LEMMA CacheDel ==
  ASSUME Shape, NEW k \in Keys, KeyInv(k), Caches!Del(k)
  PROVE  KeyStep(k)
<1>1. /\ redis' = Caches!Drop(redis, k) /\ memory' = Caches!Drop(memory, k)
      /\ written' = Caches!Drop(written, k) /\ aside' = aside \ {k}
      /\ now' = now
  BY DEF Caches!Del
<1>2. Shape' /\ OfKey(k)
  BY <1>1, DropKeeps, ShapeFacts DEF Shape, OfKey
<1>3. k \notin DOMAIN redis' /\ k \notin DOMAIN memory' /\ k \notin DOMAIN written'
  BY <1>1, DropKeeps, ShapeFacts
<1> QED
  BY <1>2, <1>3 DEF KeyStep, KeyInv, RedisTyped, OthersTyped, MemoryHolds, Caches!RedisStands, Caches!MemoryStands

LEMMA DueOf ==
  ASSUME NEW e \in Caches!Entry, NEW d \in Nat
  PROVE  /\ [e EXCEPT !.due = d] \in Caches!Entry
         /\ [e EXCEPT !.due = d].kind = e.kind /\ [e EXCEPT !.due = d].value = e.value
         /\ [e EXCEPT !.due = d].due = d
  BY DEF Caches!Entry

\* What is there has time left, or no end
LEMMA HasIs ==
  ASSUME NEW f, NEW k
  PROVE  Caches!Has(f, k) <=> k \in DOMAIN f /\ ~Caches!Due(f[k])
  BY DEF Caches!Has

LEMMA CachePExpire ==
  ASSUME Shape, NEW k \in Keys, KeyInv(k), NEW n \in 0 .. 2, Caches!PExpire(k, n)
  PROVE  KeyStep(k)
<1> DEFINE d == now + (IF n = 0 THEN StdTTL ELSE n) * Second
           t == now + n
<1>1. /\ now' = now /\ aside' = aside
      /\ redis' = IF ~Caches!Has(redis, k) THEN redis
                  ELSE IF n = 0 THEN Caches!Drop(redis, k) ELSE [redis EXCEPT ![k] = [redis[k] EXCEPT !.due = t]]
      /\ memory' = IF ~Caches!Has(memory, k) THEN memory
                   ELSE [memory EXCEPT ![k] = [memory[k] EXCEPT !.due = d]]
      /\ written' = IF Caches!Has(written, k) THEN [written EXCEPT ![k] = [written[k] EXCEPT !.due = t]] ELSE written
  BY DEF Caches!PExpire, Caches!RedisPExpire, Caches!MemoryPExpire
<1>2. now \in Nat /\ t \in Nat /\ d \in Nat /\ now <= t /\ t <= d /\ (n = 0 => t = now)
  BY ShapeFacts, SpansOfTime, CacheConstants
<1> HIDE DEF d, t
<1>3. /\ k \in DOMAIN redis => redis[k] \in Caches!Entry /\ (redis[k].kind = "list" => redis[k].value \in Seq(Values))
      /\ k \in DOMAIN memory => memory[k] \in MemoryEntry
      /\ k \in DOMAIN written => written[k] \in Write
  BY DEF KeyInv, RedisTyped, OthersTyped
\* Each store keeps its other keys
<1>4. /\ DOMAIN redis' \subseteq Keys /\ redis' = [j \in DOMAIN redis' |-> redis'[j]] /\ Kept(k, redis, redis')
      /\ Caches!Has(redis, k) /\ n = 0 => k \notin DOMAIN redis'
      /\ Caches!Has(redis, k) /\ n # 0 => k \in DOMAIN redis' /\ redis'[k] = [redis[k] EXCEPT !.due = t]
      /\ ~Caches!Has(redis, k) => redis' = redis
  <2>1. CASE ~Caches!Has(redis, k)
    BY <1>1, <2>1 DEF Shape, Kept
  <2>2. CASE Caches!Has(redis, k) /\ n = 0
    BY <1>1, <2>2, DropKeeps, ShapeFacts
  <2>3. CASE Caches!Has(redis, k) /\ n # 0
    <3> DEFINE e == [redis[k] EXCEPT !.due = t]
    <3>1. k \in DOMAIN redis /\ redis' = [redis EXCEPT ![k] = e]
      BY <1>1, <2>3 DEF Caches!Has
    <3> HIDE DEF e
    <3>2. DOMAIN redis' = DOMAIN redis /\ redis'[k] = e /\ \A j \in DOMAIN redis \ {k} : redis'[j] = redis[j]
      BY <3>1
    <3>3. redis' = [j \in DOMAIN redis' |-> redis'[j]]
      BY <3>1
    <3> QED
      BY <2>3, <3>1, <3>2, <3>3, ShapeFacts DEF Kept, e
  <2> QED
    BY <2>1, <2>2, <2>3
<1>5. /\ DOMAIN memory' \subseteq Keys /\ memory' = [j \in DOMAIN memory' |-> memory'[j]] /\ Kept(k, memory, memory')
      /\ k \in DOMAIN memory' <=> k \in DOMAIN memory
      /\ Caches!Has(memory, k) => memory'[k] = [memory[k] EXCEPT !.due = d]
      /\ ~Caches!Has(memory, k) => memory' = memory
  <2>1. CASE ~Caches!Has(memory, k)
    BY <1>1, <2>1 DEF Shape, Kept
  <2>2. CASE Caches!Has(memory, k)
    <3> DEFINE e == [memory[k] EXCEPT !.due = d]
    <3>1. k \in DOMAIN memory /\ memory' = [memory EXCEPT ![k] = e]
      BY <1>1, <2>2 DEF Caches!Has
    <3> HIDE DEF e
    <3>2. DOMAIN memory' = DOMAIN memory /\ memory'[k] = e /\ \A j \in DOMAIN memory \ {k} : memory'[j] = memory[j]
      BY <3>1
    <3>3. memory' = [j \in DOMAIN memory' |-> memory'[j]]
      BY <3>1
    <3> QED
      BY <2>2, <3>1, <3>2, <3>3, ShapeFacts DEF Kept, e
  <2> QED
    BY <2>1, <2>2
<1>6. /\ DOMAIN written' \subseteq Keys /\ written' = [j \in DOMAIN written' |-> written'[j]] /\ Kept(k, written, written')
      /\ k \in DOMAIN written' <=> k \in DOMAIN written
      /\ Caches!Has(written, k) => written'[k] = [written[k] EXCEPT !.due = t]
      /\ ~Caches!Has(written, k) => written' = written
  <2>1. CASE ~Caches!Has(written, k)
    BY <1>1, <2>1 DEF Shape, Kept
  <2>2. CASE Caches!Has(written, k)
    <3> DEFINE e == [written[k] EXCEPT !.due = t]
    <3>1. k \in DOMAIN written /\ written' = [written EXCEPT ![k] = e]
      BY <1>1, <2>2 DEF Caches!Has
    <3> HIDE DEF e
    <3>2. DOMAIN written' = DOMAIN written /\ written'[k] = e /\ \A j \in DOMAIN written \ {k} : written'[j] = written[j]
      BY <3>1
    <3>3. written' = [j \in DOMAIN written' |-> written'[j]]
      BY <3>1
    <3> QED
      BY <2>2, <3>1, <3>2, <3>3, ShapeFacts DEF Kept, e
  <2> QED
    BY <2>1, <2>2
<1>7. Shape' /\ OfKey(k)
  BY <1>1, <1>4, <1>5, <1>6 DEF Shape, OfKey
\* What has become of the entries
<1>8. Caches!Has(redis, k) => [redis[k] EXCEPT !.due = t] \in Caches!Entry
                             /\ [redis[k] EXCEPT !.due = t].kind = redis[k].kind
                             /\ [redis[k] EXCEPT !.due = t].value = redis[k].value
                             /\ [redis[k] EXCEPT !.due = t].due = t
  BY <1>2, <1>3, DueOf DEF Caches!Has
<1>9. Caches!Has(memory, k) => memory'[k] \in MemoryEntry /\ memory'[k].value = memory[k].value /\ memory'[k].due = d
  BY <1>2, <1>3, <1>5 DEF Caches!Has, MemoryEntry, Time
<1>10. Caches!Has(written, k) =>
          /\ written'[k] \in Write /\ written'[k].value = written[k].value /\ written'[k].due = t
          /\ written'[k].at = written[k].at /\ written'[k].config = written[k].config
  BY <1>2, <1>3, <1>6 DEF Caches!Has, Write, Time
<1>11. RedisTyped(k)' /\ OthersTyped(k)'
  <2>1. RedisTyped(k)'
    <3> DEFINE e == [redis[k] EXCEPT !.due = t]
    <3>1. CASE Caches!Has(redis, k) /\ n # 0
      <4>1. redis'[k] = e /\ e \in Caches!Entry /\ e.kind = redis[k].kind /\ e.value = redis[k].value
        BY <1>4, <1>8, <3>1
      <4>2. k \in DOMAIN redis
        BY <3>1, HasIs
      <4> HIDE DEF e
      <4> QED
        BY <1>3, <4>1, <4>2 DEF RedisTyped
    <3>2. CASE ~(Caches!Has(redis, k) /\ n # 0)
      BY <1>3, <1>4, <3>2 DEF RedisTyped
    <3> QED
      BY <3>1, <3>2
  <2>2. OthersTyped(k)'
    BY <1>3, <1>5, <1>6, <1>9, <1>10 DEF OthersTyped
  <2> QED
    BY <2>1, <2>2
<1>12. Caches!RedisStands(k)'
  <2>1. CASE Caches!Has(written, k)
    <3>1. Caches!Has(redis, k) /\ redis[k] = Caches!String(written[k].value, written[k].due)
      <4>1. k \in DOMAIN redis /\ redis[k] = Caches!String(written[k].value, written[k].due)
        BY <2>1, HasIs DEF KeyInv, Caches!RedisStands
      <4>2. redis[k].due = written[k].due
        BY <4>1 DEF Caches!String
      <4> QED
        BY <2>1, <4>1, <4>2 DEF Caches!Has, Caches!Due
    <3>2. CASE n = 0
      <4>1. k \notin DOMAIN redis' /\ Caches!Due(written[k])'
        BY <1>1, <1>2, <1>4, <1>10, <2>1, <3>1, <3>2 DEF Caches!Due, Caches!Never
      <4> QED
        BY <4>1 DEF Caches!RedisStands
    <3>3. CASE n # 0
      <4>1. k \in DOMAIN redis' /\ redis'[k] = [redis[k] EXCEPT !.due = t]
        BY <1>4, <3>1, <3>3
      <4>2. [redis[k] EXCEPT !.due = t] = Caches!String(written[k].value, t)
        BY <3>1 DEF Caches!String
      <4>3. redis'[k] = Caches!String(written'[k].value, written'[k].due) /\ redis'[k].due = written'[k].due
        BY <1>10, <2>1, <4>1, <4>2 DEF Caches!String
      <4>4. Caches!Due(written[k])' => Caches!Due(redis[k])'
        BY <4>3 DEF Caches!Due
      <4>5. k \in DOMAIN written'
        BY <1>6, <2>1, HasIs
      <4> QED
        BY <4>1, <4>3, <4>4, <4>5 DEF Caches!RedisStands, Caches!String
    <3> QED
      BY <3>2, <3>3
  <2>2. CASE ~Caches!Has(written, k)
    <3>1. written' = written /\ now' = now /\ (k \in DOMAIN written => Caches!Due(written[k]))
      BY <1>1, <1>6, <2>2, HasIs
    <3>2. k \in DOMAIN redis /\ redis[k].kind = "string" => ~Caches!Has(redis, k)
      BY <3>1, HasIs DEF KeyInv, Caches!RedisStands
    <3>3. k \in DOMAIN redis' /\ redis'[k].kind = "string" => redis' = redis
      BY <1>4, <1>8, <3>2, HasIs
    <3>4. k \in DOMAIN redis' /\ redis'[k].kind = "string" => Caches!Due(redis[k])'
      BY <1>1, <3>1, <3>3 DEF KeyInv, Caches!RedisStands, Caches!Due
    <3>5. k \in DOMAIN written' => Caches!Due(written[k])'
      BY <3>1 DEF Caches!Due
    <3> QED
      BY <3>4, <3>5 DEF Caches!RedisStands
  <2> QED
    BY <2>1, <2>2
<1>13. ASSUME k \notin aside PROVE Caches!MemoryStands(k)'
  <2>1. Caches!MemoryStands(k)
    BY <1>13 DEF KeyInv, MemoryHolds
  <2>2. k \in DOMAIN memory' => k \in DOMAIN written' /\ memory'[k].value = written'[k].value
    <3>1. k \in DOMAIN memory' => memory'[k].value = memory[k].value /\ k \in DOMAIN memory
      BY <1>5, <1>9
    <3>2. k \in DOMAIN written' => written'[k].value = written[k].value
      BY <1>6, <1>10
    <3> QED
      BY <1>6, <2>1, <3>1, <3>2 DEF Caches!MemoryStands
  <2>3. ASSUME k \in DOMAIN written', ~Caches!Due(written[k])', ~Caches!TimeOver(written[k], now)'
        PROVE  k \in DOMAIN memory' /\ Caches!Outlasts(memory[k].due, written[k])'
    <3>1. Caches!Has(written, k)
      BY <1>1, <1>6, <2>3 DEF Caches!Has, Caches!Due
    <3>2. k \in DOMAIN written /\ ~Caches!Due(written[k]) /\ ~Caches!TimeOver(written[k], now)
      BY <1>1, <1>10, <2>3, <3>1, HasIs DEF Caches!TimeOver
    <3>3. k \in DOMAIN memory /\ Caches!Outlasts(memory[k].due, written[k])
      BY <2>1, <3>2 DEF Caches!MemoryStands
    <3>4. Caches!Has(memory, k)
      <4>1. memory[k].due \in Time /\ written[k] \in Write /\ written[k].due \in Time
        BY <1>3, <3>2, <3>3 DEF MemoryEntry, Write
      <4>2. ASSUME Caches!Due(memory[k]) PROVE FALSE
        <5>1. memory[k].due \in Nat /\ memory[k].due <= now
          BY <4>1, <4>2 DEF Caches!Due, Time
        <5>2. CASE written[k].due # Caches!Never /\ written[k].due <= memory[k].due
          BY <1>2, <3>2, <4>1, <5>1, <5>2 DEF Caches!Due, Time
        <5>3. CASE Caches!TimeOver(written[k], memory[k].due)
          BY <1>2, <3>2, <4>1, <5>1, <5>3, TimeOverIs DEF Time
        <5>4. memory[k].due # Caches!Never
          BY <5>1 DEF Caches!Never
        <5> QED
          BY <3>3, <5>2, <5>3, <5>4 DEF Caches!Outlasts
      <4> QED
        BY <3>3, <4>2 DEF Caches!Has
    <3>5. memory'[k].due = d /\ written'[k].due = t
      BY <1>9, <1>10, <3>1, <3>4
    <3>6. t # Caches!Never
      BY <1>2 DEF Caches!Never
    <3> QED
      BY <1>2, <1>5, <3>3, <3>5, <3>6 DEF Caches!Outlasts
  <2> QED
    BY <2>2, <2>3 DEF Caches!MemoryStands
<1> QED
  BY <1>1, <1>7, <1>11, <1>12, <1>13 DEF KeyStep, KeyInv, MemoryHolds

\* A string that has time left is no place for a list or a hash
LEMMA StandingStringsAreThere ==
  ASSUME NEW k \in Keys, KeyInv(k), k \in DOMAIN written, ~Caches!Due(written[k])
  PROVE  /\ Caches!Has(redis, k) /\ redis[k].kind = "string" /\ ~Caches!Due(redis[k])
         /\ redis[k].value = written[k].value
<1>1. k \in DOMAIN redis /\ redis[k] = Caches!String(written[k].value, written[k].due)
  BY DEF KeyInv, Caches!RedisStands
<1>2. redis[k].kind = "string" /\ redis[k].due = written[k].due /\ redis[k].value = written[k].value
  BY <1>1 DEF Caches!String
<1> QED
  BY <1>1, <1>2 DEF Caches!Has, Caches!Due

\* A step of Redis alone, to what is no string
LEMMA OnlyOthersInRedis ==
  ASSUME NEW k \in Keys, KeyInv(k), UNCHANGED <<now, memory, written, aside>>,
         RedisTyped(k)', k \notin DOMAIN redis' \/ redis'[k].kind # "string",
         k \notin DOMAIN written \/ Caches!Due(written[k])
  PROVE  KeyInv(k)'
<1>1. OthersTyped(k)'
  BY DEF KeyInv, OthersTyped
<1>2. k \in DOMAIN written' => Caches!Due(written[k])'
  BY DEF Caches!Due
<1>3. Caches!RedisStands(k)'
  BY <1>2 DEF Caches!RedisStands
<1>4. MemoryHolds(k)'
  BY DEF KeyInv, MemoryHolds, Caches!MemoryStands, Caches!Due, Caches!TimeOver, Caches!Outlasts
<1> QED
  BY <1>1, <1>3, <1>4 DEF KeyInv

LEMMA NothingOfKey ==
  ASSUME NEW k \in Keys, KeyInv(k), UNCHANGED <<now, memory, written, aside>>,
         k \in DOMAIN redis' <=> k \in DOMAIN redis, k \in DOMAIN redis => redis'[k] = redis[k]
  PROVE  KeyInv(k)'
<1>1. RedisTyped(k)' /\ OthersTyped(k)'
  BY DEF KeyInv, RedisTyped, OthersTyped
<1>2. Caches!RedisStands(k)'
  BY DEF KeyInv, Caches!RedisStands, Caches!Due, Caches!String
<1>3. MemoryHolds(k)'
  BY DEF KeyInv, MemoryHolds, Caches!MemoryStands, Caches!Due, Caches!TimeOver, Caches!Outlasts
<1> QED
  BY <1>1, <1>2, <1>3 DEF KeyInv

LEMMA CacheHSet ==
  ASSUME Shape, NEW k \in Keys, KeyInv(k), NEW v \in Values, Caches!HSet(k, v)
  PROVE  KeyStep(k)
<1> DEFINE e == [kind |-> "hash", value |-> v, due |-> IF Caches!Has(redis, k) THEN redis[k].due ELSE Caches!Never]
<1>1. UNCHANGED <<now, memory, written, aside>>
  BY DEF Caches!HSet
<1>2. CASE redis' = redis
  <2>1. Shape' /\ OfKey(k)
    BY <1>1, <1>2 DEF OfKey, Kept, Shape
  <2>2. KeyInv(k)'
    BY <1>1, <1>2, NothingOfKey
  <2> QED
    BY <2>1, <2>2 DEF KeyStep
<1>3. CASE redis' = Caches!Put(redis, k, e) /\ ~(Caches!Has(redis, k) /\ redis[k].kind # "hash")
  <2>1. e.kind = "hash" /\ e \in Caches!Entry
    <3>1. Caches!Has(redis, k) => redis[k].due \in {Caches!Never} \cup Nat
      BY DEF Caches!Has, KeyInv, RedisTyped, Caches!Entry
    <3>2. e.due \in {Caches!Never} \cup Nat
      BY <3>1
    <3> QED
      BY <3>2 DEF Caches!Entry
  <2> HIDE DEF e
  <2>2. k \in DOMAIN redis' /\ redis'[k] = e /\ Kept(k, redis, redis')
        /\ DOMAIN redis' \subseteq Keys /\ redis' = [j \in DOMAIN redis' |-> redis'[j]]
    BY <1>3, PutKeeps, ShapeFacts
  <2>3. Shape' /\ OfKey(k)
    BY <1>1, <2>2 DEF Shape, OfKey, Kept
  <2>4. RedisTyped(k)'
    BY <2>1, <2>2 DEF RedisTyped
  <2>5. k \notin DOMAIN written \/ Caches!Due(written[k])
    BY <1>3, StandingStringsAreThere
  <2>6. KeyInv(k)'
    BY <1>1, <2>1, <2>2, <2>4, <2>5, OnlyOthersInRedis
  <2> QED
    BY <2>3, <2>6 DEF KeyStep
<1> QED
  BY <1>2, <1>3 DEF Caches!HSet

LEMMA CacheSweep ==
  ASSUME Shape, \A k \in Keys : KeyInv(k), Caches!Sweep
  PROVE  \E k \in Keys : KeyStep(k)
<1>1. now' = now /\ written' = written /\ aside' = aside
  BY DEF Caches!Sweep
<1>2. PICK k \in Keys :
         \/ k \in DOMAIN redis /\ Caches!Due(redis[k]) /\ redis' = Caches!Drop(redis, k) /\ memory' = memory
         \/ k \in DOMAIN memory /\ Caches!Due(memory[k]) /\ memory' = Caches!Drop(memory, k) /\ redis' = redis
  BY DEF Caches!Sweep
<1>3. KeyInv(k)
  OBVIOUS
<1>4. CASE k \in DOMAIN redis /\ Caches!Due(redis[k]) /\ redis' = Caches!Drop(redis, k) /\ memory' = memory
  <2>1. k \notin DOMAIN redis' /\ Kept(k, redis, redis')
        /\ DOMAIN redis' \subseteq Keys /\ redis' = [j \in DOMAIN redis' |-> redis'[j]]
    BY <1>4, DropKeeps, ShapeFacts
  <2>2. Shape' /\ OfKey(k)
    BY <1>1, <1>4, <2>1 DEF Shape, OfKey, Kept
  <2>3. RedisTyped(k)'
    BY <2>1 DEF RedisTyped
  <2>4. k \notin DOMAIN written \/ Caches!Due(written[k])
    BY <1>3, <1>4, StandingStringsAreThere
  <2>5. KeyInv(k)'
    BY <1>1, <1>3, <1>4, <2>1, <2>3, <2>4, OnlyOthersInRedis
  <2> QED
    BY <2>2, <2>5 DEF KeyStep
<1>5. CASE k \in DOMAIN memory /\ Caches!Due(memory[k]) /\ memory' = Caches!Drop(memory, k) /\ redis' = redis
  <2>1. k \notin DOMAIN memory' /\ Kept(k, memory, memory')
        /\ DOMAIN memory' \subseteq Keys /\ memory' = [j \in DOMAIN memory' |-> memory'[j]]
    BY <1>5, DropKeeps, ShapeFacts
  <2>2. Shape' /\ OfKey(k)
    BY <1>1, <1>5, <2>1 DEF Shape, OfKey, Kept
  <2>3. RedisTyped(k)' /\ OthersTyped(k)'
    BY <1>1, <1>3, <1>5, <2>1 DEF KeyInv, RedisTyped, OthersTyped
  <2>4. Caches!RedisStands(k)'
    BY <1>1, <1>3, <1>5 DEF KeyInv, Caches!RedisStands, Caches!Due, Caches!String
  \* What outlasts the time left in both is due only when one of them is over
  <2>5. ASSUME k \notin aside, k \in DOMAIN written, ~Caches!Due(written[k]), ~Caches!TimeOver(written[k], now)
        PROVE  FALSE
    <3>1. Caches!Outlasts(memory[k].due, written[k])
      BY <1>3, <2>5 DEF KeyInv, MemoryHolds, Caches!MemoryStands
    <3>2. now \in Nat /\ written[k] \in Write /\ written[k].due \in Time /\ memory[k].due \in Time
      BY <1>3, <1>5, <2>5, ShapeFacts DEF KeyInv, OthersTyped, MemoryEntry, Write
    <3>3. memory[k].due \in Nat /\ memory[k].due <= now /\ memory[k].due # Caches!Never
      BY <1>5, <3>2 DEF Caches!Due, Time
    <3>4. CASE written[k].due # Caches!Never /\ written[k].due <= memory[k].due
      BY <2>5, <3>2, <3>3, <3>4 DEF Caches!Due, Time
    <3>5. CASE Caches!TimeOver(written[k], memory[k].due)
      BY <2>5, <3>2, <3>3, <3>5, TimeOverIs DEF Time
    <3> QED
      BY <3>1, <3>3, <3>4, <3>5 DEF Caches!Outlasts
  <2>6. MemoryHolds(k)'
    BY <1>1, <2>1, <2>5 DEF MemoryHolds, Caches!MemoryStands, Caches!Due, Caches!TimeOver
  <2> QED
    BY <2>2, <2>3, <2>4, <2>6 DEF KeyStep, KeyInv
<1> QED
  BY <1>2, <1>4, <1>5

\* Each key that is pushed to holds a list, or what it held
LEMMA CachePush ==
  ASSUME Shape, \A k \in Keys : KeyInv(k), NEW S \in SUBSET Keys, NEW entries \in [S -> Values],
         Caches!SetMulti(entries)
  PROVE  Shape' /\ \A k \in Keys : KeyInv(k)'
<1> DEFINE new(k) == [kind |-> "list", value |-> <<entries[k]>>, due |-> Caches!Never]
           more(k) == [redis[k] EXCEPT !.value = IF Len(@) < 2 THEN Append(@, entries[k]) ELSE @]
<1>1. UNCHANGED <<now, memory, written, aside>>
  BY DEF Caches!SetMulti
<1>2. DOMAIN entries = S
  OBVIOUS
<1>3. /\ DOMAIN redis' = DOMAIN redis \cup S /\ redis' = [k \in DOMAIN redis' |-> redis'[k]]
  BY <1>2 DEF Caches!SetMulti, Caches!Push
<1>4. ASSUME NEW k \in DOMAIN redis \cup S
      PROVE  /\ k \in S /\ ~Caches!Has(redis, k) => redis'[k] = new(k)
             /\ k \in S /\ Caches!Has(redis, k) /\ redis[k].kind = "list" => redis'[k] = more(k)
             /\ ~(k \in S /\ (~Caches!Has(redis, k) \/ redis[k].kind = "list")) => redis'[k] = redis[k]
  BY <1>2, <1>4 DEF Caches!SetMulti, Caches!Push
<1>5. Shape'
  BY <1>1, <1>3 DEF Shape
<1>6. ASSUME NEW k \in Keys PROVE KeyInv(k)'
  <2>1. KeyInv(k)
    OBVIOUS
  <2>2. CASE k \in S /\ ~Caches!Has(redis, k)
    <3>1. entries[k] \in Values /\ k \in DOMAIN redis'
      BY <1>3, <2>2
    <3>2. <<entries[k]>> \in Seq(Values)
      BY <3>1
    <3>3. redis'[k] = new(k)
      BY <1>4, <2>2
    <3>4. new(k) \in Caches!Entry /\ new(k).kind = "list" /\ new(k).value \in Seq(Values)
      BY <3>2 DEF Caches!Entry, Caches!Never
    <3>5. k \notin DOMAIN written \/ Caches!Due(written[k])
      BY <2>1, <2>2, StandingStringsAreThere
    <3> HIDE DEF new
    <3>6. RedisTyped(k)'
      BY <3>3, <3>4 DEF RedisTyped
    <3> QED
      BY <1>1, <2>1, <3>3, <3>4, <3>5, <3>6, OnlyOthersInRedis
  <2>3. CASE k \in S /\ Caches!Has(redis, k) /\ redis[k].kind = "list"
    <3>1. entries[k] \in Values /\ k \in DOMAIN redis' /\ k \in DOMAIN redis
      BY <1>3, <2>3 DEF Caches!Has
    <3>2. redis[k] \in Caches!Entry /\ redis[k].value \in Seq(Values)
      BY <2>1, <2>3, <3>1 DEF KeyInv, RedisTyped
    <3> DEFINE w == IF Len(redis[k].value) < 2 THEN Append(redis[k].value, entries[k]) ELSE redis[k].value
    <3>3. w \in Seq(Values)
      BY <3>1, <3>2
    <3>4. redis'[k] = [redis[k] EXCEPT !.value = w]
      BY <1>4, <2>3
    <3> HIDE DEF w
    <3>5. redis'[k] \in Caches!Entry /\ redis'[k].kind = "list" /\ redis'[k].value = w
      BY <2>3, <3>2, <3>3, <3>4 DEF Caches!Entry
    <3>6. k \notin DOMAIN written \/ Caches!Due(written[k])
      BY <2>1, <2>3, StandingStringsAreThere
    <3>7. RedisTyped(k)'
      BY <3>3, <3>5 DEF RedisTyped
    <3> QED
      BY <1>1, <2>1, <3>5, <3>6, <3>7, OnlyOthersInRedis
  <2>4. CASE ~(k \in S /\ (~Caches!Has(redis, k) \/ redis[k].kind = "list"))
    <3>1. k \in DOMAIN redis' <=> k \in DOMAIN redis
      BY <1>3, <2>4 DEF Caches!Has
    <3>2. k \in DOMAIN redis => redis'[k] = redis[k]
      BY <1>4, <2>4
    <3> QED
      BY <1>1, <2>1, <3>1, <3>2, NothingOfKey
  <2> QED
    BY <2>2, <2>3, <2>4
<1> QED
  BY <1>5, <1>6

\* What the memory is given alone is set aside
LEMMA CacheMSet ==
  ASSUME Shape, \A k \in Keys : KeyInv(k), NEW S \in SUBSET Keys,
         NEW entries \in [S -> [val : Values, ttl : Caches!Ttls]], Caches!MSet(entries)
  PROVE  Shape' /\ \A k \in Keys : KeyInv(k)'
<1>1. UNCHANGED <<now, redis, written>> /\ aside' = aside \cup S /\ now \in Nat
  BY ShapeFacts DEF Caches!MSet
<1>2. /\ DOMAIN memory' = DOMAIN memory \cup S /\ memory' = [k \in DOMAIN memory' |-> memory'[k]]
      /\ \A k \in S : memory'[k] = Caches!String(entries[k].val, Caches!MemoryDue(entries[k].ttl))
      /\ \A k \in DOMAIN memory \ S : memory'[k] = memory[k]
  BY DEF Caches!MSet
<1>3. Shape'
  BY <1>1, <1>2 DEF Shape
<1>4. ASSUME NEW k \in Keys PROVE KeyInv(k)'
  <2>1. KeyInv(k)
    OBVIOUS
  <2>2. RedisTyped(k)'
    BY <1>1, <2>1 DEF KeyInv, RedisTyped
  <2>3. Caches!RedisStands(k)'
    BY <1>1, <2>1 DEF KeyInv, Caches!RedisStands, Caches!Due, Caches!String
  <2>4. CASE k \in S
    <3>1. entries[k].val \in Values /\ entries[k].ttl \in Caches!Configs
      BY <2>4 DEF Caches!Configs
    <3>2. Caches!MemoryDue(entries[k].ttl) \in Time
      BY <1>1, <3>1, MemoryDueIs
    <3>3. memory'[k] \in MemoryEntry
      BY <1>2, <2>4, <3>1, <3>2, StringTyped DEF MemoryEntry
    <3>4. OthersTyped(k)'
      BY <1>1, <2>1, <3>3 DEF KeyInv, OthersTyped
    <3> QED
      BY <1>1, <2>2, <2>3, <2>4, <3>4 DEF KeyInv, MemoryHolds
  <2>5. CASE k \notin S
    <3>1. (k \in DOMAIN memory' <=> k \in DOMAIN memory) /\ (k \in DOMAIN memory => memory'[k] = memory[k])
          /\ (k \in aside' <=> k \in aside)
      BY <1>1, <1>2, <2>5
    <3>2. OthersTyped(k)'
      BY <1>1, <2>1, <3>1 DEF KeyInv, OthersTyped
    <3>3. MemoryHolds(k)'
      BY <1>1, <2>1, <3>1
         DEF KeyInv, MemoryHolds, Caches!MemoryStands, Caches!Due, Caches!TimeOver, Caches!Outlasts
    <3> QED
      BY <2>2, <2>3, <3>2, <3>3 DEF KeyInv
  <2> QED
    BY <2>4, <2>5
<1> QED
  BY <1>3, <1>4

LEMMA CacheTick ==
  ASSUME Shape, \A k \in Keys : KeyInv(k), Caches!Tick
  PROVE  Shape' /\ \A k \in Keys : KeyInv(k)'
<1>1. now' = now + 1 /\ now < MaxTime /\ UNCHANGED <<redis, memory, written, aside>> /\ now \in Nat
  BY ShapeFacts DEF Caches!Tick
<1>2. Shape'
  BY <1>1, CacheConstants DEF Shape
<1>3. ASSUME NEW k \in Keys PROVE KeyInv(k)'
  <2>1. KeyInv(k)
    OBVIOUS
  <2>2. RedisTyped(k)' /\ OthersTyped(k)'
    BY <1>1, <2>1 DEF KeyInv, RedisTyped, OthersTyped
  <2>3. k \in DOMAIN redis => (Caches!Due(redis[k]) => Caches!Due(redis[k])')
    <3>1. k \in DOMAIN redis => redis[k].due \in Time
      BY <2>1 DEF KeyInv, RedisTyped, Caches!Entry, Time
    <3> QED
      BY <1>1, <3>1 DEF Caches!Due, Time
  <2>4. k \in DOMAIN written => (Caches!Due(written[k]) => Caches!Due(written[k])')
    <3>1. k \in DOMAIN written => written[k].due \in Time
      BY <2>1 DEF KeyInv, OthersTyped, Write
    <3> QED
      BY <1>1, <3>1 DEF Caches!Due, Time
  <2>5. k \in DOMAIN written =>
           (Caches!TimeOver(written[k], now) => Caches!TimeOver(written[k], now)')
    <3>1. k \in DOMAIN written => written[k] \in Write
      BY <2>1 DEF KeyInv, OthersTyped
    <3>2. now' \in Nat /\ now <= now'
      BY <1>1
    <3>3. k \in DOMAIN written /\ Caches!TimeOver(written[k], now) => Caches!TimeOver(written[k], now')
      BY <1>1, <3>1, <3>2, TimeOverIs DEF Time
    <3> QED
      BY <1>1, <3>3 DEF Caches!TimeOver
  \* A string falls due in Redis when the promise does
  <2>6. Caches!RedisStands(k)'
    <3>1. CASE k \in DOMAIN written /\ ~Caches!Due(written[k])
      <4>1. k \in DOMAIN redis /\ redis[k] = Caches!String(written[k].value, written[k].due)
        BY <2>1, <3>1 DEF KeyInv, Caches!RedisStands
      <4>2. redis[k].due = written[k].due
        BY <4>1 DEF Caches!String
      <4> QED
        BY <1>1, <3>1, <4>1, <4>2 DEF Caches!RedisStands, Caches!Due, Caches!String
    <3>2. CASE k \notin DOMAIN written \/ Caches!Due(written[k])
      BY <1>1, <2>1, <2>3, <2>4, <3>2 DEF KeyInv, Caches!RedisStands
    <3> QED
      BY <3>1, <3>2
  <2>7. MemoryHolds(k)'
    <3>1. ASSUME k \notin aside PROVE Caches!MemoryStands(k)'
      <4>1. Caches!MemoryStands(k)
        BY <2>1, <3>1 DEF KeyInv, MemoryHolds
      <4>2. Caches!Outlasts(memory[k].due, written[k]) => Caches!Outlasts(memory[k].due, written[k])'
        BY <1>1 DEF Caches!Outlasts, Caches!TimeOver
      <4> QED
        BY <1>1, <2>4, <2>5, <4>1, <4>2 DEF Caches!MemoryStands
    <3> QED
      BY <1>1, <3>1 DEF MemoryHolds
  <2> QED
    BY <2>2, <2>6, <2>7 DEF KeyInv
<1> QED
  BY <1>2, <1>3

LEMMA CachesStart == Caches!Init => Caches!CacheInv
<1> SUFFICES ASSUME Caches!Init PROVE Caches!CacheInv
  OBVIOUS
<1>1. /\ DOMAIN redis = {} /\ DOMAIN memory = {} /\ DOMAIN written = {} /\ aside = {}
      /\ redis = [k \in DOMAIN redis |-> redis[k]] /\ memory = [k \in DOMAIN memory |-> memory[k]]
      /\ written = [k \in DOMAIN written |-> written[k]]
  BY DEF Caches!Init, Caches!Empty
<1>2. now \in 0 .. MaxTime
  BY CacheConstants DEF Caches!Init
<1>3. \A k \in Keys : KeyInv(k)
  BY <1>1 DEF KeyInv, RedisTyped, OthersTyped, MemoryHolds, Caches!RedisStands, Caches!MemoryStands
<1> QED
  BY <1>1, <1>2, <1>3, KeysOfInv DEF Shape

Keyed == Shape /\ \A k \in Keys : KeyInv(k)

LEMMA CachesStep == Keyed /\ [Caches!Next]_cacheVars => Keyed'
<1> SUFFICES ASSUME Keyed, [Caches!Next]_cacheVars PROVE Keyed'
  OBVIOUS
<1>1. Shape /\ \A k \in Keys : KeyInv(k)
  BY DEF Keyed
<1>2. Shape' /\ (\A k \in Keys : KeyInv(k)') => Keyed'
  BY DEF Keyed
<1>3. ASSUME NEW k \in Keys, KeyStep(k) PROVE Keyed'
  <2>1. \A j \in Keys \ {k} : KeyInv(j)'
    BY <1>1, <1>3, OthersKept DEF KeyStep
  <2> QED
    BY <1>2, <1>3, <2>1 DEF KeyStep
<1>4. CASE UNCHANGED cacheVars
  <2>1. Shape'
    BY <1>1, <1>4 DEF cacheVars, Shape
  <2>2. \A k \in Keys : KeyInv(k)'
    BY <1>1, <1>4, NothingOfKey DEF cacheVars
  <2> QED
    BY <1>2, <2>1, <2>2
<1>5. ASSUME NEW k \in Keys, Caches!Del(k) PROVE Keyed'
  BY <1>1, <1>3, <1>5, CacheDel
<1>6. ASSUME NEW k \in Keys, NEW v \in Values, NEW c \in Caches!Configs, Caches!Set(k, v, c) PROVE Keyed'
  BY <1>1, <1>3, <1>6, CacheSet
<1>7. ASSUME NEW k \in Keys, NEW v \in Values, Caches!SetRefused(k, v) \/ Caches!HSet(k, v) PROVE Keyed'
  BY <1>1, <1>3, <1>7, CacheSetRefused, CacheHSet
<1>8. ASSUME NEW k \in Keys, NEW n \in 0 .. 2, Caches!PExpire(k, n) PROVE Keyed'
  BY <1>1, <1>3, <1>8, CachePExpire
<1>9. ASSUME NEW S \in SUBSET Keys, NEW entries \in [S -> Values], Caches!SetMulti(entries) PROVE Keyed'
  BY <1>1, <1>2, <1>9, CachePush
<1>10. ASSUME NEW S \in SUBSET Keys, NEW entries \in [S -> [val : Values, ttl : Caches!Ttls]], Caches!MSet(entries)
       PROVE  Keyed'
  BY <1>1, <1>2, <1>10, CacheMSet
<1>11. CASE Caches!Tick
  BY <1>1, <1>2, <1>11, CacheTick
<1>12. CASE Caches!Sweep
  BY <1>1, <1>3, <1>12, CacheSweep
<1> QED
  BY <1>4, <1>5, <1>6, <1>7, <1>8, <1>9, <1>10, <1>11, <1>12 DEF Caches!Next

LEMMA CachesDoAgree == Caches!CacheInv => CachesAgree
<1> SUFFICES ASSUME Caches!CacheInv PROVE CachesAgree
  OBVIOUS
<1>1. Shape /\ \A k \in Keys : KeyInv(k)
  BY InvOfKeys
<1>2. ASSUME NEW k \in Keys, k \in DOMAIN written, ~Caches!Due(written[k])
      PROVE  Caches!RedisGet(k) = written[k].value
  BY <1>1, <1>2, StandingStringsAreThere DEF Caches!RedisGet
<1>3. ASSUME NEW k \in Keys, k \notin DOMAIN written \/ Caches!Due(written[k])
      PROVE  Caches!RedisGet(k) = None
  BY <1>1, <1>3 DEF KeyInv, Caches!RedisStands, Caches!RedisGet, Caches!Has
<1>4. Caches!RedisKeepsItsWord
  BY <1>1, <1>2, <1>3 DEF Caches!RedisKeepsItsWord, Shape
<1>5. ASSUME NEW k \in Keys \ aside
      PROVE  /\ Caches!RedisGet(k) # None =>
                   Caches!MemoryGet(k) = Caches!RedisGet(k) \/ Caches!TimeOver(written[k], now)
             /\ Caches!MemoryGet(k) # None =>
                   Caches!RedisGet(k) = Caches!MemoryGet(k) \/ (k \in DOMAIN written /\ Caches!Due(written[k]))
  <2>1. Caches!MemoryStands(k) /\ OthersTyped(k) /\ now \in Nat
    BY <1>1, <1>5, ShapeFacts DEF KeyInv, MemoryHolds
  <2>2. ASSUME k \in DOMAIN written, ~Caches!Due(written[k]), ~Caches!TimeOver(written[k], now)
        PROVE  Caches!MemoryGet(k) = written[k].value
    <3>1. k \in DOMAIN memory /\ Caches!Outlasts(memory[k].due, written[k]) /\ memory[k].value = written[k].value
      BY <2>1, <2>2 DEF Caches!MemoryStands
    <3>2. written[k] \in Write /\ written[k].due \in Time /\ memory[k].due \in Time
      BY <2>1, <2>2, <3>1 DEF OthersTyped, MemoryEntry, Write
    <3>3. ASSUME Caches!Due(memory[k]) PROVE FALSE
      <4>1. memory[k].due \in Nat /\ memory[k].due <= now /\ memory[k].due # Caches!Never
        BY <3>2, <3>3 DEF Caches!Due, Time
      <4>2. CASE written[k].due # Caches!Never /\ written[k].due <= memory[k].due
        BY <2>1, <2>2, <3>2, <4>1, <4>2 DEF Caches!Due, Time
      <4>3. CASE Caches!TimeOver(written[k], memory[k].due)
        BY <2>1, <2>2, <3>2, <4>1, <4>3, TimeOverIs DEF Time
      <4> QED
        BY <3>1, <4>1, <4>2, <4>3 DEF Caches!Outlasts
    <3> QED
      BY <3>1, <3>3 DEF Caches!MemoryGet, Caches!MemoryHas, Caches!Has
  <2>3. Caches!RedisGet(k) # None => k \in DOMAIN written /\ ~Caches!Due(written[k])
    BY <1>3
  <2>4. Caches!MemoryGet(k) # None => k \in DOMAIN written /\ Caches!MemoryGet(k) = written[k].value
    BY <2>1 DEF Caches!MemoryGet, Caches!MemoryHas, Caches!Has, Caches!MemoryStands
  <2> QED
    BY <1>2, <2>2, <2>3, <2>4
<1>6. Caches!AdaptersAgree
  BY <1>5 DEF Caches!AdaptersAgree
<1>7. Caches!TypeOK
  BY DEF Caches!CacheInv
<1> QED
  BY <1>4, <1>6, <1>7 DEF CachesAgree

(***************************************************************************)
(* Redis answers what it was given as long as it was told to, and the two  *)
(* adapters answer alike but for the times of the memory, its hour and its *)
(* seconds, and those of Redis, which the memory does not keep.            *)
(***************************************************************************)
THEOREM CachesOfOperations == OperationsSpec => []CachesAgree
<1>1. OperationsInit => Keyed
  BY CachesStart, InvOfKeys DEF OperationsInit, Keyed
<1>2. Keyed /\ [OperationsNext]_<<part, vars, migrationVars, cacheVars>> => Keyed'
  <2>1. [OperationsNext]_<<part, vars, migrationVars, cacheVars>> => [Caches!Next]_cacheVars
    BY DEF OperationsNext
  <2> QED
    BY <2>1, CachesStep
<1>3. Keyed => CachesAgree
  BY KeysOfInv, CachesDoAgree DEF Keyed
<1> QED
  BY <1>1, <1>2, <1>3, PTL DEF OperationsSpec

-----------------------------------------------------------------------------
(***************************************************************************)
(* The migrations: what each statement is.                                 *)
(***************************************************************************)
LEMMA MigrationConstants == MaxRuns \in Nat /\ MaxUndos \in Nat
  BY OperationsAssumption DEF Postgres!MigrationsAssumption

LEMMA StatementIs ==
  ASSUME NEW needs, NEW refuses, NEW adds, NEW removes
  PROVE  /\ Postgres!Statement(needs, refuses, adds, removes).needs = needs
         /\ Postgres!Statement(needs, refuses, adds, removes).refuses = refuses
         /\ Postgres!Statement(needs, refuses, adds, removes).adds = adds
         /\ Postgres!Statement(needs, refuses, adds, removes).removes = removes
  BY DEF Postgres!Statement

\* Which statement of which migration adds an object
TablePlace(o, m, n) ==
    \/ o = <<"table", "permissions">> /\ m = 1 /\ n = 1
    \/ o = <<"table", "roles">> /\ m = 2 /\ n = 1
    \/ o = <<"table", "users_password">> /\ m = 3 /\ n = 1
    \/ o = <<"table", "users">> /\ m = 4 /\ n = 1
    \/ o = <<"table", "reset_password">> /\ m = 5 /\ n = 1
    \/ o = <<"table", "permissions_roles">> /\ m = 6 /\ n = 1
    \/ o = <<"table", "users_roles">> /\ m = 7 /\ n = 1
IndexPlace(o, m, n) ==
    \/ o = <<"index", <<"permissions_roles", "1">>>> /\ m = 6 /\ n = 2
    \/ o = <<"index", <<"permissions_roles", "2">>>> /\ m = 6 /\ n = 3
    \/ o = <<"index", <<"users_roles", "1">>>> /\ m = 7 /\ n = 2
    \/ o = <<"index", <<"users_roles", "2">>>> /\ m = 7 /\ n = 3
KeyPlace(o, m, n) ==
    m = 8 /\ \/ o = <<"fk", <<"users", "users_password">>>> /\ n = 1
             \/ o = <<"fk", <<"reset_password", "users">>>> /\ n = 2
             \/ o = <<"fk", <<"permissions_roles", "roles">>>> /\ n = 3
             \/ o = <<"fk", <<"permissions_roles", "permissions">>>> /\ n = 4
             \/ o = <<"fk", <<"users_roles", "users">>>> /\ n = 5
             \/ o = <<"fk", <<"users_roles", "roles">>>> /\ n = 6
SeedPlace(o, m, n) ==
    \/ o = <<"permission", "user">> /\ m = 9 /\ n = 1
    \/ o = <<"permission", "backoffice">> /\ m = 9 /\ n = 2
    \/ o = <<"role", "BACKOFFICE">> /\ m = 10 /\ n = 1
    \/ o = <<"role", "USER">> /\ m = 10 /\ n = 2
AdminPlace(o, m, n) ==
    m = 11 /\ \/ o = <<"password", runs>> /\ n = 1
              \/ o = <<"admin", runs>> /\ n = 2
              \/ o = <<"assigned", runs, "BACKOFFICE">> /\ n = 3
              \/ o = <<"assigned", runs, "USER">> /\ n = 4
GrantPlace(o, m, n) ==
    m = 11 /\ \/ o = <<"granted", "USER", "user">> /\ n = 5
              \/ o = <<"granted", "BACKOFFICE", "user">> /\ n = 6
              \/ o = <<"granted", "BACKOFFICE", "backoffice">> /\ n = 7
FixedPlace(o, m, n) ==
    \/ TablePlace(o, m, n) \/ IndexPlace(o, m, n) \/ KeyPlace(o, m, n) \/ SeedPlace(o, m, n)
    \/ GrantPlace(o, m, n)
    \/ o = <<"extension">> /\ m = 12 /\ n = 1
Place(o, m, n) == FixedPlace(o, m, n) \/ AdminPlace(o, m, n)

\* What a statement of a run is: it adds one object, and may refuse to find it
Once(s, needs, o) == s = Postgres!Statement(needs, {o}, {o}, {})
Again(s, needs, o) == s = Postgres!Statement(needs, {}, {o}, {})

LEMMA TablesAreCreated ==
  /\ Postgres!Up[1] = <<Postgres!CreateTable("permissions")>>
  /\ Postgres!Up[2] = <<Postgres!CreateTable("roles")>>
  /\ Postgres!Up[3] = <<Postgres!CreateTable("users_password")>>
  /\ Postgres!Up[4] = <<Postgres!CreateTable("users")>>
  /\ Postgres!Up[5] = <<Postgres!CreateTable("reset_password")>>
  /\ Postgres!Up[6] = Postgres!CreateJoinTable("permissions_roles")
  /\ Postgres!Up[7] = Postgres!CreateJoinTable("users_roles")
  /\ Postgres!Up[8] = Postgres!AddForeignKeys
  /\ Postgres!Up[9] = Postgres!InsertPermissions
  /\ Postgres!Up[10] = Postgres!InsertRoles
  /\ Postgres!Up[11] = Postgres!InsertUser
  /\ Postgres!Up[12] = <<Postgres!Statement({}, {}, {<<"extension">>}, {})>>
  BY DEF Postgres!Up

Table(t) == <<"table", t>>
UpOnce(m, n, needs, o) == Once(Postgres!Up[m][n], needs, o)
UpAgain(m, n, needs, o) == Again(Postgres!Up[m][n], needs, o)

LEMMA UpTables ==
  /\ Len(Postgres!Up[1]) = 1 /\ Len(Postgres!Up[2]) = 1 /\ Len(Postgres!Up[3]) = 1
  /\ Len(Postgres!Up[4]) = 1 /\ Len(Postgres!Up[5]) = 1
  /\ UpAgain(1, 1, {}, Table("permissions")) /\ UpAgain(2, 1, {}, Table("roles"))
  /\ UpAgain(3, 1, {}, Table("users_password")) /\ UpAgain(4, 1, {}, Table("users"))
  /\ UpAgain(5, 1, {}, Table("reset_password"))
  BY TablesAreCreated DEF UpOnce, UpAgain, Once, Again, Table, Postgres!CreateTable

LEMMA UpJoins ==
  /\ Len(Postgres!Up[6]) = 3 /\ Len(Postgres!Up[7]) = 3
  /\ UpAgain(6, 1, {}, Table("permissions_roles"))
  /\ UpOnce(6, 2, {Table("permissions_roles")}, <<"index", <<"permissions_roles", "1">>>>)
  /\ UpOnce(6, 3, {Table("permissions_roles")}, <<"index", <<"permissions_roles", "2">>>>)
  /\ UpAgain(7, 1, {}, Table("users_roles"))
  /\ UpOnce(7, 2, {Table("users_roles")}, <<"index", <<"users_roles", "1">>>>)
  /\ UpOnce(7, 3, {Table("users_roles")}, <<"index", <<"users_roles", "2">>>>)
  BY TablesAreCreated DEF UpOnce, UpAgain, Once, Again, Table, Postgres!CreateJoinTable, Postgres!CreateTable, Postgres!CreateIndex

LEMMA UpKeys ==
  /\ Len(Postgres!Up[8]) = 6
  /\ UpOnce(8, 1, {Table("users"), Table("users_password")}, <<"fk", <<"users", "users_password">>>>)
  /\ UpOnce(8, 2, {Table("reset_password"), Table("users")}, <<"fk", <<"reset_password", "users">>>>)
  /\ UpOnce(8, 3, {Table("permissions_roles"), Table("roles")}, <<"fk", <<"permissions_roles", "roles">>>>)
  /\ UpOnce(8, 4, {Table("permissions_roles"), Table("permissions")}, <<"fk", <<"permissions_roles", "permissions">>>>)
  /\ UpOnce(8, 5, {Table("users_roles"), Table("users")}, <<"fk", <<"users_roles", "users">>>>)
  /\ UpOnce(8, 6, {Table("users_roles"), Table("roles")}, <<"fk", <<"users_roles", "roles">>>>)
  BY TablesAreCreated DEF UpOnce, UpAgain, Once, Again, Table, Postgres!AddForeignKeys, Postgres!AddForeignKey

LEMMA UpSeeds ==
  /\ Len(Postgres!Up[9]) = 2 /\ Len(Postgres!Up[10]) = 2
  /\ UpOnce(9, 1, {Table("permissions")}, <<"permission", "user">>)
  /\ UpOnce(9, 2, {Table("permissions")}, <<"permission", "backoffice">>)
  /\ UpOnce(10, 1, {Table("roles")}, <<"role", "BACKOFFICE">>)
  /\ UpOnce(10, 2, {Table("roles")}, <<"role", "USER">>)
  BY TablesAreCreated DEF UpOnce, UpAgain, Once, Again, Table, Postgres!InsertPermissions, Postgres!InsertRoles, Postgres!InsertUnique

LEMMA UpAdmin ==
  /\ Len(Postgres!Up[11]) = 7
  /\ UpAgain(11, 1, {Table("users_password")}, <<"password", runs>>)
  /\ UpAgain(11, 2, {Table("users")}, <<"admin", runs>>)
  /\ UpAgain(11, 3, {Table("users_roles")}, <<"assigned", runs, "BACKOFFICE">>)
  /\ UpAgain(11, 4, {Table("users_roles")}, <<"assigned", runs, "USER">>)
  /\ UpOnce(11, 5, {<<"role", "USER">>, <<"permission", "user">>}, <<"granted", "USER", "user">>)
  /\ UpOnce(11, 6, {<<"role", "BACKOFFICE">>, <<"permission", "user">>}, <<"granted", "BACKOFFICE", "user">>)
  /\ UpOnce(11, 7, {<<"role", "BACKOFFICE">>, <<"permission", "backoffice">>},
          <<"granted", "BACKOFFICE", "backoffice">>)
  BY TablesAreCreated DEF UpOnce, UpAgain, Once, Again, Table, Postgres!InsertUser, Postgres!Insert, Postgres!Grant

LEMMA UpExtension == Len(Postgres!Up[12]) = 1 /\ UpAgain(12, 1, {}, <<"extension">>)
  BY TablesAreCreated DEF UpOnce, UpAgain, Once, Again

LEMMA UpLength ==
  ASSUME NEW m \in 1 .. 12
  PROVE  /\ m \in {1, 2, 3, 4, 5, 12} => Len(Postgres!Up[m]) = 1
         /\ m \in {6, 7} => Len(Postgres!Up[m]) = 3
         /\ m = 8 => Len(Postgres!Up[m]) = 6
         /\ m \in {9, 10} => Len(Postgres!Up[m]) = 2
         /\ m = 11 => Len(Postgres!Up[m]) = 7
<1>1. m \in {1, 2, 3, 4, 5, 12} => Len(Postgres!Up[m]) = 1
  BY UpTables, UpExtension
<1>2. m \in {6, 7} => Len(Postgres!Up[m]) = 3
  BY UpJoins
<1>3. m = 8 => Len(Postgres!Up[m]) = 6
  BY UpKeys
<1>4. m \in {9, 10} => Len(Postgres!Up[m]) = 2
  BY UpSeeds
<1>5. m = 11 => Len(Postgres!Up[m]) = 7
  BY UpAdmin
<1> QED
  BY <1>1, <1>2, <1>3, <1>4, <1>5

\* A statement of a run adds the object whose place it is, removes nothing,
\* and refuses to find no other object
HasPlace(m, n) ==
    \E o : /\ Place(o, m, n) /\ Postgres!Up[m][n].adds = {o} /\ Postgres!Up[m][n].removes = {}
           /\ \/ Postgres!Up[m][n].refuses = {}
              \/ Postgres!Up[m][n].refuses = {o} /\ FixedPlace(o, m, n) /\ m \in 6 .. 11

LEMMA OncePlaced ==
  ASSUME NEW m \in 6 .. 11, NEW n, NEW needs, NEW o, UpOnce(m, n, needs, o), FixedPlace(o, m, n)
  PROVE  HasPlace(m, n)
<1>1. Postgres!Up[m][n].adds = {o} /\ Postgres!Up[m][n].removes = {} /\ Postgres!Up[m][n].refuses = {o}
  BY StatementIs DEF UpOnce, Once
<1> QED
  BY <1>1 DEF HasPlace, Place

LEMMA AgainPlaced ==
  ASSUME NEW m, NEW n, NEW needs, NEW o, UpAgain(m, n, needs, o), Place(o, m, n)
  PROVE  HasPlace(m, n)
<1>1. Postgres!Up[m][n].adds = {o} /\ Postgres!Up[m][n].removes = {} /\ Postgres!Up[m][n].refuses = {}
  BY StatementIs DEF UpAgain, Again
<1> QED
  BY <1>1 DEF HasPlace

LEMMA StatementsHavePlaces ==
  /\ HasPlace(1, 1) /\ HasPlace(2, 1) /\ HasPlace(3, 1) /\ HasPlace(4, 1)
  /\ HasPlace(5, 1) /\ HasPlace(6, 1) /\ HasPlace(7, 1) /\ HasPlace(6, 2)
  /\ HasPlace(6, 3) /\ HasPlace(7, 2) /\ HasPlace(7, 3) /\ HasPlace(8, 1)
  /\ HasPlace(8, 2) /\ HasPlace(8, 3) /\ HasPlace(8, 4) /\ HasPlace(8, 5)
  /\ HasPlace(8, 6) /\ HasPlace(9, 1) /\ HasPlace(9, 2) /\ HasPlace(10, 1)
  /\ HasPlace(10, 2) /\ HasPlace(11, 1) /\ HasPlace(11, 2) /\ HasPlace(11, 3)
  /\ HasPlace(11, 4) /\ HasPlace(11, 5) /\ HasPlace(11, 6) /\ HasPlace(11, 7)
  /\ HasPlace(12, 1)
<1>1. HasPlace(1, 1) /\ HasPlace(2, 1) /\ HasPlace(3, 1) /\ HasPlace(4, 1) /\ HasPlace(5, 1) /\ HasPlace(6, 1) /\ HasPlace(7, 1)
  <2>1. /\ Place(Table("permissions"), 1, 1)
        /\ Place(Table("roles"), 2, 1)
        /\ Place(Table("users_password"), 3, 1)
        /\ Place(Table("users"), 4, 1)
        /\ Place(Table("reset_password"), 5, 1)
        /\ Place(Table("permissions_roles"), 6, 1)
        /\ Place(Table("users_roles"), 7, 1)
    BY DEF Place, FixedPlace, TablePlace, Table
  <2> QED
    BY <2>1, UpTables, UpJoins, AgainPlaced
<1>2. HasPlace(6, 2) /\ HasPlace(6, 3) /\ HasPlace(7, 2) /\ HasPlace(7, 3)
  <2>1. /\ FixedPlace(<<"index", <<"permissions_roles", "1">>>>, 6, 2)
        /\ FixedPlace(<<"index", <<"permissions_roles", "2">>>>, 6, 3)
        /\ FixedPlace(<<"index", <<"users_roles", "1">>>>, 7, 2)
        /\ FixedPlace(<<"index", <<"users_roles", "2">>>>, 7, 3)
    BY DEF FixedPlace, IndexPlace
  <2> QED
    BY <2>1, UpJoins, OncePlaced
<1>3. HasPlace(8, 1) /\ HasPlace(8, 2) /\ HasPlace(8, 3) /\ HasPlace(8, 4) /\ HasPlace(8, 5) /\ HasPlace(8, 6)
  <2>1. /\ FixedPlace(<<"fk", <<"users", "users_password">>>>, 8, 1)
        /\ FixedPlace(<<"fk", <<"reset_password", "users">>>>, 8, 2)
        /\ FixedPlace(<<"fk", <<"permissions_roles", "roles">>>>, 8, 3)
        /\ FixedPlace(<<"fk", <<"permissions_roles", "permissions">>>>, 8, 4)
        /\ FixedPlace(<<"fk", <<"users_roles", "users">>>>, 8, 5)
        /\ FixedPlace(<<"fk", <<"users_roles", "roles">>>>, 8, 6)
    BY DEF FixedPlace, KeyPlace
  <2> QED
    BY <2>1, UpKeys, OncePlaced
<1>4. HasPlace(9, 1) /\ HasPlace(9, 2) /\ HasPlace(10, 1) /\ HasPlace(10, 2)
  <2>1. /\ FixedPlace(<<"permission", "user">>, 9, 1)
        /\ FixedPlace(<<"permission", "backoffice">>, 9, 2)
        /\ FixedPlace(<<"role", "BACKOFFICE">>, 10, 1)
        /\ FixedPlace(<<"role", "USER">>, 10, 2)
    BY DEF FixedPlace, SeedPlace
  <2> QED
    BY <2>1, UpSeeds, OncePlaced
<1>5. HasPlace(11, 1) /\ HasPlace(11, 2) /\ HasPlace(11, 3) /\ HasPlace(11, 4)
  <2>1. /\ Place(<<"password", runs>>, 11, 1)
        /\ Place(<<"admin", runs>>, 11, 2)
        /\ Place(<<"assigned", runs, "BACKOFFICE">>, 11, 3)
        /\ Place(<<"assigned", runs, "USER">>, 11, 4)
    BY DEF Place, FixedPlace, AdminPlace
  <2> QED
    BY <2>1, UpAdmin, AgainPlaced
<1>6. HasPlace(11, 5) /\ HasPlace(11, 6) /\ HasPlace(11, 7)
  <2>1. /\ FixedPlace(<<"granted", "USER", "user">>, 11, 5)
        /\ FixedPlace(<<"granted", "BACKOFFICE", "user">>, 11, 6)
        /\ FixedPlace(<<"granted", "BACKOFFICE", "backoffice">>, 11, 7)
    BY DEF FixedPlace, GrantPlace
  <2> QED
    BY <2>1, UpAdmin, OncePlaced
<1>7. HasPlace(12, 1)
  <2>1. /\ Place(<<"extension">>, 12, 1)
    BY DEF Place, FixedPlace
  <2> QED
    BY <2>1, UpExtension, AgainPlaced
<1> QED
  BY <1>1, <1>2, <1>3, <1>4, <1>5, <1>6, <1>7

LEMMA EffectOf ==
  ASSUME NEW m \in 1 .. 12, NEW n \in 1 .. Len(Postgres!Up[m])
  PROVE  HasPlace(m, n)
<1>1. CASE m \in {1, 2, 3, 4, 5, 12}
  <2>1. n \in 1 .. 1
    BY <1>1, UpLength
  <2>2. n = 1
    BY <2>1
  <2> QED
    BY <1>1, <2>2, StatementsHavePlaces
<1>2. CASE m \in {6, 7}
  <2>1. n \in 1 .. 3
    BY <1>2, UpLength
  <2>2. n = 1 \/ n = 2 \/ n = 3
    BY <2>1
  <2> QED
    BY <1>2, <2>2, StatementsHavePlaces
<1>3. CASE m \in {9, 10}
  <2>1. n \in 1 .. 2
    BY <1>3, UpLength
  <2>2. n = 1 \/ n = 2
    BY <2>1
  <2> QED
    BY <1>3, <2>2, StatementsHavePlaces
<1>4. CASE m = 8
  <2>1. n \in 1 .. 6
    BY <1>4, UpLength
  <2>2. n = 1 \/ n = 2 \/ n = 3 \/ n = 4 \/ n = 5 \/ n = 6
    BY <2>1
  <2> QED
    BY <1>4, <2>2, StatementsHavePlaces
<1>5. CASE m = 11
  <2>1. n \in 1 .. 7
    BY <1>5, UpLength
  <2>2. n = 1 \/ n = 2 \/ n = 3 \/ n = 4 \/ n = 5 \/ n = 6 \/ n = 7
    BY <2>1
  <2> QED
    BY <1>5, <2>2, StatementsHavePlaces
<1> QED
  BY <1>1, <1>2, <1>3, <1>4, <1>5

LEMMA PlacesHaveTags ==
  ASSUME NEW o, NEW m, NEW n
  PROVE  /\ TablePlace(o, m, n) => o[1] = "table"
         /\ IndexPlace(o, m, n) => o[1] = "index"
         /\ KeyPlace(o, m, n) => o[1] = "fk"
         /\ SeedPlace(o, m, n) => o[1] \in {"permission", "role"}
         /\ AdminPlace(o, m, n) => o[1] \in {"password", "admin", "assigned"}
         /\ GrantPlace(o, m, n) => o[1] = "granted"
         /\ o = <<"extension">> => o[1] = "extension"
  BY DEF TablePlace, IndexPlace, KeyPlace, SeedPlace, AdminPlace, GrantPlace

\* An object has one place, and a place has one object
LEMMA PlacesAreUnique ==
  ASSUME NEW o, NEW m, NEW n, NEW k, NEW l, Place(o, m, n), Place(o, k, l)
  PROVE  m = k /\ n = l
<1>1. TablePlace(o, m, n) /\ TablePlace(o, k, l) => m = k /\ n = l
  BY DEF TablePlace
<1>2. IndexPlace(o, m, n) /\ IndexPlace(o, k, l) => m = k /\ n = l
  BY DEF IndexPlace
<1>3. KeyPlace(o, m, n) /\ KeyPlace(o, k, l) => m = k /\ n = l
  BY DEF KeyPlace
<1>4. SeedPlace(o, m, n) /\ SeedPlace(o, k, l) => m = k /\ n = l
  BY DEF SeedPlace
<1>5. AdminPlace(o, m, n) /\ AdminPlace(o, k, l) => m = k /\ n = l
  BY DEF AdminPlace
<1>6. GrantPlace(o, m, n) /\ GrantPlace(o, k, l) => m = k /\ n = l
  BY DEF GrantPlace
<1> QED
  BY <1>1, <1>2, <1>3, <1>4, <1>5, <1>6, PlacesHaveTags DEF Place, FixedPlace

LEMMA PlacesHaveOne ==
  ASSUME NEW o, NEW m, NEW n, NEW x, Place(o, m, n), Place(x, m, n)
  PROVE  o = x
  BY DEF Place, FixedPlace, TablePlace, IndexPlace, KeyPlace, SeedPlace, AdminPlace, GrantPlace

LEMMA AddedAtItsPlace ==
  ASSUME NEW m \in 1 .. 12, NEW n \in 1 .. Len(Postgres!Up[m]), NEW o, Place(o, m, n)
  PROVE  Postgres!Up[m][n].adds = {o} /\ Postgres!Up[m][n].refuses \subseteq {o} /\ Postgres!Up[m][n].removes = {}
  BY EffectOf, PlacesHaveOne DEF HasPlace

\* What a statement needs is added by an earlier one
Earlier(x, m, n) ==
    \E k \in 1 .. 10, l \in 1 .. 7 :
        FixedPlace(x, k, l) /\ l <= Len(Postgres!Up[k]) /\ (k < m \/ (k = m /\ l < n))
FollowsNeeds(m, n) == \A x \in Postgres!Up[m][n].needs : Earlier(x, m, n)

LEMMA EarlierIs ==
  ASSUME NEW m \in 1 .. 12, NEW n \in 1 .. 7
  PROVE  /\ m > 1 => Earlier(Table("permissions"), m, n)
         /\ m > 2 => Earlier(Table("roles"), m, n)
         /\ m > 3 => Earlier(Table("users_password"), m, n)
         /\ m > 4 => Earlier(Table("users"), m, n)
         /\ m > 5 => Earlier(Table("reset_password"), m, n)
         /\ m > 6 \/ (m = 6 /\ n > 1) => Earlier(Table("permissions_roles"), m, n)
         /\ m > 7 \/ (m = 7 /\ n > 1) => Earlier(Table("users_roles"), m, n)
         /\ m > 9 => Earlier(<<"permission", "user">>, m, n) /\ Earlier(<<"permission", "backoffice">>, m, n)
         /\ m > 10 => Earlier(<<"role", "BACKOFFICE">>, m, n) /\ Earlier(<<"role", "USER">>, m, n)
<1>1. ASSUME NEW x, NEW k \in 1 .. 10, NEW l \in 1 .. 7, FixedPlace(x, k, l), l <= Len(Postgres!Up[k]),
             k < m \/ (k = m /\ l < n)
      PROVE  Earlier(x, m, n)
  BY <1>1 DEF Earlier
<1>2. m > 1 => Earlier(Table("permissions"), m, n)
  <2>1. FixedPlace(Table("permissions"), 1, 1)
    BY DEF FixedPlace, TablePlace, Table
  <2>2. 1 <= Len(Postgres!Up[1])
    BY UpTables
  <2> QED
    BY <1>1, <2>1, <2>2
<1>3. m > 2 => Earlier(Table("roles"), m, n)
  <2>1. FixedPlace(Table("roles"), 2, 1)
    BY DEF FixedPlace, TablePlace, Table
  <2>2. 1 <= Len(Postgres!Up[2])
    BY UpTables
  <2> QED
    BY <1>1, <2>1, <2>2
<1>4. m > 3 => Earlier(Table("users_password"), m, n)
  <2>1. FixedPlace(Table("users_password"), 3, 1)
    BY DEF FixedPlace, TablePlace, Table
  <2>2. 1 <= Len(Postgres!Up[3])
    BY UpTables
  <2> QED
    BY <1>1, <2>1, <2>2
<1>5. m > 4 => Earlier(Table("users"), m, n)
  <2>1. FixedPlace(Table("users"), 4, 1)
    BY DEF FixedPlace, TablePlace, Table
  <2>2. 1 <= Len(Postgres!Up[4])
    BY UpTables
  <2> QED
    BY <1>1, <2>1, <2>2
<1>6. m > 5 => Earlier(Table("reset_password"), m, n)
  <2>1. FixedPlace(Table("reset_password"), 5, 1)
    BY DEF FixedPlace, TablePlace, Table
  <2>2. 1 <= Len(Postgres!Up[5])
    BY UpTables
  <2> QED
    BY <1>1, <2>1, <2>2
<1>7. m > 6 \/ (m = 6 /\ n > 1) => Earlier(Table("permissions_roles"), m, n)
  <2>1. FixedPlace(Table("permissions_roles"), 6, 1)
    BY DEF FixedPlace, TablePlace, Table
  <2>2. 1 <= Len(Postgres!Up[6])
    BY UpJoins
  <2> QED
    BY <1>1, <2>1, <2>2
<1>8. m > 7 \/ (m = 7 /\ n > 1) => Earlier(Table("users_roles"), m, n)
  <2>1. FixedPlace(Table("users_roles"), 7, 1)
    BY DEF FixedPlace, TablePlace, Table
  <2>2. 1 <= Len(Postgres!Up[7])
    BY UpJoins
  <2> QED
    BY <1>1, <2>1, <2>2
<1>9. m > 9 => Earlier(<<"permission", "user">>, m, n)
  <2>1. FixedPlace(<<"permission", "user">>, 9, 1)
    BY DEF FixedPlace, SeedPlace
  <2>2. 1 <= Len(Postgres!Up[9])
    BY UpSeeds
  <2> QED
    BY <1>1, <2>1, <2>2
<1>10. m > 9 => Earlier(<<"permission", "backoffice">>, m, n)
  <2>1. FixedPlace(<<"permission", "backoffice">>, 9, 2)
    BY DEF FixedPlace, SeedPlace
  <2>2. 2 <= Len(Postgres!Up[9])
    BY UpSeeds
  <2> QED
    BY <1>1, <2>1, <2>2
<1>11. m > 10 => Earlier(<<"role", "BACKOFFICE">>, m, n)
  <2>1. FixedPlace(<<"role", "BACKOFFICE">>, 10, 1)
    BY DEF FixedPlace, SeedPlace
  <2>2. 1 <= Len(Postgres!Up[10])
    BY UpSeeds
  <2> QED
    BY <1>1, <2>1, <2>2
<1>12. m > 10 => Earlier(<<"role", "USER">>, m, n)
  <2>1. FixedPlace(<<"role", "USER">>, 10, 2)
    BY DEF FixedPlace, SeedPlace
  <2>2. 2 <= Len(Postgres!Up[10])
    BY UpSeeds
  <2> QED
    BY <1>1, <2>1, <2>2
<1> QED
  BY <1>2, <1>3, <1>4, <1>5, <1>6, <1>7, <1>8, <1>9, <1>10, <1>11, <1>12

LEMMA NeedsOf ==
  ASSUME NEW m, NEW n, NEW needs, NEW o, UpOnce(m, n, needs, o) \/ UpAgain(m, n, needs, o),
         \A x \in needs : Earlier(x, m, n)
  PROVE  FollowsNeeds(m, n)
<1>1. Postgres!Up[m][n].needs = needs
  BY StatementIs DEF UpOnce, UpAgain, Once, Again
<1> QED
  BY <1>1 DEF FollowsNeeds

LEMMA NeedsAreEarlier ==
  ASSUME NEW m \in 1 .. 12, NEW n \in 1 .. Len(Postgres!Up[m])
  PROVE  FollowsNeeds(m, n)
<1>1. FollowsNeeds(1, 1) /\ FollowsNeeds(2, 1) /\ FollowsNeeds(3, 1) /\ FollowsNeeds(4, 1) /\ FollowsNeeds(5, 1)
  <2>1. FollowsNeeds(1, 1)
    BY NeedsOf, UpTables
  <2>2. FollowsNeeds(2, 1)
    BY NeedsOf, UpTables
  <2>3. FollowsNeeds(3, 1)
    BY NeedsOf, UpTables
  <2>4. FollowsNeeds(4, 1)
    BY NeedsOf, UpTables
  <2>5. FollowsNeeds(5, 1)
    BY NeedsOf, UpTables
  <2> QED
    BY <2>1, <2>2, <2>3, <2>4, <2>5
<1>2. FollowsNeeds(6, 1) /\ FollowsNeeds(6, 2) /\ FollowsNeeds(6, 3) /\ FollowsNeeds(7, 1) /\ FollowsNeeds(7, 2) /\ FollowsNeeds(7, 3)
  <2>1. FollowsNeeds(6, 1)
    BY NeedsOf, UpJoins
  <2>2. FollowsNeeds(6, 2)
    <3>1. \A x \in {Table("permissions_roles")} : Earlier(x, 6, 2)
      BY EarlierIs
    <3> QED
      BY <3>1, NeedsOf, UpJoins
  <2>3. FollowsNeeds(6, 3)
    <3>1. \A x \in {Table("permissions_roles")} : Earlier(x, 6, 3)
      BY EarlierIs
    <3> QED
      BY <3>1, NeedsOf, UpJoins
  <2>4. FollowsNeeds(7, 1)
    BY NeedsOf, UpJoins
  <2>5. FollowsNeeds(7, 2)
    <3>1. \A x \in {Table("users_roles")} : Earlier(x, 7, 2)
      BY EarlierIs
    <3> QED
      BY <3>1, NeedsOf, UpJoins
  <2>6. FollowsNeeds(7, 3)
    <3>1. \A x \in {Table("users_roles")} : Earlier(x, 7, 3)
      BY EarlierIs
    <3> QED
      BY <3>1, NeedsOf, UpJoins
  <2> QED
    BY <2>1, <2>2, <2>3, <2>4, <2>5, <2>6
<1>3. FollowsNeeds(8, 1) /\ FollowsNeeds(8, 2) /\ FollowsNeeds(8, 3) /\ FollowsNeeds(8, 4) /\ FollowsNeeds(8, 5) /\ FollowsNeeds(8, 6)
  <2>1. FollowsNeeds(8, 1)
    <3>1. \A x \in {Table("users"), Table("users_password")} : Earlier(x, 8, 1)
      BY EarlierIs
    <3> QED
      BY <3>1, NeedsOf, UpKeys
  <2>2. FollowsNeeds(8, 2)
    <3>1. \A x \in {Table("reset_password"), Table("users")} : Earlier(x, 8, 2)
      BY EarlierIs
    <3> QED
      BY <3>1, NeedsOf, UpKeys
  <2>3. FollowsNeeds(8, 3)
    <3>1. \A x \in {Table("permissions_roles"), Table("roles")} : Earlier(x, 8, 3)
      BY EarlierIs
    <3> QED
      BY <3>1, NeedsOf, UpKeys
  <2>4. FollowsNeeds(8, 4)
    <3>1. \A x \in {Table("permissions_roles"), Table("permissions")} : Earlier(x, 8, 4)
      BY EarlierIs
    <3> QED
      BY <3>1, NeedsOf, UpKeys
  <2>5. FollowsNeeds(8, 5)
    <3>1. \A x \in {Table("users_roles"), Table("users")} : Earlier(x, 8, 5)
      BY EarlierIs
    <3> QED
      BY <3>1, NeedsOf, UpKeys
  <2>6. FollowsNeeds(8, 6)
    <3>1. \A x \in {Table("users_roles"), Table("roles")} : Earlier(x, 8, 6)
      BY EarlierIs
    <3> QED
      BY <3>1, NeedsOf, UpKeys
  <2> QED
    BY <2>1, <2>2, <2>3, <2>4, <2>5, <2>6
<1>4. FollowsNeeds(9, 1) /\ FollowsNeeds(9, 2) /\ FollowsNeeds(10, 1) /\ FollowsNeeds(10, 2)
  <2>1. FollowsNeeds(9, 1)
    <3>1. \A x \in {Table("permissions")} : Earlier(x, 9, 1)
      BY EarlierIs
    <3> QED
      BY <3>1, NeedsOf, UpSeeds
  <2>2. FollowsNeeds(9, 2)
    <3>1. \A x \in {Table("permissions")} : Earlier(x, 9, 2)
      BY EarlierIs
    <3> QED
      BY <3>1, NeedsOf, UpSeeds
  <2>3. FollowsNeeds(10, 1)
    <3>1. \A x \in {Table("roles")} : Earlier(x, 10, 1)
      BY EarlierIs
    <3> QED
      BY <3>1, NeedsOf, UpSeeds
  <2>4. FollowsNeeds(10, 2)
    <3>1. \A x \in {Table("roles")} : Earlier(x, 10, 2)
      BY EarlierIs
    <3> QED
      BY <3>1, NeedsOf, UpSeeds
  <2> QED
    BY <2>1, <2>2, <2>3, <2>4
<1>5. FollowsNeeds(11, 1) /\ FollowsNeeds(11, 2) /\ FollowsNeeds(11, 3) /\ FollowsNeeds(11, 4) /\ FollowsNeeds(11, 5) /\ FollowsNeeds(11, 6) /\ FollowsNeeds(11, 7)
  <2>1. FollowsNeeds(11, 1)
    <3>1. \A x \in {Table("users_password")} : Earlier(x, 11, 1)
      BY EarlierIs
    <3> QED
      BY <3>1, NeedsOf, UpAdmin
  <2>2. FollowsNeeds(11, 2)
    <3>1. \A x \in {Table("users")} : Earlier(x, 11, 2)
      BY EarlierIs
    <3> QED
      BY <3>1, NeedsOf, UpAdmin
  <2>3. FollowsNeeds(11, 3)
    <3>1. \A x \in {Table("users_roles")} : Earlier(x, 11, 3)
      BY EarlierIs
    <3> QED
      BY <3>1, NeedsOf, UpAdmin
  <2>4. FollowsNeeds(11, 4)
    <3>1. \A x \in {Table("users_roles")} : Earlier(x, 11, 4)
      BY EarlierIs
    <3> QED
      BY <3>1, NeedsOf, UpAdmin
  <2>5. FollowsNeeds(11, 5)
    <3>1. Earlier(<<"role", "USER">>, 11, 5) /\ Earlier(<<"permission", "user">>, 11, 5)
      BY EarlierIs
    <3> QED
      BY <3>1, NeedsOf, UpAdmin
  <2>6. FollowsNeeds(11, 6)
    <3>1. Earlier(<<"role", "BACKOFFICE">>, 11, 6) /\ Earlier(<<"permission", "user">>, 11, 6)
      BY EarlierIs
    <3> QED
      BY <3>1, NeedsOf, UpAdmin
  <2>7. FollowsNeeds(11, 7)
    <3>1. Earlier(<<"role", "BACKOFFICE">>, 11, 7) /\ Earlier(<<"permission", "backoffice">>, 11, 7)
      BY EarlierIs
    <3> QED
      BY <3>1, NeedsOf, UpAdmin
  <2> QED
    BY <2>1, <2>2, <2>3, <2>4, <2>5, <2>6, <2>7
<1>6. FollowsNeeds(12, 1)
  <2>1. FollowsNeeds(12, 1)
    BY NeedsOf, UpExtension
  <2> QED
    BY <2>1
<1>7. CASE m \in {1, 2, 3, 4, 5, 12}
  <2>1. n \in 1 .. 1
    BY <1>7, UpLength
  <2>2. n = 1
    BY <2>1
  <2> QED
    BY <1>1, <1>6, <1>7, <2>2
<1>8. CASE m \in {6, 7}
  <2>1. n \in 1 .. 3
    BY <1>8, UpLength
  <2>2. n = 1 \/ n = 2 \/ n = 3
    BY <2>1
  <2> QED
    BY <1>2, <1>8, <2>2
<1>9. CASE m \in {9, 10}
  <2>1. n \in 1 .. 2
    BY <1>9, UpLength
  <2>2. n = 1 \/ n = 2
    BY <2>1
  <2> QED
    BY <1>4, <1>9, <2>2
<1>10. CASE m = 8
  <2>1. n \in 1 .. 6
    BY <1>10, UpLength
  <2>2. n = 1 \/ n = 2 \/ n = 3 \/ n = 4 \/ n = 5 \/ n = 6
    BY <2>1
  <2> QED
    BY <1>3, <1>10, <2>2
<1>11. CASE m = 11
  <2>1. n \in 1 .. 7
    BY <1>11, UpLength
  <2>2. n = 1 \/ n = 2 \/ n = 3 \/ n = 4 \/ n = 5 \/ n = 6 \/ n = 7
    BY <2>1
  <2> QED
    BY <1>5, <1>11, <2>2
<1> QED
  BY <1>7, <1>8, <1>9, <1>10, <1>11

-----------------------------------------------------------------------------
(***************************************************************************)
(* The migrations: what undoes them.  Past the foreign keys an undo drops  *)
(* no table, and that of the keys executes nothing.                        *)
(***************************************************************************)
UpLen(m) ==
    IF m = 8 THEN 6 ELSE IF m = 11 THEN 7 ELSE IF m \in {6, 7} THEN 3 ELSE IF m \in {9, 10} THEN 2 ELSE 1
DownLen(m) == IF m \in {6, 7, 11} THEN 3 ELSE 1

LEMMA LengthsAreKnown ==
  ASSUME NEW m \in 1 .. 12
  PROVE  UpLen(m) \in 1 .. 7 /\ DownLen(m) \in 1 .. 3
  BY DEF UpLen, DownLen

LEMMA UpLengthIs == ASSUME NEW m \in 1 .. 12 PROVE Len(Postgres!Up[m]) = UpLen(m)
<1>1. UpLen(m) = IF m = 8 THEN 6 ELSE IF m = 11 THEN 7 ELSE IF m \in {6, 7} THEN 3 ELSE IF m \in {9, 10} THEN 2 ELSE 1
  BY DEF UpLen
<1>2. CASE m \in {1, 2, 3, 4, 5, 12}
  <2>1. UpLen(m) = 1
    BY <1>1, <1>2
  <2>2. Len(Postgres!Up[m]) = 1
    BY <1>2, UpLength
  <2> QED
    BY <2>1, <2>2
<1>3. CASE m \in {6, 7} \/ m \in {9, 10}
  BY <1>1, <1>3, UpLength
<1>4. CASE m = 8 \/ m = 11
  BY <1>1, <1>4, UpLength
<1> QED
  BY <1>2, <1>3, <1>4

LEMMA DownIs ==
  /\ Postgres!Down[1] = <<Postgres!DropTable("permissions")>>
  /\ Postgres!Down[2] = <<Postgres!DropTable("roles")>>
  /\ Postgres!Down[3] = <<Postgres!DropTable("users_password")>>
  /\ Postgres!Down[4] = <<Postgres!DropTable("users_password")>>
  /\ Postgres!Down[5] = <<Postgres!DropTable("reset_password")>>
  /\ Postgres!Down[6] = Postgres!DropJoinTable("permissions_roles")
  /\ Postgres!Down[7] = Postgres!DropJoinTable("users_roles")
  /\ Postgres!Down[8] = Postgres!DropForeignKeys
  /\ Postgres!Down[9] = <<Postgres!Refused>>
  /\ Postgres!Down[10] = <<Postgres!Nothing>>
  /\ Postgres!Down[11] = <<Postgres!DeletePasswords, Postgres!DeleteAdmins, Postgres!DeleteGrants>>
  /\ Postgres!Down[12] = <<Postgres!Statement({}, {}, {}, {<<"extension">>})>>
  BY DEF Postgres!Down

LEMMA DownLengthIs == ASSUME NEW m \in 1 .. 12 PROVE Len(Postgres!Down[m]) = DownLen(m)
<1>1. m \in {1, 2, 3, 4, 5, 9, 10, 12} => Len(Postgres!Down[m]) = 1
  BY DownIs
<1>2. m \in {6, 7} => Len(Postgres!Down[m]) = 3
  BY DownIs DEF Postgres!DropJoinTable
<1>3. m = 8 => Len(Postgres!Down[m]) = 1
  <2>1. Postgres!Down[8] = <<Postgres!Refused>>
    BY DownIs DEF Postgres!DropForeignKeys
  <2> HIDE DEF Postgres!Refused
  <2> QED
    BY <2>1
<1>4. m = 11 => Len(Postgres!Down[m]) = 3
  BY DownIs
<1>5. DownLen(m) = IF m \in {6, 7, 11} THEN 3 ELSE 1
  BY DEF DownLen
<1>6. CASE m \in {6, 7, 11}
  BY <1>2, <1>4, <1>5, <1>6
<1>7. CASE m \in {1, 2, 3, 4, 5, 9, 10, 12} \/ m = 8
  <2>1. DownLen(m) = 1
    BY <1>5, <1>7
  <2>2. Len(Postgres!Down[m]) = 1
    BY <1>1, <1>3, <1>7
  <2> QED
    BY <2>1, <2>2
<1> QED
  BY <1>6, <1>7

LEMMA UndosAddNothing ==
  /\ \A t : Postgres!DropTable(t).adds = {}
  /\ \A t, i : Postgres!DropIndex(t, i).adds = {}
  /\ Postgres!Refused.adds = {} /\ Postgres!Refused.removes = {} /\ Postgres!Refused.needs = {<<"check">>}
  /\ Postgres!Nothing.adds = {} /\ Postgres!Nothing.removes = {}
  /\ Postgres!DeletePasswords.adds = {} /\ Postgres!DeleteAdmins.adds = {} /\ Postgres!DeleteGrants.adds = {}
<1>1. \A t : Postgres!DropTable(t).adds = {}
  BY DEF Postgres!DropTable, Postgres!Statement
<1>2. \A t, i : Postgres!DropIndex(t, i).adds = {}
  BY DEF Postgres!DropIndex, Postgres!Statement
<1>3. Postgres!Refused.adds = {} /\ Postgres!Refused.removes = {} /\ Postgres!Refused.needs = {<<"check">>}
  BY DEF Postgres!Refused, Postgres!Statement
<1>4. Postgres!Nothing.adds = {} /\ Postgres!Nothing.removes = {}
  BY DEF Postgres!Nothing, Postgres!Statement
<1>5. Postgres!DeletePasswords.adds = {} /\ Postgres!DeleteAdmins.adds = {} /\ Postgres!DeleteGrants.adds = {}
  BY DEF Postgres!DeletePasswords, Postgres!DeleteAdmins, Postgres!DeleteGrants, Postgres!Statement
<1> QED
  BY <1>1, <1>2, <1>3, <1>4, <1>5

LEMMA DownAddsNothing ==
  ASSUME NEW m \in 1 .. 12, NEW n \in 1 .. DownLen(m)
  PROVE  Postgres!Down[m][n].adds = {}
<1>1. CASE m \in {1, 2, 3, 4, 5, 9, 10, 12}
  <2>1. n = 1
    BY <1>1 DEF DownLen
  <2>2. Postgres!Statement({}, {}, {}, {<<"extension">>}).adds = {}
    BY StatementIs
  <2> QED
    BY <1>1, <2>1, <2>2, DownIs, UndosAddNothing
<1>2. CASE m \in {6, 7}
  <2>1. n = 1 \/ n = 2 \/ n = 3
    BY <1>2 DEF DownLen
  <2> QED
    BY <1>2, <2>1, DownIs, UndosAddNothing DEF Postgres!DropJoinTable
<1>3. CASE m = 8
  <2>1. n = 1
    BY <1>3 DEF DownLen
  <2> QED
    BY <1>3, <2>1, DownIs, UndosAddNothing DEF Postgres!DropForeignKeys
<1>4. CASE m = 11
  <2>1. n = 1 \/ n = 2 \/ n = 3
    BY <1>4 DEF DownLen
  <2> QED
    BY <1>4, <2>1, DownIs, UndosAddNothing
<1> QED
  BY <1>1, <1>2, <1>3, <1>4

LEMMA UndoOfAdmins ==
  /\ Postgres!DeletePasswords.removes = {<<"password", n>> : n \in (1 .. MaxRuns) \ changed}
  /\ Postgres!DeleteAdmins.removes =
        {<<"admin", n>> : n \in Postgres!SeedAdmins} \cup {o \in Postgres!Tuples("assigned") : o[2] \in Postgres!SeedAdmins}
  /\ Postgres!DeleteGrants.removes = Postgres!Tuples("granted")
  BY DEF Postgres!DeletePasswords, Postgres!DeleteAdmins, Postgres!DeleteGrants, Postgres!Statement

LEMMA DownKeepsTables ==
  ASSUME NEW m \in 8 .. 12, NEW n \in 1 .. DownLen(m), NEW t
  PROVE  <<"table", t>> \notin Postgres!Down[m][n].removes
<1>1. CASE m \in {9, 10}
  <2>1. n = 1
    BY <1>1 DEF DownLen
  <2> QED
    BY <1>1, <2>1, DownIs, UndosAddNothing
<1>2. CASE m = 8
  <2>1. n = 1
    BY <1>2 DEF DownLen
  <2> QED
    BY <1>2, <2>1, DownIs, UndosAddNothing DEF Postgres!DropForeignKeys
<1>3. CASE m = 12
  <2>1. n = 1
    BY <1>3 DEF DownLen
  <2>2. Postgres!Down[m][n].removes = {<<"extension">>}
    BY <1>3, <2>1, DownIs, StatementIs
  <2> QED
    BY <2>2
<1>4. CASE m = 11
  <2>1. n = 1 \/ n = 2 \/ n = 3
    BY <1>4 DEF DownLen
  <2>2. <<"table", t>> \notin Postgres!DeletePasswords.removes
    BY UndoOfAdmins
  <2>3. <<"table", t>> \notin Postgres!DeleteAdmins.removes /\ <<"table", t>> \notin Postgres!DeleteGrants.removes
    BY UndoOfAdmins DEF Postgres!Tuples
  <2> QED
    BY <1>4, <2>1, <2>2, <2>3, DownIs
<1> QED
  BY <1>1, <1>2, <1>3, <1>4

LEMMA PlacesAreObjects ==
  ASSUME NEW o, NEW m, NEW n, Place(o, m, n), runs \in 1 .. MaxRuns
  PROVE  o \in Postgres!Object
<1> USE DEF Postgres!Object, Postgres!Entities
<1>1. TablePlace(o, m, n) => o \in Postgres!Object
  BY DEF TablePlace, Postgres!Tables
<1>2. IndexPlace(o, m, n) => o \in Postgres!Object
  BY DEF IndexPlace, Postgres!Indexes
<1>3. KeyPlace(o, m, n) => o \in Postgres!Object
  BY DEF KeyPlace, Postgres!ForeignKeys
<1>4. SeedPlace(o, m, n) => o \in Postgres!Object
  BY DEF SeedPlace, Postgres!Permissions, Postgres!Roles
<1>5. AdminPlace(o, m, n) => o \in Postgres!Object
  BY DEF AdminPlace, Postgres!Roles
<1>6. GrantPlace(o, m, n) => o \in Postgres!Object
  BY DEF GrantPlace, Postgres!Permissions, Postgres!Roles
<1> QED
  BY <1>1, <1>2, <1>3, <1>4, <1>5, <1>6 DEF Place, FixedPlace

LEMMA NoChecks == <<"check">> \notin Postgres!Object
  BY DEF Postgres!Object, Postgres!Entities

-----------------------------------------------------------------------------
(***************************************************************************)
(* The migrations: the inductive invariant.  A run is at the migration     *)
(* after the recorded ones, an undo at the last of them.                   *)
(***************************************************************************)
InOrder ==
    /\ mode = "up" => at = recorded + 1 /\ runs > 0 /\ pc <= UpLen(at) + 1
    /\ mode = "down" => at = recorded /\ undos > 0 /\ pc <= DownLen(at) + 1

\* What a run did so far stays done, and what its foreign keys refer to is there
DoneSoFar ==
    mode = "up" => /\ \A o, n : FixedPlace(o, at, n) /\ n < pc => o \in db
                   /\ at = 11 /\ pc > 2 => <<"admin", runs>> \in db
KeysHaveTables ==
    mode = "up" /\ at = 8 =>
        /\ pc > 1 => Table("users") \in db /\ Table("users_password") \in db
        /\ pc > 2 => Table("reset_password") \in db
        /\ pc > 3 => Table("permissions_roles") \in db /\ Table("roles") \in db
        /\ pc > 4 => Table("permissions") \in db
        /\ pc > 5 => Table("users_roles") \in db

RecordedIsDone ==
    undos = 0 =>
        /\ \A m \in (1 .. recorded) \ {11} : \A o, n : FixedPlace(o, m, n) => o \in db
        /\ recorded >= 11 => /\ Postgres!Admins # {}
                             /\ \A p \in Postgres!Permissions : <<"granted", "BACKOFFICE", p>> \in db

\* There are rows only past the foreign keys, whose undo always fails
RowTags == {"permission", "role", "password", "admin", "assigned", "granted"}
RowsFollowKeys ==
    /\ recorded >= 8 => \A t \in Postgres!Tables : Table(t) \in db
    /\ recorded < 8 => \A o \in db : o[1] \notin RowTags
    /\ mode = "down" /\ at = 8 => pc = 1

\* What a statement refuses to find is there only when it was cut, done, or made otherwise
UndoneIsAbsent ==
    undos = 0 =>
        \A m \in (6 .. 11) \ cutIn : m > recorded =>
            \A o, n : FixedPlace(o, m, n) => (mode = "up" /\ at = m /\ n < pc) \/ o \notin db \/ o \in made

\* Without a cut an administrator with the e-mail of the seed is there from the second
\* statement of insertUser on, until the second statement that undoes it
AdminsComeAndGo ==
    11 \notin cutIn =>
        /\ \A n, k \in Postgres!SeedAdmins : n = k
        /\ recorded < 11 => Postgres!SeedAdmins = {} \/ (mode = "up" /\ at = 11 /\ pc > 2)
        /\ mode = "down" /\ at = 11 /\ pc > 2 => Postgres!SeedAdmins = {}

SchemaInv ==
    /\ Postgres!TypeOK /\ InOrder /\ DoneSoFar /\ KeysHaveTables /\ RecordedIsDone
    /\ RowsFollowKeys /\ UndoneIsAbsent /\ AdminsComeAndGo

LEMMA PlacesAreInRange ==
  ASSUME NEW o, NEW m, NEW n, Place(o, m, n)
  PROVE  m \in 1 .. 12 /\ n \in 1 .. UpLen(m)
<1>1. TablePlace(o, m, n) => m \in 1 .. 12 /\ n \in 1 .. UpLen(m)
  BY DEF TablePlace, UpLen
<1>2. IndexPlace(o, m, n) => m \in 1 .. 12 /\ n \in 1 .. UpLen(m)
  BY DEF IndexPlace, UpLen
<1>3. KeyPlace(o, m, n) => m \in 1 .. 12 /\ n \in 1 .. UpLen(m)
  BY DEF KeyPlace, UpLen
<1>4. SeedPlace(o, m, n) => m \in 1 .. 12 /\ n \in 1 .. UpLen(m)
  BY DEF SeedPlace, UpLen
<1>5. AdminPlace(o, m, n) => m \in 1 .. 12 /\ n \in 1 .. UpLen(m)
  BY DEF AdminPlace, UpLen
<1>6. GrantPlace(o, m, n) => m \in 1 .. 12 /\ n \in 1 .. UpLen(m)
  BY DEF GrantPlace, UpLen
<1>7. m = 12 /\ n = 1 => m \in 1 .. 12 /\ n \in 1 .. UpLen(m)
  BY DEF UpLen
<1> QED
  BY <1>1, <1>2, <1>3, <1>4, <1>5, <1>6, <1>7 DEF Place, FixedPlace

\* A statement of a run that is executed
LEMMA ExecuteUp ==
  ASSUME SchemaInv, mode = "up", Postgres!Execute
  PROVE  /\ pc <= UpLen(at) /\ pc' = pc + 1
         /\ \E o : Place(o, at, pc) /\ db' = db \cup {o}
         /\ Postgres!Up[at][pc].needs \subseteq db
         /\ recorded' = recorded /\ mode' = mode /\ at' = at /\ runs' = runs /\ undos' = undos
         /\ changed' = changed /\ moved' = moved /\ cutIn' = cutIn /\ made' = made
<1>1. at \in 1 .. 12 /\ pc \in 1 .. 8
  BY DEF SchemaInv, Postgres!TypeOK
<1>2. Postgres!Statements = Postgres!Up[at]
  BY DEF Postgres!Statements
<1>3. pc \in 1 .. Len(Postgres!Up[at]) /\ pc <= UpLen(at)
  <2>1. pc <= Len(Postgres!Up[at])
    BY <1>2 DEF Postgres!Execute
  <2>2. Len(Postgres!Up[at]) = UpLen(at) /\ UpLen(at) \in Nat
    BY <1>1, UpLengthIs, LengthsAreKnown
  <2> QED
    BY <1>1, <2>1, <2>2
<1>4. PICK o : Place(o, at, pc) /\ Postgres!Up[at][pc].adds = {o} /\ Postgres!Up[at][pc].removes = {}
  BY <1>1, <1>3, EffectOf DEF HasPlace
<1>5. db' = db \cup {o}
  BY <1>2, <1>4 DEF Postgres!Execute
<1>6. Postgres!Up[at][pc].needs \subseteq db
  BY <1>2 DEF Postgres!Execute, Postgres!Executes
<1> QED
  BY <1>3, <1>4, <1>5, <1>6 DEF Postgres!Execute

\* A statement of an undo that is executed
LEMMA ExecuteDown ==
  ASSUME SchemaInv, mode = "down", Postgres!Execute
  PROVE  /\ pc <= DownLen(at) /\ pc' = pc + 1 /\ at # 8 /\ db' \subseteq db
         /\ at >= 8 => \A t : Table(t) \in db => Table(t) \in db'
         /\ at = 11 /\ pc = 2 => \A n \in Postgres!SeedAdmins : <<"admin", n>> \notin db'
         /\ recorded' = recorded /\ mode' = mode /\ at' = at /\ runs' = runs /\ undos' = undos
         /\ changed' = changed /\ moved' = moved /\ cutIn' = cutIn /\ made' = made
<1>1. at \in 1 .. 12 /\ pc \in 1 .. 8 /\ db \subseteq Postgres!Object
  BY DEF SchemaInv, Postgres!TypeOK
<1>2. Postgres!Statements = Postgres!Down[at]
  BY DEF Postgres!Statements
<1>3. pc <= DownLen(at) /\ pc \in 1 .. DownLen(at)
  <2>1. pc <= Len(Postgres!Down[at])
    BY <1>2 DEF Postgres!Execute
  <2>2. Len(Postgres!Down[at]) = DownLen(at) /\ DownLen(at) \in Nat
    BY <1>1, DownLengthIs, LengthsAreKnown
  <2> QED
    BY <1>1, <2>1, <2>2
<1>4. db' = db \ Postgres!Down[at][pc].removes
  BY <1>1, <1>2, <1>3, DownAddsNothing DEF Postgres!Execute
<1>5. at # 8
  <2> SUFFICES ASSUME at = 8 PROVE FALSE
    OBVIOUS
  <2>1. pc = 1
    BY <1>3 DEF DownLen
  <2>2. Postgres!Down[8] = <<Postgres!Refused>>
    BY DownIs DEF Postgres!DropForeignKeys
  <2>3. Postgres!Down[at][pc] = Postgres!Refused
    BY <2>1, <2>2
  <2>4. {<<"check">>} \subseteq db
    BY <1>2, <2>3, UndosAddNothing DEF Postgres!Execute, Postgres!Executes
  <2> QED
    BY <1>1, <2>4, NoChecks
<1>6. at >= 8 => \A t : Table(t) \in db => Table(t) \in db'
  BY <1>1, <1>3, <1>4, DownKeepsTables DEF Table
<1>7. at = 11 /\ pc = 2 => \A n \in Postgres!SeedAdmins : <<"admin", n>> \notin db'
  <2> SUFFICES ASSUME at = 11, pc = 2, NEW n \in Postgres!SeedAdmins PROVE <<"admin", n>> \in Postgres!Down[at][pc].removes
    BY <1>4
  <2>1. Postgres!Down[at][pc] = Postgres!DeleteAdmins
    BY DownIs
  <2> QED
    BY <2>1, UndoOfAdmins
<1> QED
  BY <1>3, <1>4, <1>5, <1>6, <1>7 DEF Postgres!Execute

LEMMA SchemaTypes ==
  ASSUME SchemaInv
  PROVE  /\ db \subseteq Postgres!Object /\ recorded \in 0 .. 12 /\ mode \in {"idle", "up", "down"}
         /\ at \in 1 .. 12 /\ pc \in 1 .. 8 /\ runs \in 0 .. MaxRuns /\ undos \in 0 .. MaxUndos
         /\ changed \subseteq 1 .. MaxRuns /\ moved \subseteq 1 .. MaxRuns
         /\ cutIn \subseteq 1 .. 12 /\ made \subseteq Postgres!Entities
  BY DEF SchemaInv, Postgres!TypeOK

LEMMA RunStarts ==
  ASSUME SchemaInv, Postgres!Run
  PROVE  SchemaInv'
<1>1. /\ mode = "idle" /\ recorded < 12 /\ runs < MaxRuns /\ mode' = "up" /\ at' = recorded + 1 /\ pc' = 1
      /\ runs' = runs + 1 /\ db' = db /\ recorded' = recorded /\ undos' = undos /\ changed' = changed /\ moved' = moved /\ cutIn' = cutIn /\ made' = made
  BY DEF Postgres!Run
<1>2. Postgres!TypeOK'
  BY <1>1, SchemaTypes, MigrationConstants DEF Postgres!TypeOK
<1>3. InOrder'
  BY <1>1, SchemaTypes, LengthsAreKnown DEF InOrder
<1>4. DoneSoFar'
  <2>1. ASSUME NEW o, NEW n, FixedPlace(o, at', n), n < pc' PROVE FALSE
    BY <1>1, <2>1, PlacesAreInRange, LengthsAreKnown DEF Place
  <2> QED
    BY <1>1, <2>1 DEF DoneSoFar
<1>5. KeysHaveTables'
  BY <1>1 DEF KeysHaveTables
<1>6. Postgres!Admins' = Postgres!Admins /\ Postgres!SeedAdmins' = Postgres!SeedAdmins
  BY <1>1 DEF Postgres!Admins, Postgres!SeedAdmins
<1>7. RecordedIsDone' /\ RowsFollowKeys'
  BY <1>1, <1>6 DEF SchemaInv, RecordedIsDone, RowsFollowKeys
<1>8. UndoneIsAbsent'
  BY <1>1 DEF SchemaInv, UndoneIsAbsent
<1>9. AdminsComeAndGo'
  BY <1>1, <1>6 DEF SchemaInv, AdminsComeAndGo
<1> QED
  BY <1>2, <1>3, <1>4, <1>5, <1>7, <1>8, <1>9 DEF SchemaInv

LEMMA UndoStarts ==
  ASSUME SchemaInv, Postgres!Undo
  PROVE  SchemaInv'
<1>1. /\ mode = "idle" /\ recorded > 0 /\ undos < MaxUndos /\ mode' = "down" /\ at' = recorded /\ pc' = 1
      /\ undos' = undos + 1 /\ db' = db /\ recorded' = recorded /\ runs' = runs /\ changed' = changed /\ moved' = moved /\ cutIn' = cutIn /\ made' = made
  BY DEF Postgres!Undo
<1>2. Postgres!TypeOK'
  BY <1>1, SchemaTypes, MigrationConstants DEF Postgres!TypeOK
<1>3. InOrder'
  BY <1>1, SchemaTypes, LengthsAreKnown DEF InOrder
<1>4. undos' # 0
  BY <1>1, SchemaTypes
<1>5. DoneSoFar' /\ KeysHaveTables' /\ RecordedIsDone' /\ UndoneIsAbsent'
  BY <1>1, <1>4 DEF DoneSoFar, KeysHaveTables, RecordedIsDone, UndoneIsAbsent
<1>6. Postgres!Admins' = Postgres!Admins /\ Postgres!SeedAdmins' = Postgres!SeedAdmins
  BY <1>1 DEF Postgres!Admins, Postgres!SeedAdmins
<1>7. RowsFollowKeys'
  BY <1>1 DEF SchemaInv, RowsFollowKeys
<1>8. AdminsComeAndGo'
  BY <1>1, <1>6 DEF SchemaInv, AdminsComeAndGo
<1> QED
  BY <1>2, <1>3, <1>5, <1>7, <1>8 DEF SchemaInv

\* What an object of which statement is
LEMMA RowsArePlacedLate ==
  ASSUME NEW o, NEW m, NEW n, Place(o, m, n), o[1] \in RowTags
  PROVE  m >= 9
<1>1. TablePlace(o, m, n) \/ IndexPlace(o, m, n) \/ KeyPlace(o, m, n) \/ o = <<"extension">> => FALSE
  BY PlacesHaveTags DEF RowTags
<1>2. SeedPlace(o, m, n) => m >= 9
  BY DEF SeedPlace
<1>3. AdminPlace(o, m, n) \/ GrantPlace(o, m, n) => m >= 9
  BY DEF AdminPlace, GrantPlace
<1> QED
  BY <1>1, <1>2, <1>3 DEF Place, FixedPlace

LEMMA AdminsArePlaced ==
  ASSUME NEW k, NEW m, NEW n, Place(<<"admin", k>>, m, n)
  PROVE  m = 11 /\ n = 2 /\ k = runs
<1>1. AdminPlace(<<"admin", k>>, m, n)
  BY PlacesHaveTags DEF Place, FixedPlace
<1>2. <<"admin", k>> = <<"admin", runs>> => k = runs
  OBVIOUS
<1> QED
  BY <1>1, <1>2 DEF AdminPlace

LEMMA AdminIsPlaced == Place(<<"admin", runs>>, 11, 2)
  BY DEF Place, AdminPlace

LEMMA KeysNeedTables ==
  ASSUME at = 8, pc \in 1 .. 6, Postgres!Up[at][pc].needs \subseteq db
  PROVE  /\ pc = 1 => Table("users") \in db /\ Table("users_password") \in db
         /\ pc = 2 => Table("reset_password") \in db
         /\ pc = 3 => Table("permissions_roles") \in db /\ Table("roles") \in db
         /\ pc = 4 => Table("permissions") \in db
         /\ pc = 5 => Table("users_roles") \in db
<1>1. ASSUME NEW n \in 1 .. 6, NEW needs, NEW o, UpOnce(8, n, needs, o), pc = n PROVE needs \subseteq db
  <2>1. Postgres!Up[8][n].needs = needs
    BY <1>1, StatementIs DEF UpOnce, Once
  <2> QED
    BY <1>1, <2>1
<1>2. pc = 1 => Table("users") \in db /\ Table("users_password") \in db
  BY <1>1, UpKeys
<1>3. pc = 2 => Table("reset_password") \in db
  BY <1>1, UpKeys
<1>4. pc = 3 => Table("permissions_roles") \in db /\ Table("roles") \in db
  BY <1>1, UpKeys
<1>5. pc = 4 => Table("permissions") \in db
  BY <1>1, UpKeys
<1>6. pc = 5 => Table("users_roles") \in db
  BY <1>1, UpKeys
<1> QED
  BY <1>2, <1>3, <1>4, <1>5, <1>6

LEMMA ExecutesUp ==
  ASSUME SchemaInv, mode = "up", Postgres!Execute
  PROVE  SchemaInv'
<1> PICK o : Place(o, at, pc) /\ db' = db \cup {o}
  BY ExecuteUp
<1>0. SchemaInv
  OBVIOUS
<1>1. /\ pc <= UpLen(at) /\ pc' = pc + 1
      /\ recorded' = recorded /\ mode' = "up" /\ at' = at /\ runs' = runs /\ undos' = undos
      /\ changed' = changed /\ moved' = moved /\ cutIn' = cutIn /\ made' = made
  BY ExecuteUp
<1>2. at = recorded + 1 /\ runs > 0 /\ runs \in 1 .. MaxRuns
  BY SchemaTypes, MigrationConstants DEF SchemaInv, InOrder
<1>3. Postgres!TypeOK'
  <2>1. o \in Postgres!Object
    BY <1>2, PlacesAreObjects
  <2>2. pc' \in 1 .. 8
    BY <1>1, SchemaTypes, LengthsAreKnown
  <2> QED
    BY <1>1, <2>1, <2>2, SchemaTypes DEF Postgres!TypeOK
<1>4. InOrder'
  BY <1>1, <1>2, SchemaTypes, LengthsAreKnown DEF InOrder
<1>5. DoneSoFar'
  <2>1. ASSUME NEW x, NEW n, FixedPlace(x, at, n), n < pc + 1 PROVE x \in db'
    <3>1. n \in Nat /\ pc \in Nat
      BY <2>1, PlacesAreInRange, LengthsAreKnown, SchemaTypes DEF Place
    <3>2. CASE n = pc
      BY <2>1, <3>2, PlacesHaveOne DEF Place
    <3>3. CASE n < pc
      BY <2>1, <3>3 DEF SchemaInv, DoneSoFar
    <3> QED
      BY <2>1, <3>1, <3>2, <3>3
  <2>2. at = 11 /\ pc + 1 > 2 => <<"admin", runs>> \in db'
    <3>1. CASE at = 11 /\ pc = 2
      BY <3>1, AdminIsPlaced, PlacesHaveOne
    <3>2. CASE at = 11 /\ pc > 2
      BY <3>2 DEF SchemaInv, DoneSoFar
    <3> QED
      BY <3>1, <3>2, SchemaTypes
  <2> QED
    BY <1>1, <2>1, <2>2 DEF DoneSoFar
<1>6. KeysHaveTables'
  <2> SUFFICES ASSUME at = 8 PROVE KeysHaveTables'
    BY <1>1 DEF KeysHaveTables
  <2>1. pc \in 1 .. 6
    BY <1>1, SchemaTypes DEF UpLen
  <2>2. Postgres!Up[at][pc].needs \subseteq db
    BY ExecuteUp
  <2>3. /\ pc = 1 => Table("users") \in db /\ Table("users_password") \in db
        /\ pc = 2 => Table("reset_password") \in db
        /\ pc = 3 => Table("permissions_roles") \in db /\ Table("roles") \in db
        /\ pc = 4 => Table("permissions") \in db
        /\ pc = 5 => Table("users_roles") \in db
    BY <2>1, <2>2, KeysNeedTables
  <2> QED
    BY <1>1, <2>1, <2>3 DEF SchemaInv, KeysHaveTables
<1>7. Postgres!Admins \subseteq Postgres!Admins'
  BY DEF Postgres!Admins
<1>8. RecordedIsDone'
  BY <1>1, <1>7 DEF SchemaInv, RecordedIsDone
<1>9. RowsFollowKeys'
  <2>1. recorded < 8 => o[1] \notin RowTags
    BY <1>2, RowsArePlacedLate, SchemaTypes
  <2> QED
    BY <1>1, <2>1 DEF SchemaInv, RowsFollowKeys
<1>10. UndoneIsAbsent'
  <2> SUFFICES ASSUME undos = 0, NEW m \in (6 .. 11) \ cutIn, m > recorded, NEW x, NEW n, FixedPlace(x, m, n), x \in db', x \notin made
               PROVE  at = m /\ n < pc + 1
    BY <1>1 DEF UndoneIsAbsent
  <2>0. n \in Nat /\ pc \in Nat
    BY PlacesAreInRange, LengthsAreKnown, SchemaTypes DEF Place
  <2>1. CASE x \in db
    <3>1. at = m /\ n < pc
      BY <2>1 DEF SchemaInv, UndoneIsAbsent
    <3> QED
      BY <2>0, <3>1
  <2>2. CASE x = o
    <3>1. m = at /\ n = pc
      BY <2>2, PlacesAreUnique DEF Place
    <3> QED
      BY <2>0, <3>1
  <2> QED
    BY <2>1, <2>2
<1>11. AdminsComeAndGo'
  <2> SUFFICES ASSUME 11 \notin cutIn PROVE AdminsComeAndGo'
    BY <1>1 DEF AdminsComeAndGo
  <2>1. CASE at = 11 /\ pc = 2
    <3>1. o = <<"admin", runs>>
      BY <2>1, AdminIsPlaced, PlacesHaveOne
    <3>2. Postgres!SeedAdmins = {}
      BY <1>2, <2>1, SchemaTypes DEF SchemaInv, AdminsComeAndGo
    <3>3. Postgres!SeedAdmins' \subseteq {runs}
      <4>1. \A n \in 1 .. MaxRuns : <<"admin", n>> \in db' /\ <<"admin", n>> \notin db => n = runs
        BY <3>1
      <4>2. \A n \in Postgres!SeedAdmins' : n \in 1 .. MaxRuns /\ <<"admin", n>> \in db' /\ n \notin moved
        BY <1>1 DEF Postgres!SeedAdmins, Postgres!Admins
      <4>3. \A n \in 1 .. MaxRuns : <<"admin", n>> \in db => n \in moved
        BY <3>2 DEF Postgres!SeedAdmins, Postgres!Admins
      <4> QED
        BY <4>1, <4>2, <4>3
    <3> QED
      BY <1>1, <2>1, <3>3, SchemaTypes, <1>2 DEF AdminsComeAndGo
  <2>2. CASE ~(at = 11 /\ pc = 2)
    <3>1. \A n : o # <<"admin", n>>
      BY <2>2, AdminsArePlaced
    <3>2. Postgres!SeedAdmins' = Postgres!SeedAdmins
      BY <1>1, <3>1 DEF Postgres!Admins, Postgres!SeedAdmins
    <3> QED
      BY <1>1, <3>2, SchemaTypes DEF SchemaInv, AdminsComeAndGo
  <2> QED
    BY <2>1, <2>2
<1> QED
  BY <1>3, <1>4, <1>5, <1>6, <1>8, <1>9, <1>10, <1>11 DEF SchemaInv

LEMMA ExecutesDown ==
  ASSUME SchemaInv, mode = "down", Postgres!Execute
  PROVE  SchemaInv'
<1>1. /\ pc <= DownLen(at) /\ pc' = pc + 1 /\ at # 8 /\ db' \subseteq db
      /\ recorded' = recorded /\ mode' = "down" /\ at' = at /\ runs' = runs /\ undos' = undos
      /\ changed' = changed /\ moved' = moved /\ cutIn' = cutIn /\ made' = made
  BY ExecuteDown
<1>2. at = recorded /\ undos > 0 /\ undos # 0
  BY SchemaTypes DEF SchemaInv, InOrder
<1>3. Postgres!TypeOK'
  <2>1. pc' \in 1 .. 8
    BY <1>1, SchemaTypes, LengthsAreKnown
  <2> QED
    BY <1>1, <2>1, SchemaTypes DEF Postgres!TypeOK
<1>4. InOrder'
  BY <1>1, <1>2, SchemaTypes, LengthsAreKnown DEF InOrder
<1>5. DoneSoFar' /\ KeysHaveTables' /\ RecordedIsDone' /\ UndoneIsAbsent'
  BY <1>1, <1>2 DEF DoneSoFar, KeysHaveTables, RecordedIsDone, UndoneIsAbsent
<1>6. RowsFollowKeys'
  <2>1. at >= 8 => \A t : Table(t) \in db => Table(t) \in db'
    BY ExecuteDown
  <2> QED
    BY <1>1, <1>2, <2>1 DEF SchemaInv, RowsFollowKeys
<1>7. AdminsComeAndGo'
  <2> SUFFICES ASSUME 11 \notin cutIn PROVE AdminsComeAndGo'
    BY <1>1 DEF AdminsComeAndGo
  <2>1. Postgres!SeedAdmins' \subseteq Postgres!SeedAdmins
    BY <1>1 DEF Postgres!Admins, Postgres!SeedAdmins
  <2>2. at = 11 /\ pc = 2 => Postgres!SeedAdmins' = {}
    BY <2>1, ExecuteDown DEF Postgres!Admins, Postgres!SeedAdmins
  <2>3. /\ \A n, k \in Postgres!SeedAdmins : n = k
        /\ recorded < 11 => Postgres!SeedAdmins = {}
        /\ at = 11 /\ pc > 2 => Postgres!SeedAdmins = {}
    BY DEF SchemaInv, AdminsComeAndGo
  <2>4. at = 11 /\ pc + 1 > 2 => Postgres!SeedAdmins' = {}
    BY <2>1, <2>2, <2>3, SchemaTypes
  <2> QED
    BY <1>1, <2>1, <2>3, <2>4 DEF AdminsComeAndGo
<1> QED
  BY <1>3, <1>4, <1>5, <1>6, <1>7 DEF SchemaInv

LEMMA Stops ==
  ASSUME SchemaInv, mode # "idle", Postgres!Stop
  PROVE  SchemaInv'
<1>1. /\ mode' = "idle" /\ cutIn' = (IF pc > 1 THEN cutIn \cup {at} ELSE cutIn)
      /\ db' = db /\ recorded' = recorded /\ at' = 1 /\ pc' = 1 /\ runs' = runs /\ undos' = undos
      /\ changed' = changed /\ moved' = moved /\ made' = made
  BY DEF Postgres!Stop
<1>2. Postgres!TypeOK'
  BY <1>1, SchemaTypes DEF Postgres!TypeOK
<1>3. InOrder' /\ DoneSoFar' /\ KeysHaveTables'
  BY <1>1 DEF InOrder, DoneSoFar, KeysHaveTables
<1>4. Postgres!Admins' = Postgres!Admins /\ Postgres!SeedAdmins' = Postgres!SeedAdmins
  BY <1>1 DEF Postgres!Admins, Postgres!SeedAdmins
<1>5. RecordedIsDone' /\ RowsFollowKeys'
  BY <1>1, <1>4 DEF SchemaInv, RecordedIsDone, RowsFollowKeys
<1>6. UndoneIsAbsent'
  <2> SUFFICES ASSUME undos = 0, NEW m \in (6 .. 11) \ cutIn', m > recorded, NEW x, NEW n, FixedPlace(x, m, n), x \in db, x \notin made
               PROVE  FALSE
    BY <1>1 DEF UndoneIsAbsent
  <2>1. n \in Nat /\ n >= 1 /\ pc \in Nat
    BY PlacesAreInRange, LengthsAreKnown, SchemaTypes DEF Place
  <2>2. m \in (6 .. 11) \ cutIn
    BY <1>1
  <2>3. at = m /\ n < pc
    BY <2>2 DEF SchemaInv, UndoneIsAbsent
  <2> QED
    BY <1>1, <2>1, <2>3
<1>7. AdminsComeAndGo'
  <2> SUFFICES ASSUME 11 \notin cutIn' PROVE AdminsComeAndGo'
    BY DEF AdminsComeAndGo
  <2>1. 11 \notin cutIn /\ ~(at = 11 /\ pc > 2)
    BY <1>1, SchemaTypes
  <2> QED
    BY <1>1, <1>4, <2>1 DEF SchemaInv, AdminsComeAndGo
<1> QED
  BY <1>2, <1>3, <1>5, <1>6, <1>7 DEF SchemaInv

LEMMA RecordsUp ==
  ASSUME SchemaInv, mode = "up", Postgres!Record
  PROVE  SchemaInv'
<1>1. /\ recorded' = at /\ db' = db /\ runs' = runs /\ undos' = undos /\ changed' = changed /\ moved' = moved /\ cutIn' = cutIn /\ made' = made
      /\ \/ at < 12 /\ at' = at + 1 /\ pc' = 1 /\ mode' = "up"
         \/ ~(at < 12) /\ mode' = "idle" /\ at' = 1 /\ pc' = 1
  BY DEF Postgres!Record
<1>2. at = recorded + 1 /\ runs > 0 /\ runs \in 1 .. MaxRuns
  BY SchemaTypes, MigrationConstants DEF SchemaInv, InOrder
<1>3. pc > UpLen(at) /\ UpLen(at) \in 1 .. 7
  <2>1. Postgres!Statements = Postgres!Up[at]
    BY DEF Postgres!Statements
  <2> QED
    BY <2>1, SchemaTypes, UpLengthIs, LengthsAreKnown DEF Postgres!Record
<1>4. Postgres!TypeOK'
  BY <1>1, SchemaTypes DEF Postgres!TypeOK
<1>5. InOrder'
  BY <1>1, <1>2, SchemaTypes, LengthsAreKnown DEF InOrder
<1>6. DoneSoFar'
  <2>1. ASSUME NEW o, NEW n, FixedPlace(o, at', n), n < 1 PROVE FALSE
    BY <2>1, PlacesAreInRange, LengthsAreKnown DEF Place
  <2> QED
    BY <1>1, <2>1 DEF DoneSoFar
<1>7. KeysHaveTables'
  BY <1>1 DEF KeysHaveTables
<1>8. Postgres!Admins' = Postgres!Admins /\ Postgres!SeedAdmins' = Postgres!SeedAdmins
  BY <1>1 DEF Postgres!Admins, Postgres!SeedAdmins
\* Every statement of the migration was executed
<1>9. ASSUME NEW o, NEW n, FixedPlace(o, at, n) PROVE o \in db
  <2>1. n \in 1 .. UpLen(at)
    BY <1>9, PlacesAreInRange DEF Place
  <2>2. n < pc
    BY <1>3, <2>1, SchemaTypes
  <2> QED
    BY <1>9, <2>2 DEF SchemaInv, DoneSoFar
<1>10. RecordedIsDone'
  <2> SUFFICES ASSUME undos = 0 PROVE RecordedIsDone'
    BY <1>1 DEF RecordedIsDone
  <2>1. ASSUME NEW m \in (1 .. at) \ {11}, NEW o, NEW n, FixedPlace(o, m, n) PROVE o \in db
    <3>1. m = at \/ m \in (1 .. recorded) \ {11}
      BY <1>2, SchemaTypes
    <3> QED
      BY <1>9, <2>1, <3>1 DEF SchemaInv, RecordedIsDone
  <2>2. at >= 11 => /\ Postgres!Admins # {}
                    /\ \A p \in Postgres!Permissions : <<"granted", "BACKOFFICE", p>> \in db
    <3>1. CASE at = 11
      <4>1. pc > 2
        BY <1>3, <3>1, SchemaTypes DEF UpLen
      <4>2. runs \in Postgres!Admins
        BY <1>2, <3>1, <4>1 DEF SchemaInv, DoneSoFar, Postgres!Admins
      <4>3. FixedPlace(<<"granted", "BACKOFFICE", "user">>, 11, 6) /\ FixedPlace(<<"granted", "BACKOFFICE", "backoffice">>, 11, 7)
        BY DEF FixedPlace, GrantPlace
      <4> QED
        BY <1>9, <3>1, <4>2, <4>3 DEF Postgres!Permissions
    <3>2. CASE at = 12
      BY <1>2, <3>2, SchemaTypes DEF SchemaInv, RecordedIsDone
    <3> QED
      BY <3>1, <3>2, SchemaTypes
  <2> QED
    BY <1>1, <1>8, <2>1, <2>2 DEF RecordedIsDone
<1>11. RowsFollowKeys'
  <2>1. at >= 8 => \A t \in Postgres!Tables : Table(t) \in db
    <3>1. CASE at = 8
      <4>1. pc > 6 /\ pc \in Nat
        BY <1>3, <3>1, SchemaTypes DEF UpLen
      <4>2. /\ pc > 1 /\ pc > 2 /\ pc > 3 /\ pc > 4 /\ pc > 5
        BY <4>1
      <4> QED
        BY <3>1, <4>2 DEF SchemaInv, KeysHaveTables, Postgres!Tables
    <3>2. CASE at > 8
      BY <1>2, <3>2, SchemaTypes DEF SchemaInv, RowsFollowKeys
    <3> QED
      BY <3>1, <3>2, SchemaTypes
  <2>2. at < 8 => \A o \in db : o[1] \notin RowTags
    BY <1>2, SchemaTypes DEF SchemaInv, RowsFollowKeys
  <2> QED
    BY <1>1, <2>1, <2>2 DEF RowsFollowKeys
<1>12. UndoneIsAbsent'
  <2> SUFFICES ASSUME undos = 0, NEW m \in (6 .. 11) \ cutIn, m > at, NEW x, NEW n, FixedPlace(x, m, n)
               PROVE  x \notin db \/ x \in made
    BY <1>1 DEF UndoneIsAbsent
  <2>1. m > recorded /\ m # at
    BY <1>2, SchemaTypes
  <2> QED
    BY <2>1 DEF SchemaInv, UndoneIsAbsent
<1>13. AdminsComeAndGo'
  <2> SUFFICES ASSUME 11 \notin cutIn PROVE AdminsComeAndGo'
    BY <1>1 DEF AdminsComeAndGo
  <2>1. at < 11 => Postgres!SeedAdmins = {}
    BY <1>2, SchemaTypes DEF SchemaInv, AdminsComeAndGo
  <2>2. \A n, k \in Postgres!SeedAdmins : n = k
    BY DEF SchemaInv, AdminsComeAndGo
  <2> QED
    BY <1>1, <1>8, <2>1, <2>2 DEF AdminsComeAndGo
<1> QED
  BY <1>4, <1>5, <1>6, <1>7, <1>10, <1>11, <1>12, <1>13 DEF SchemaInv

LEMMA RecordsDown ==
  ASSUME SchemaInv, mode = "down", Postgres!Record
  PROVE  SchemaInv'
<1>1. /\ recorded' = at - 1 /\ db' = db /\ runs' = runs /\ undos' = undos /\ changed' = changed /\ moved' = moved /\ cutIn' = cutIn /\ made' = made
      /\ mode' = "idle" /\ at' = 1 /\ pc' = 1
  BY DEF Postgres!Record
<1>2. at = recorded /\ undos # 0
  BY SchemaTypes DEF SchemaInv, InOrder
<1>3. pc > DownLen(at)
  <2>1. Postgres!Statements = Postgres!Down[at]
    BY DEF Postgres!Statements
  <2> QED
    BY <2>1, SchemaTypes, DownLengthIs DEF Postgres!Record
<1>4. Postgres!TypeOK'
  BY <1>1, SchemaTypes DEF Postgres!TypeOK
<1>5. InOrder' /\ DoneSoFar' /\ KeysHaveTables' /\ RecordedIsDone' /\ UndoneIsAbsent'
  BY <1>1, <1>2 DEF InOrder, DoneSoFar, KeysHaveTables, RecordedIsDone, UndoneIsAbsent
<1>6. at # 8
  <2>1. at = 8 => pc = 1 /\ DownLen(at) = 1
    BY DEF SchemaInv, RowsFollowKeys, DownLen
  <2> QED
    BY <1>3, <2>1
<1>7. RowsFollowKeys'
  <2>1. (at - 1 >= 8 => recorded >= 8) /\ (at - 1 < 8 => recorded < 8)
    BY <1>2, <1>6, SchemaTypes
  <2> QED
    BY <1>1, <2>1 DEF SchemaInv, RowsFollowKeys
<1>8. AdminsComeAndGo'
  <2> SUFFICES ASSUME 11 \notin cutIn PROVE AdminsComeAndGo'
    BY <1>1 DEF AdminsComeAndGo
  <2>1. at = 11 => Postgres!SeedAdmins = {}
    <3>1. at = 11 => pc > 2
      BY <1>3, SchemaTypes DEF DownLen
    <3> QED
      BY <3>1 DEF SchemaInv, AdminsComeAndGo
  <2>2. at - 1 < 11 => Postgres!SeedAdmins = {} \/ at = 12
    BY <1>2, <2>1, SchemaTypes DEF SchemaInv, AdminsComeAndGo
  <2>3. at = 12 => ~(at - 1 < 11)
    OBVIOUS
  <2>4. Postgres!SeedAdmins' = Postgres!SeedAdmins
    BY <1>1 DEF Postgres!Admins, Postgres!SeedAdmins
  <2> QED
    BY <1>1, <2>2, <2>3, <2>4 DEF SchemaInv, AdminsComeAndGo
<1> QED
  BY <1>4, <1>5, <1>7, <1>8 DEF SchemaInv

LEMMA SchemaStays ==
  ASSUME SchemaInv, db' = db, recorded' = recorded, mode' = mode, at' = at, pc' = pc, runs' = runs, undos' = undos,
         changed' \subseteq 1 .. MaxRuns, moved' \subseteq 1 .. MaxRuns, moved \subseteq moved', cutIn' = cutIn, made' = made
  PROVE  SchemaInv'
<1>1. Postgres!Admins' = Postgres!Admins /\ Postgres!SeedAdmins' \subseteq Postgres!SeedAdmins
  BY DEF Postgres!Admins, Postgres!SeedAdmins
<1>2. Postgres!TypeOK' /\ InOrder' /\ DoneSoFar' /\ KeysHaveTables'
  BY SchemaTypes DEF Postgres!TypeOK, SchemaInv, InOrder, DoneSoFar, KeysHaveTables
<1>3. RecordedIsDone' /\ RowsFollowKeys'
  BY <1>1 DEF SchemaInv, RecordedIsDone, RowsFollowKeys
<1>4. UndoneIsAbsent'
  BY DEF SchemaInv, UndoneIsAbsent
<1>5. AdminsComeAndGo'
  BY <1>1 DEF SchemaInv, AdminsComeAndGo
<1> QED
  BY <1>2, <1>3, <1>4, <1>5 DEF SchemaInv

\* A synchronisation makes no rows, and says what it made
LEMMA Synchronises ==
  ASSUME SchemaInv, Postgres!Synchronise
  PROVE  SchemaInv'
<1>1. /\ db' = db \cup Postgres!Entities /\ made' = made \cup (Postgres!Entities \ db)
      /\ recorded' = recorded /\ mode' = mode /\ at' = at /\ pc' = pc /\ runs' = runs /\ undos' = undos
      /\ changed' = changed /\ moved' = moved /\ cutIn' = cutIn
  BY DEF Postgres!Synchronise
<1>2. \A o \in Postgres!Entities : o[1] \in {"table", "index", "fk"}
  BY DEF Postgres!Entities
<1>3. Postgres!Admins' = Postgres!Admins /\ Postgres!SeedAdmins' = Postgres!SeedAdmins
  <2>1. \A n : <<"admin", n>> \notin Postgres!Entities
    BY <1>2
  <2> QED
    BY <1>1, <2>1 DEF Postgres!Admins, Postgres!SeedAdmins
<1>4. Postgres!TypeOK'
  BY <1>1, SchemaTypes DEF Postgres!TypeOK, Postgres!Object
<1>5. InOrder'
  BY <1>1 DEF SchemaInv, InOrder
<1>6. DoneSoFar' /\ KeysHaveTables'
  BY <1>1 DEF SchemaInv, DoneSoFar, KeysHaveTables
<1>7. RecordedIsDone'
  BY <1>1, <1>3 DEF SchemaInv, RecordedIsDone
<1>8. RowsFollowKeys'
  <2>1. \A o \in Postgres!Entities : o[1] \notin RowTags
    BY <1>2 DEF RowTags
  <2> QED
    BY <1>1, <2>1 DEF SchemaInv, RowsFollowKeys
<1>9. UndoneIsAbsent'
  BY <1>1 DEF SchemaInv, UndoneIsAbsent
<1>10. AdminsComeAndGo'
  BY <1>1, <1>3 DEF SchemaInv, AdminsComeAndGo
<1> QED
  BY <1>4, <1>5, <1>6, <1>7, <1>8, <1>9, <1>10 DEF SchemaInv

LEMMA SchemaStarts == Postgres!Init => SchemaInv
<1> SUFFICES ASSUME Postgres!Init PROVE SchemaInv
  OBVIOUS
<1>1. /\ db = {} /\ recorded = 0 /\ mode = "idle" /\ at = 1 /\ pc = 1
      /\ runs = 0 /\ undos = 0 /\ changed = {} /\ moved = {} /\ cutIn = {} /\ made = {}
  BY DEF Postgres!Init
<1>2. Postgres!SeedAdmins = {}
  BY <1>1 DEF Postgres!Admins, Postgres!SeedAdmins
<1>3. Postgres!TypeOK
  BY <1>1, MigrationConstants DEF Postgres!TypeOK
<1>4. InOrder /\ DoneSoFar /\ KeysHaveTables /\ RecordedIsDone /\ RowsFollowKeys /\ UndoneIsAbsent
  BY <1>1 DEF InOrder, DoneSoFar, KeysHaveTables, RecordedIsDone, RowsFollowKeys, UndoneIsAbsent
<1>5. AdminsComeAndGo
  BY <1>1, <1>2 DEF AdminsComeAndGo
<1> QED
  BY <1>3, <1>4, <1>5 DEF SchemaInv

LEMMA SchemaStep == SchemaInv /\ [Postgres!Next]_migrationVars => SchemaInv'
<1> SUFFICES ASSUME SchemaInv, [Postgres!Next]_migrationVars PROVE SchemaInv'
  OBVIOUS
<1>1. CASE UNCHANGED migrationVars
  BY <1>1, SchemaStays, SchemaTypes DEF migrationVars
<1>2. ASSUME NEW n \in 1 .. MaxRuns, Postgres!ChangePassword(n) PROVE SchemaInv'
  BY <1>2, SchemaStays, SchemaTypes DEF Postgres!ChangePassword
<1>6. ASSUME NEW n \in 1 .. MaxRuns, Postgres!ChangeEmail(n) PROVE SchemaInv'
  BY <1>6, SchemaStays, SchemaTypes DEF Postgres!ChangeEmail
<1>3. CASE Postgres!Execute
  BY <1>3, ExecutesUp, ExecutesDown, SchemaTypes DEF Postgres!Execute
<1>4. CASE Postgres!Fail \/ Postgres!Cut
  BY <1>4, Stops DEF Postgres!Fail, Postgres!Cut
<1>5. CASE Postgres!Record
  BY <1>5, RecordsUp, RecordsDown, SchemaTypes DEF Postgres!Record
<1> QED
  BY <1>1, <1>2, <1>3, <1>4, <1>5, <1>6, RunStarts, UndoStarts, Synchronises DEF Postgres!Next

-----------------------------------------------------------------------------
(***************************************************************************)
(* The migrations: what follows.                                           *)
(***************************************************************************)
LEMMA RecordedAreDone == SchemaInv => Postgres!RecordedMeansDone
<1> SUFFICES ASSUME SchemaInv, undos = 0
             PROVE  /\ \A m \in (1 .. recorded) \ {11} : Postgres!AddedBy(m) \subseteq db
                    /\ recorded >= 11 =>
                          /\ Postgres!Admins # {}
                          /\ {<<"granted", "BACKOFFICE", p>> : p \in Postgres!Permissions} \subseteq db
  BY DEF Postgres!RecordedMeansDone
<1>1. ASSUME NEW m \in (1 .. recorded) \ {11}, NEW o \in Postgres!AddedBy(m) PROVE o \in db
  <2>1. m \in 1 .. 12
    BY SchemaTypes
  <2>2. PICK n \in 1 .. Len(Postgres!Up[m]) : o \in Postgres!Up[m][n].adds
    BY <1>1 DEF Postgres!AddedBy
  <2>3. Place(o, m, n)
    <3>1. HasPlace(m, n)
      BY <2>1, <2>2, EffectOf
    <3>2. PICK x : Place(x, m, n) /\ Postgres!Up[m][n].adds = {x}
      BY <3>1 DEF HasPlace
    <3> QED
      BY <2>2, <3>2
  <2>4. FixedPlace(o, m, n)
    BY <1>1, <2>3 DEF Place, AdminPlace
  <2> QED
    BY <1>1, <2>4 DEF SchemaInv, RecordedIsDone
<1>2. recorded >= 11 => /\ Postgres!Admins # {}
                        /\ \A p \in Postgres!Permissions : <<"granted", "BACKOFFICE", p>> \in db
  BY DEF SchemaInv, RecordedIsDone
<1> QED
  BY <1>1, <1>2

LEMMA RowsHaveTables == SchemaInv => Postgres!RowsKeepTheirTables
<1> SUFFICES ASSUME SchemaInv, NEW t \in Postgres!Tables, Postgres!RowsOf(t) # {} PROVE <<"table", t>> \in db
  BY DEF Postgres!RowsKeepTheirTables
<1>1. CASE recorded >= 8
  BY <1>1 DEF SchemaInv, RowsFollowKeys, Table
<1>2. CASE recorded < 8
  <2>1. ASSUME NEW tag \in RowTags PROVE Postgres!Tuples(tag) = {}
    BY <1>2, <2>1 DEF SchemaInv, RowsFollowKeys, Postgres!Tuples
  <2>2. /\ Postgres!Tuples("permission") = {} /\ Postgres!Tuples("role") = {} /\ Postgres!Tuples("password") = {}
        /\ Postgres!Tuples("admin") = {} /\ Postgres!Tuples("assigned") = {} /\ Postgres!Tuples("granted") = {}
    BY <2>1 DEF RowTags
  <2>3. Postgres!RowsOf("permissions") = Postgres!Tuples("permission")
    BY DEF Postgres!RowsOf
  <2>4. Postgres!RowsOf("roles") = Postgres!Tuples("role")
    BY DEF Postgres!RowsOf
  <2>5. Postgres!RowsOf("users_password") = Postgres!Tuples("password")
    BY DEF Postgres!RowsOf
  <2>6. Postgres!RowsOf("users") = Postgres!Tuples("admin")
    BY DEF Postgres!RowsOf
  <2>7. Postgres!RowsOf("users_roles") = Postgres!Tuples("assigned")
    BY DEF Postgres!RowsOf
  <2>8. Postgres!RowsOf("permissions_roles") = Postgres!Tuples("granted")
    BY DEF Postgres!RowsOf
  <2>9. Postgres!RowsOf("reset_password") = {}
    BY DEF Postgres!RowsOf
  <2>10. Postgres!RowsOf(t) = {}
    BY <2>2, <2>3, <2>4, <2>5, <2>6, <2>7, <2>8, <2>9 DEF Postgres!Tables
  <2> QED
    BY <2>10
<1> QED
  BY <1>1, <1>2, SchemaTypes

\* A second administrator with the e-mail of the seed comes of a cut
LEMMA OneAdmin == SchemaInv => OneAdminUnlessCut
  BY DEF SchemaInv, AdminsComeAndGo, OneAdminUnlessCut, Postgres!OneAdminUnlessCut

\* Uncut and before any undo, a statement finds what it needs, and not what it refuses,
\* unless a synchronisation made it
LEMMA UncutRunsSucceed ==
  ASSUME SchemaInv, mode = "up", pc <= Len(Postgres!Statements), undos = 0,
         at \notin cutIn \cap {6, 7, 8, 9, 10, 11}, Postgres!Statements[pc].refuses \cap made = {}
  PROVE  Postgres!Executes
<1>1. Postgres!Statements = Postgres!Up[at]
  BY DEF Postgres!Statements
<1>2. at \in 1 .. 12 /\ pc \in 1 .. Len(Postgres!Up[at]) /\ pc \in 1 .. 8
  <2>1. at \in 1 .. 12 /\ pc \in 1 .. 8
    BY SchemaTypes
  <2>2. Len(Postgres!Up[at]) = UpLen(at) /\ UpLen(at) \in 1 .. 7
    BY <2>1, UpLengthIs, LengthsAreKnown
  <2> QED
    BY <1>1, <2>1, <2>2
<1>3. at = recorded + 1
  BY DEF SchemaInv, InOrder
<1>4. ASSUME NEW x \in Postgres!Up[at][pc].needs PROVE x \in db
  <2>1. PICK k \in 1 .. 10, l \in 1 .. 7 : FixedPlace(x, k, l) /\ (k < at \/ (k = at /\ l < pc))
    BY <1>2, NeedsAreEarlier DEF FollowsNeeds, Earlier
  <2>2. CASE k < at
    <3>1. k \in (1 .. recorded) \ {11}
      BY <1>3, <2>2, SchemaTypes
    <3> QED
      BY <2>1, <3>1 DEF SchemaInv, RecordedIsDone
  <2>3. CASE k = at /\ l < pc
    BY <2>1, <2>3 DEF SchemaInv, DoneSoFar
  <2> QED
    BY <2>1, <2>2, <2>3
<1>5. Postgres!Up[at][pc].refuses \cap db = {}
  <2>1. PICK o : \/ Postgres!Up[at][pc].refuses = {}
                 \/ Postgres!Up[at][pc].refuses = {o} /\ FixedPlace(o, at, pc) /\ at \in 6 .. 11
    BY <1>2, EffectOf DEF HasPlace
  <2>2. CASE Postgres!Up[at][pc].refuses = {o} /\ FixedPlace(o, at, pc) /\ at \in 6 .. 11
    <3>1. at \in (6 .. 11) \ cutIn /\ at > recorded
      BY <1>3, <2>2, SchemaTypes
    <3>2. ~(pc < pc)
      BY <1>2
    <3>4. o \notin made
      BY <1>1, <2>2
    <3>3. o \notin db
      BY <2>2, <3>4, <3>1, <3>2 DEF SchemaInv, UndoneIsAbsent
    <3> QED
      BY <2>2, <3>3
  <2> QED
    BY <2>1, <2>2
<1> QED
  BY <1>1, <1>4, <1>5 DEF Postgres!Executes

LEMMA SchemaHolds == OperationsSpec => []SchemaInv
<1>1. OperationsInit => SchemaInv
  BY SchemaStarts DEF OperationsInit
<1>2. SchemaInv /\ [OperationsNext]_<<part, vars, migrationVars, cacheVars>> => SchemaInv'
  <2>1. [OperationsNext]_<<part, vars, migrationVars, cacheVars>> => [Postgres!Next]_migrationVars
    BY DEF OperationsNext
  <2> QED
    BY <2>1, SchemaStep
<1> QED
  BY <1>1, <1>2, PTL DEF OperationsSpec

(***************************************************************************)
(* What is recorded is done as long as nothing was undone, and no table    *)
(* that has rows is ever dropped.                                          *)
(***************************************************************************)
THEOREM MigrationsOfOperations == OperationsSpec => []RecordedMeansDone
<1>1. SchemaInv => RecordedMeansDone
  BY RecordedAreDone, RowsHaveTables DEF RecordedMeansDone, SchemaInv
<1> QED
  BY <1>1, SchemaHolds, PTL

(***************************************************************************)
(* There is a second administrator with the e-mail of the seed only when   *)
(* insertUser, or its undo, was cut half way.                              *)
(***************************************************************************)
THEOREM AdminOfOperations == OperationsSpec => []OneAdminUnlessCut
  BY OneAdmin, SchemaHolds, PTL

(***************************************************************************)
(* A run fails only in a migration that was cut half way before, after     *)
(* something was undone, or at what an application has synchronised.       *)
(***************************************************************************)
THEOREM RunsOfOperations == OperationsSpec => RunsFailOnlyAfterCuts
<1> DEFINE FailsAfterCuts ==
             Postgres!Fail /\ mode = "up" =>
                 \/ undos > 0 \/ at \in cutIn \cap {6, 7, 8, 9, 10, 11}
                 \/ Postgres!Statements[pc].refuses \cap made # {}
<1>1. SchemaInv => FailsAfterCuts
  <2> SUFFICES ASSUME SchemaInv, Postgres!Fail, mode = "up", ~(undos > 0), at \notin cutIn \cap {6, 7, 8, 9, 10, 11},
                      Postgres!Statements[pc].refuses \cap made = {}
               PROVE  FALSE
    OBVIOUS
  <2>1. undos = 0
    BY SchemaTypes
  <2> QED
    BY <2>1, UncutRunsSucceed DEF Postgres!Fail
<1>2. SchemaInv /\ [OperationsNext]_<<part, vars, migrationVars, cacheVars>> => [FailsAfterCuts]_migrationVars
  BY <1>1
<1> QED
  BY <1>2, SchemaHolds, PTL DEF OperationsSpec, RunsFailOnlyAfterCuts, Postgres!RunsFailOnlyAfterCuts, migrationVars, Postgres!vars
=============================================================================
