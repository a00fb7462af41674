--------------------------- MODULE PresenceProofs ---------------------------
(***************************************************************************)
(* Proofs about Presence, for any users, channels and workspaces, any time *)
(* to live and any number of operations: the Redis store implements        *)
(* PresenceStore, step by step.                                            *)
(*                                                                         *)
(* As long as no fault came between the store and the hubs' clients, every *)
(* counter is a number of clients and every set holds who has one.  A key  *)
(* that expires without a fault is one that counts nobody.                 *)
(***************************************************************************)
EXTENDS Presence, FiniteSetTheorems, TLAPS

-----------------------------------------------------------------------------
(* The inductive invariant.                                                *)

\* The connections that f counts in the channels of C, numbered in each.
Places(f, C) == UNION {{c} \X (1..f[c]) : c \in C}

OfWorkspace(w) == {c \in Channels : WorkspaceOf[c] = w}

\* What is counted at the keys is the clients.
Counted ==
  /\ \A u \in Users, c \in Channels : chConn[u][c].n = live[u][c]
  /\ \A u \in Users, w \in Workspaces :
       wsConn[u][w].n = Cardinality(Places(live[u], OfWorkspace(w)))
  /\ \A u \in Users : hash[u].count = Cardinality(Places(live[u], Channels))

\* The sets hold who has clients, and where.
Listed ==
  /\ online.set = {u \in Users : Live(u)}
  /\ \A w \in Workspaces :
       wsOnline[w].set = {u \in Users : \E c \in OfWorkspace(w) : live[u][c] > 0}
  /\ \A u \in Users : active[u].set = {c \in Channels : live[u][c] > 0}

\* A key that is gone has no value.
Gones ==
  /\ \A u \in Users, w \in Workspaces : wsConn[u][w].ttl = Gone => wsConn[u][w].n = 0
  /\ \A u \in Users, c \in Channels : chConn[u][c].ttl = Gone => chConn[u][c].n = 0
  /\ \A u \in Users : hash[u].ttl = Gone => hash[u].count = 0
  /\ online.ttl = Gone => online.set = {}
  /\ \A w \in Workspaces : wsOnline[w].ttl = Gone => wsOnline[w].set = {}
  /\ \A u \in Users : active[u].ttl = Gone => active[u].set = {}

Faithful == ~lost => Counted /\ Listed
PInv == TypeOK /\ Gones /\ Faithful

-----------------------------------------------------------------------------
(* Numbering the connections.                                              *)

\* What Places numbers.
LEMMA PlacesMember ==
  ASSUME NEW C \in SUBSET Channels, NEW f \in [Channels -> Nat], NEW p
  PROVE  p \in Places(f, C) <=>
           \E c \in C, i \in Nat \ {0} : i <= f[c] /\ p = <<c, i>>
<1>1. ASSUME p \in Places(f, C)
      PROVE  \E c \in C, i \in Nat \ {0} : i <= f[c] /\ p = <<c, i>>
  <2>1. PICK c \in C : p \in {c} \X (1..f[c])
    BY <1>1 DEF Places
  <2>2. PICK i \in 1..f[c] : p = <<c, i>>
    BY <2>1
  <2> QED
    BY <2>2
<1>2. ASSUME NEW c \in C, NEW i \in Nat \ {0}, i <= f[c], p = <<c, i>>
      PROVE  p \in Places(f, C)
  <2>1. f[c] \in Nat
    OBVIOUS
  <2>2. i \in 1..f[c]
    BY <1>2, <2>1
  <2>3. p \in {c} \X (1..f[c])
    BY <1>2, <2>2
  <2> QED
    BY <2>3 DEF Places
<1> QED
  BY <1>1, <1>2

\* A finite number of connections is numbered.
LEMMA PlacesFinite ==
  ASSUME NEW C \in SUBSET Channels, NEW f \in [Channels -> Nat]
  PROVE  IsFiniteSet(Places(f, C))
<1> DEFINE P == {{c} \X (1..f[c]) : c \in C}
<1>1. IsFiniteSet(C)
  BY PresenceAssumption, FS_Subset
<1>2. IsFiniteSet(P)
  <2> DEFINE g == [c \in C |-> {c} \X (1..f[c])]
  <2>1. g \in Surjection(C, P)
    BY DEF Surjection
  <2> QED
    BY <1>1, <2>1, FS_Surjection
<1>3. ASSUME NEW T \in P PROVE IsFiniteSet(T)
  <2>1. PICK c \in C : T = {c} \X (1..f[c])
    OBVIOUS
  <2>2. IsFiniteSet({c})
    BY FS_Singleton
  <2>3. f[c] \in Int /\ 1 \in Int
    OBVIOUS
  <2>4. IsFiniteSet(1..f[c])
    BY <2>3, FS_Interval
  <2> QED
    BY <2>1, <2>2, <2>4, FS_Product
<1>4. IsFiniteSet(UNION P)
  <2> HIDE DEF P
  <2> QED
    BY <1>2, <1>3, FS_UNION
<1> QED
  BY <1>4 DEF Places

\* Nothing is numbered where nobody is connected.
LEMMA PlacesNone ==
  ASSUME NEW C \in SUBSET Channels, NEW f \in [Channels -> Nat]
  PROVE  /\ Cardinality(Places(f, C)) \in Nat
         /\ Cardinality(Places(f, C)) = 0 <=> \A c \in C : f[c] = 0
<1>1. IsFiniteSet(Places(f, C))
  BY PlacesFinite
<1>2. Cardinality(Places(f, C)) = 0 <=> Places(f, C) = {}
  BY <1>1, FS_EmptySet
<1>3. ASSUME Places(f, C) = {}, NEW c \in C PROVE f[c] = 0
  <2>1. <<c, 1>> \notin Places(f, C)
    BY <1>3
  <2>2. ~(1 <= f[c])
    BY <2>1, PlacesMember
  <2> QED
    BY <2>2
<1>4. ASSUME \A c \in C : f[c] = 0 PROVE Places(f, C) = {}
  <2>1. ASSUME NEW p \in Places(f, C) PROVE FALSE
    <3>1. PICK c \in C, i \in Nat \ {0} : i <= f[c] /\ p = <<c, i>>
      BY <2>1, PlacesMember
    <3> QED
      BY <1>4, <3>1
  <2> QED
    BY <2>1
<1>5. Cardinality(Places(f, C)) \in Nat
  BY <1>1, FS_CardinalityType
<1> QED
  BY <1>2, <1>3, <1>4, <1>5

\* One connection more is counted, in the sets of channels it is in.
LEMMA PlacesMore ==
  ASSUME NEW C \in SUBSET Channels, NEW f \in [Channels -> Nat], NEW c \in Channels,
         NEW g \in [Channels -> Nat], g[c] = f[c] + 1,
         \A d \in Channels \ {c} : g[d] = f[d]
  PROVE  Cardinality(Places(g, C)) =
           Cardinality(Places(f, C)) + (IF c \in C THEN 1 ELSE 0)
<1>1. g[c] = f[c] + 1 /\ f[c] \in Nat /\ g[c] \in Nat
  OBVIOUS
<1>2. \A d \in Channels \ {c} : g[d] = f[d]
  OBVIOUS
<1>3. CASE c \notin C
  <2>1. Places(g, C) = Places(f, C)
    <3>1. ASSUME NEW p PROVE p \in Places(g, C) <=> p \in Places(f, C)
      <4>1. p \in Places(g, C) <=> \E d \in C, i \in Nat \ {0} : i <= g[d] /\ p = <<d, i>>
        BY PlacesMember
      <4>2. p \in Places(f, C) <=> \E d \in C, i \in Nat \ {0} : i <= f[d] /\ p = <<d, i>>
        BY PlacesMember
      <4> QED
        BY <1>2, <1>3, <4>1, <4>2
    <3> QED
      BY <3>1
  <2>2. Cardinality(Places(f, C)) \in Nat
    BY PlacesNone
  <2> QED
    BY <1>3, <2>1, <2>2
<1>4. CASE c \in C
  <2> DEFINE new == <<c, g[c]>>
  <2>1. Places(g, C) = Places(f, C) \cup {new}
    <3>1. ASSUME NEW p
          PROVE  p \in Places(g, C) <=> p \in Places(f, C) \/ p = new
      <4>1. p \in Places(g, C) <=> \E d \in C, i \in Nat \ {0} : i <= g[d] /\ p = <<d, i>>
        BY PlacesMember
      <4>2. p \in Places(f, C) <=> \E d \in C, i \in Nat \ {0} : i <= f[d] /\ p = <<d, i>>
        BY PlacesMember
      <4>3. ASSUME NEW d \in C, NEW i \in Nat \ {0}, i <= g[d], p = <<d, i>>, p # new
            PROVE  i <= f[d]
        BY <1>1, <1>2, <4>3
      <4>4. ASSUME NEW d \in C, NEW i \in Nat \ {0}, i <= f[d], p = <<d, i>>
            PROVE  i <= g[d]
        BY <1>1, <1>2, <4>4
      <4>5. g[c] \in Nat \ {0} /\ g[c] <= g[c]
        BY <1>1
      <4> QED
        BY <1>4, <4>1, <4>2, <4>3, <4>4, <4>5
    <3> QED
      BY <3>1
  <2>2. new \notin Places(f, C)
    <3>1. SUFFICES ASSUME new \in Places(f, C) PROVE FALSE
      OBVIOUS
    <3>2. PICK d \in C, i \in Nat \ {0} : i <= f[d] /\ new = <<d, i>>
      BY <3>1, PlacesMember
    <3>3. d = c /\ i = g[c]
      BY <3>2
    <3> QED
      BY <1>1, <3>2, <3>3
  <2>3. IsFiniteSet(Places(f, C))
    BY PlacesFinite
  <2> HIDE DEF new
  <2> QED
    BY <1>4, <2>1, <2>2, <2>3, FS_AddElement
<1> QED
  BY <1>3, <1>4

\* And one less.
LEMMA PlacesLess ==
  ASSUME NEW C \in SUBSET Channels, NEW f \in [Channels -> Nat], NEW c \in Channels,
         NEW g \in [Channels -> Nat], g[c] = f[c] - 1,
         \A d \in Channels \ {c} : g[d] = f[d]
  PROVE  Cardinality(Places(g, C)) =
           Cardinality(Places(f, C)) - (IF c \in C THEN 1 ELSE 0)
<1>1. f[c] = g[c] + 1 /\ \A d \in Channels \ {c} : f[d] = g[d]
  OBVIOUS
<1>2. Cardinality(Places(f, C)) =
        Cardinality(Places(g, C)) + (IF c \in C THEN 1 ELSE 0)
  BY <1>1, PlacesMore
<1>3. Cardinality(Places(g, C)) \in Nat
  BY PlacesNone
<1> QED
  BY <1>2, <1>3
-----------------------------------------------------------------------------
(* The keys of Redis.                                                      *)

Unset(k) == k.ttl = Gone => k.n = 0
Cleared(k) == k.ttl = Gone => k.set = {}

\* The counters: INCR and DECR with their times to live.
LEMMA CounterKeys ==
  ASSUME NEW k \in Counter, Unset(k)
  PROVE  /\ Incr(k) \in Counter /\ Incr(k).n = k.n + 1 /\ Unset(Incr(k))
         /\ Decr(k) \in Counter /\ Decr(k).n = (IF k.n <= 1 THEN 0 ELSE k.n - 1)
         /\ Unset(Decr(k))
<1>1. k = [n |-> k.n, ttl |-> k.ttl] /\ k.n \in Int /\ k.ttl \in 0..Forever
  BY DEF Counter
<1>2. TTL \in 0..Forever /\ TTL # 0
  BY PresenceAssumption DEF Forever
<1>3. Incr(k) \in Counter /\ Incr(k).n = k.n + 1 /\ Unset(Incr(k))
  BY <1>1, <1>2 DEF Counter, Incr, Unset, Gone
<1>4. CASE k.n <= 1
  BY <1>1, <1>3, <1>4, PresenceAssumption DEF Counter, Decr, Unset, NoCounter, Gone, Forever
<1>5. CASE ~(k.n <= 1)
  <2>1. Decr(k) = [n |-> k.n - 1, ttl |-> k.ttl]
    BY <1>1, <1>5 DEF Decr
  <2>2. k.ttl # Gone
    BY <1>1, <1>5 DEF Unset
  <2> QED
    BY <1>1, <1>3, <1>5, <2>1, <2>2 DEF Counter, Unset
<1> QED
  BY <1>4, <1>5

\* The sets: SADD, SREM and EXPIRE.
LEMMA SetKeys ==
  ASSUME NEW S, NEW k \in Set(S), NEW x \in S, Cleared(k)
  PROVE  /\ SAdd(k, x) \in Set(S) /\ SAdd(k, x).set = k.set \cup {x} /\ Cleared(SAdd(k, x))
         /\ SRem(k, x) \in Set(S) /\ SRem(k, x).set = k.set \ {x} /\ Cleared(SRem(k, x))
<1>1. k = [set |-> k.set, ttl |-> k.ttl] /\ k.set \in SUBSET S /\ k.ttl \in 0..Forever
  BY DEF Set
<1>2. Forever \in 0..Forever /\ Forever # 0 /\ 0 \in 0..Forever
  BY PresenceAssumption DEF Forever
<1>3. SAdd(k, x) \in Set(S) /\ SAdd(k, x).set = k.set \cup {x} /\ Cleared(SAdd(k, x))
  BY <1>1, <1>2 DEF Set, SAdd, Cleared, Gone
<1>4. CASE k.set \subseteq {x}
  <2>1. SRem(k, x) = [set |-> {}, ttl |-> 0] /\ k.set \ {x} = {}
    BY <1>4 DEF SRem, NoSet, Gone
  <2> QED
    BY <1>2, <1>3, <2>1 DEF Set, Cleared
<1>5. CASE ~(k.set \subseteq {x})
  <2>1. SRem(k, x) = [set |-> k.set \ {x}, ttl |-> k.ttl]
    BY <1>1, <1>5 DEF SRem
  <2>2. k.ttl # Gone
    BY <1>5 DEF Cleared
  <2> QED
    BY <1>1, <1>3, <2>1, <2>2 DEF Set, Cleared
<1> QED
  BY <1>4, <1>5

\* EXPIRE changes no value.
LEMMA ExpireKeys ==
  ASSUME NEW S, NEW k \in Set(S), Cleared(k)
  PROVE  Expire(k) \in Set(S) /\ Expire(k).set = k.set /\ Cleared(Expire(k))
<1>1. k = [set |-> k.set, ttl |-> k.ttl] /\ k.set \in SUBSET S /\ k.ttl \in 0..Forever
  BY DEF Set
<1>2. TTL \in 0..Forever /\ TTL # 0
  BY PresenceAssumption DEF Forever
<1>3. CASE k.ttl = Gone
  BY <1>3 DEF Expire
<1>4. CASE k.ttl # Gone
  <2>1. Expire(k) = [set |-> k.set, ttl |-> TTL]
    BY <1>1, <1>4 DEF Expire
  <2> QED
    BY <1>1, <1>2, <2>1 DEF Set, Cleared, Gone
<1> QED
  BY <1>3, <1>4
-----------------------------------------------------------------------------
(* The scripts.                                                            *)

Hash == [count : Nat, status : Statuses \cup {""}, ttl : 0..Forever]

KeysOK ==
  /\ wsConn \in [Users -> [Workspaces -> Counter]]
  /\ chConn \in [Users -> [Channels -> Counter]]
  /\ hash \in [Users -> Hash]
  /\ online \in Set(Users)
  /\ wsOnline \in [Workspaces -> Set(Users)]
  /\ active \in [Users -> Set(Channels)]

LEMMA Successor == \A n \in Nat : n + 1 \in Nat /\ (n + 1 = 1 <=> n = 0)
OBVIOUS

\* What connectScript leaves at the keys.
LEMMA ConnectCounters ==
  ASSUME KeysOK, Gones, NEW u \in Users, NEW c \in Channels, connectScript(u, c)
  PROVE  /\ wsConn' \in [Users -> [Workspaces -> Counter]]
         /\ chConn' \in [Users -> [Channels -> Counter]]
         /\ \A v \in Users, w \in Workspaces :
              /\ wsConn'[v][w].ttl = Gone => wsConn'[v][w].n = 0
              /\ wsConn'[v][w].n =
                   wsConn[v][w].n + (IF v = u /\ w = WorkspaceOf[c] THEN 1 ELSE 0)
         /\ \A v \in Users, d \in Channels :
              /\ chConn'[v][d].ttl = Gone => chConn'[v][d].n = 0
              /\ chConn'[v][d].n = chConn[v][d].n + (IF v = u /\ d = c THEN 1 ELSE 0)
<1> DEFINE W == WorkspaceOf[c]
<1>1. W \in Workspaces
  BY PresenceAssumption
<1>2. wsConn[u][W] \in Counter /\ Unset(wsConn[u][W])
  BY <1>1 DEF KeysOK, Gones, Unset
<1>3. Incr(wsConn[u][W]) \in Counter /\ Incr(wsConn[u][W]).n = wsConn[u][W].n + 1
      /\ Unset(Incr(wsConn[u][W]))
  BY <1>2, CounterKeys
<1>4. wsConn' = [wsConn EXCEPT ![u][W] = Incr(wsConn[u][W])]
  BY DEF connectScript
<1>5. chConn[u][c] \in Counter /\ Unset(chConn[u][c])
  BY DEF KeysOK, Gones, Unset
<1>6. Incr(chConn[u][c]) \in Counter /\ Incr(chConn[u][c]).n = chConn[u][c].n + 1
      /\ Unset(Incr(chConn[u][c]))
  BY <1>5, CounterKeys
<1>7. chConn' = [chConn EXCEPT ![u][c] = Incr(chConn[u][c])]
  BY DEF connectScript
<1> HIDE DEF W
<1>8. wsConn' \in [Users -> [Workspaces -> Counter]]
  BY <1>1, <1>3, <1>4 DEF KeysOK
<1>9. chConn' \in [Users -> [Channels -> Counter]]
  BY <1>6, <1>7 DEF KeysOK
<1>10. ASSUME NEW v \in Users, NEW w \in Workspaces
       PROVE  /\ wsConn'[v][w].ttl = Gone => wsConn'[v][w].n = 0
              /\ wsConn'[v][w].n = wsConn[v][w].n + (IF v = u /\ w = W THEN 1 ELSE 0)
  <2>1. wsConn[v][w].n \in Int
    BY DEF KeysOK, Counter
  <2>2. CASE v = u /\ w = W
    <3>1. wsConn'[v][w] = Incr(wsConn[u][W])
      BY <1>1, <1>4, <2>2 DEF KeysOK
    <3> QED
      BY <1>3, <2>2, <3>1 DEF Unset
  <2>3. CASE ~(v = u /\ w = W)
    <3>1. wsConn'[v][w] = wsConn[v][w]
      BY <1>1, <1>4, <2>3 DEF KeysOK
    <3> QED
      BY <2>1, <2>3, <3>1 DEF Gones
  <2> QED
    BY <2>2, <2>3
<1>11. ASSUME NEW v \in Users, NEW d \in Channels
       PROVE  /\ chConn'[v][d].ttl = Gone => chConn'[v][d].n = 0
              /\ chConn'[v][d].n = chConn[v][d].n + (IF v = u /\ d = c THEN 1 ELSE 0)
  <2>1. chConn[v][d].n \in Int
    BY DEF KeysOK, Counter
  <2>2. CASE v = u /\ d = c
    <3>1. chConn'[v][d] = Incr(chConn[u][c])
      BY <1>7, <2>2 DEF KeysOK
    <3> QED
      BY <1>6, <2>2, <3>1 DEF Unset
  <2>3. CASE ~(v = u /\ d = c)
    <3>1. chConn'[v][d] = chConn[v][d]
      BY <1>7, <2>3 DEF KeysOK
    <3> QED
      BY <2>1, <2>3, <3>1 DEF Gones
  <2> QED
    BY <2>2, <2>3
<1> QED
  BY <1>8, <1>9, <1>10, <1>11 DEF W

LEMMA ConnectHash ==
  ASSUME KeysOK, Gones, NEW u \in Users, NEW c \in Channels, connectScript(u, c)
  PROVE  /\ hash' \in [Users -> Hash]
         /\ \A v \in Users :
              /\ hash'[v].ttl = Gone => hash'[v].count = 0
              /\ hash'[v].count = hash[v].count + (IF v = u THEN 1 ELSE 0)
              /\ hash'[v].status =
                   IF v = u /\ hash[u].count = 0 THEN "online" ELSE hash[v].status
<1> DEFINE h == [count |-> hash[u].count + 1,
                 status |-> IF hash[u].count + 1 = 1 THEN "online" ELSE hash[u].status,
                 ttl |-> TTL]
<1>1. hash' = [hash EXCEPT ![u] = h]
  BY DEF connectScript
<1>2. hash[u].count \in Nat /\ hash[u].status \in Statuses \cup {""}
  BY DEF KeysOK, Hash
<1>3. /\ h \in Hash /\ h.ttl # Gone /\ h.count = hash[u].count + 1
      /\ h.status = IF hash[u].count = 0 THEN "online" ELSE hash[u].status
  <2>1. TTL \in 0..Forever /\ TTL # Gone
    BY PresenceAssumption DEF Forever, Gone
  <2>2. hash[u].count + 1 \in Nat /\ (hash[u].count + 1 = 1 <=> hash[u].count = 0)
    BY <1>2, Successor
  <2>3. h.status \in Statuses \cup {""}
    BY <1>2 DEF Statuses
  <2>4. h \in Hash
    BY <2>1, <2>2, <2>3 DEF Hash
  <2> QED
    BY <2>1, <2>2, <2>4
<1> HIDE DEF h
<1>4. hash' \in [Users -> Hash]
  BY <1>1, <1>3 DEF KeysOK
<1>5. ASSUME NEW v \in Users
      PROVE  /\ hash'[v].ttl = Gone => hash'[v].count = 0
             /\ hash'[v].count = hash[v].count + (IF v = u THEN 1 ELSE 0)
             /\ hash'[v].status =
                  IF v = u /\ hash[u].count = 0 THEN "online" ELSE hash[v].status
  <2>1. hash[v].count \in Nat
    BY DEF KeysOK, Hash
  <2>2. CASE v = u
    <3>1. hash'[v] = h
      BY <1>1, <2>2 DEF KeysOK
    <3> QED
      BY <1>3, <2>2, <3>1
  <2>3. CASE v # u
    <3>1. hash'[v] = hash[v]
      BY <1>1, <2>3 DEF KeysOK
    <3> QED
      BY <2>1, <2>3, <3>1 DEF Gones
  <2> QED
    BY <2>2, <2>3
<1> QED
  BY <1>4, <1>5

LEMMA ConnectSets ==
  ASSUME KeysOK, Gones, NEW u \in Users, NEW c \in Channels, connectScript(u, c)
  PROVE  /\ online' \in Set(Users)
         /\ wsOnline' \in [Workspaces -> Set(Users)]
         /\ active' \in [Users -> Set(Channels)]
         /\ online'.ttl = Gone => online'.set = {}
         /\ online'.set = IF hash[u].count = 0 THEN online.set \cup {u} ELSE online.set
         /\ \A w \in Workspaces :
              /\ wsOnline'[w].ttl = Gone => wsOnline'[w].set = {}
              /\ wsOnline'[w].set =
                   IF w = WorkspaceOf[c] /\ wsConn[u][w].n = 0
                   THEN wsOnline[w].set \cup {u} ELSE wsOnline[w].set
         /\ \A v \in Users :
              /\ active'[v].ttl = Gone => active'[v].set = {}
              /\ active'[v].set =
                   IF v = u /\ chConn[u][c].n = 0
                   THEN active[v].set \cup {c} ELSE active[v].set
<1> DEFINE W == WorkspaceOf[c]
<1> DEFINE o == IF hash[u].count + 1 = 1 THEN SAdd(online, u) ELSE online
<1> DEFINE l == IF wsConn[u][W].n = 0 THEN SAdd(wsOnline[W], u) ELSE wsOnline[W]
<1> DEFINE a == IF chConn[u][c].n = 0 THEN SAdd(active[u], c) ELSE active[u]
<1>1. W \in Workspaces
  BY PresenceAssumption
<1>2. hash[u].count \in Nat
  BY DEF KeysOK, Hash
<1>3. /\ online' = Expire(o)
      /\ wsOnline' = [wsOnline EXCEPT ![W] = Expire(l)]
      /\ active' = [active EXCEPT ![u] = Expire(a)]
  BY DEF connectScript
<1>4. /\ o \in Set(Users) /\ Cleared(o)
      /\ o.set = IF hash[u].count = 0 THEN online.set \cup {u} ELSE online.set
  <2>1. online \in Set(Users) /\ Cleared(online)
    BY DEF KeysOK, Gones, Cleared
  <2>2. /\ SAdd(online, u) \in Set(Users) /\ Cleared(SAdd(online, u))
        /\ SAdd(online, u).set = online.set \cup {u}
    BY <2>1, SetKeys
  <2>3. hash[u].count + 1 = 1 <=> hash[u].count = 0
    BY <1>2, Successor
  <2> QED
    BY <2>1, <2>2, <2>3
<1>5. /\ l \in Set(Users) /\ Cleared(l)
      /\ l.set = IF wsConn[u][W].n = 0 THEN wsOnline[W].set \cup {u} ELSE wsOnline[W].set
  <2>1. wsOnline[W] \in Set(Users) /\ Cleared(wsOnline[W])
    BY <1>1 DEF KeysOK, Gones, Cleared
  <2>2. /\ SAdd(wsOnline[W], u) \in Set(Users) /\ Cleared(SAdd(wsOnline[W], u))
        /\ SAdd(wsOnline[W], u).set = wsOnline[W].set \cup {u}
    BY <2>1, SetKeys
  <2> QED
    BY <2>1, <2>2
<1>6. /\ a \in Set(Channels) /\ Cleared(a)
      /\ a.set = IF chConn[u][c].n = 0 THEN active[u].set \cup {c} ELSE active[u].set
  <2>1. active[u] \in Set(Channels) /\ Cleared(active[u])
    BY DEF KeysOK, Gones, Cleared
  <2>2. /\ SAdd(active[u], c) \in Set(Channels) /\ Cleared(SAdd(active[u], c))
        /\ SAdd(active[u], c).set = active[u].set \cup {c}
    BY <2>1, SetKeys
  <2> QED
    BY <2>1, <2>2
<1> HIDE DEF o, l, a, W
<1>7. Expire(o) \in Set(Users) /\ Expire(o).set = o.set /\ Cleared(Expire(o))
  BY <1>4, ExpireKeys
<1>8. Expire(l) \in Set(Users) /\ Expire(l).set = l.set /\ Cleared(Expire(l))
  BY <1>5, ExpireKeys
<1>9. Expire(a) \in Set(Channels) /\ Expire(a).set = a.set /\ Cleared(Expire(a))
  BY <1>6, ExpireKeys
<1>10. /\ online' \in Set(Users)
       /\ online'.ttl = Gone => online'.set = {}
       /\ online'.set = IF hash[u].count = 0 THEN online.set \cup {u} ELSE online.set
  BY <1>3, <1>4, <1>7 DEF Cleared
<1>11. wsOnline' \in [Workspaces -> Set(Users)]
  BY <1>1, <1>3, <1>8 DEF KeysOK
<1>12. active' \in [Users -> Set(Channels)]
  BY <1>3, <1>9 DEF KeysOK
<1>13. ASSUME NEW w \in Workspaces
       PROVE  /\ wsOnline'[w].ttl = Gone => wsOnline'[w].set = {}
              /\ wsOnline'[w].set =
                   IF w = W /\ wsConn[u][w].n = 0
                   THEN wsOnline[w].set \cup {u} ELSE wsOnline[w].set
  <2>1. CASE w = W
    <3>1. wsOnline'[w] = Expire(l)
      BY <1>1, <1>3, <2>1 DEF KeysOK
    <3> QED
      BY <1>5, <1>8, <2>1, <3>1 DEF Cleared
  <2>2. CASE w # W
    <3>1. wsOnline'[w] = wsOnline[w]
      BY <1>1, <1>3, <2>2 DEF KeysOK
    <3> QED
      BY <2>2, <3>1 DEF Gones
  <2> QED
    BY <2>1, <2>2
<1>14. ASSUME NEW v \in Users
       PROVE  /\ active'[v].ttl = Gone => active'[v].set = {}
              /\ active'[v].set =
                   IF v = u /\ chConn[u][c].n = 0
                   THEN active[v].set \cup {c} ELSE active[v].set
  <2>1. CASE v = u
    <3>1. active'[v] = Expire(a)
      BY <1>3, <2>1 DEF KeysOK
    <3> QED
      BY <1>6, <1>9, <2>1, <3>1 DEF Cleared
  <2>2. CASE v # u
    <3>1. active'[v] = active[v]
      BY <1>3, <2>2 DEF KeysOK
    <3> QED
      BY <2>2, <3>1 DEF Gones
  <2> QED
    BY <2>1, <2>2
<1> QED
  BY <1>10, <1>11, <1>12, <1>13, <1>14 DEF W
Less(n) == IF n <= 1 THEN 0 ELSE n - 1

LEMMA LessCounts ==
  \A n \in Nat : /\ Less(n) \in Nat /\ (Less(n) = 0 <=> n <= 1)
                 /\ n > 0 => Less(n) = n - 1
BY DEF Less

\* What disconnectScript leaves at the keys.
LEMMA DisconnectCounters ==
  ASSUME KeysOK, Gones, NEW u \in Users, NEW c \in Channels, disconnectScript(u, c)
  PROVE  /\ wsConn' \in [Users -> [Workspaces -> Counter]]
         /\ chConn' \in [Users -> [Channels -> Counter]]
         /\ \A v \in Users, w \in Workspaces :
              /\ wsConn'[v][w].ttl = Gone => wsConn'[v][w].n = 0
              /\ wsConn'[v][w].n =
                   IF v = u /\ w = WorkspaceOf[c] THEN Less(wsConn[v][w].n) ELSE wsConn[v][w].n
         /\ \A v \in Users, d \in Channels :
              /\ chConn'[v][d].ttl = Gone => chConn'[v][d].n = 0
              /\ chConn'[v][d].n =
                   IF v = u /\ d = c THEN Less(chConn[v][d].n) ELSE chConn[v][d].n
<1> DEFINE W == WorkspaceOf[c]
<1>1. W \in Workspaces
  BY PresenceAssumption
<1>2. wsConn[u][W] \in Counter /\ Unset(wsConn[u][W])
  BY <1>1 DEF KeysOK, Gones, Unset
<1>3. Decr(wsConn[u][W]) \in Counter /\ Decr(wsConn[u][W]).n = Less(wsConn[u][W].n)
      /\ Unset(Decr(wsConn[u][W]))
  BY <1>2, CounterKeys DEF Less
<1>4. wsConn' = [wsConn EXCEPT ![u][W] = Decr(wsConn[u][W])]
  BY DEF disconnectScript
<1>5. chConn[u][c] \in Counter /\ Unset(chConn[u][c])
  BY DEF KeysOK, Gones, Unset
<1>6. Decr(chConn[u][c]) \in Counter /\ Decr(chConn[u][c]).n = Less(chConn[u][c].n)
      /\ Unset(Decr(chConn[u][c]))
  BY <1>5, CounterKeys DEF Less
<1>7. chConn' = [chConn EXCEPT ![u][c] = Decr(chConn[u][c])]
  BY DEF disconnectScript
<1> HIDE DEF W
<1>8. wsConn' \in [Users -> [Workspaces -> Counter]]
  BY <1>1, <1>3, <1>4 DEF KeysOK
<1>9. chConn' \in [Users -> [Channels -> Counter]]
  BY <1>6, <1>7 DEF KeysOK
<1>10. ASSUME NEW v \in Users, NEW w \in Workspaces
       PROVE  /\ wsConn'[v][w].ttl = Gone => wsConn'[v][w].n = 0
              /\ wsConn'[v][w].n =
                   IF v = u /\ w = W THEN Less(wsConn[v][w].n) ELSE wsConn[v][w].n
  <2>1. wsConn[v][w].n \in Int
    BY DEF KeysOK, Counter
  <2>2. CASE v = u /\ w = W
    <3>1. wsConn'[v][w] = Decr(wsConn[u][W])
      BY <1>1, <1>4, <2>2 DEF KeysOK
    <3> QED
      BY <1>3, <2>2, <3>1 DEF Unset
  <2>3. CASE ~(v = u /\ w = W)
    <3>1. wsConn'[v][w] = wsConn[v][w]
      BY <1>1, <1>4, <2>3 DEF KeysOK
    <3> QED
      BY <2>1, <2>3, <3>1 DEF Gones
  <2> QED
    BY <2>2, <2>3
<1>11. ASSUME NEW v \in Users, NEW d \in Channels
       PROVE  /\ chConn'[v][d].ttl = Gone => chConn'[v][d].n = 0
              /\ chConn'[v][d].n =
                   IF v = u /\ d = c THEN Less(chConn[v][d].n) ELSE chConn[v][d].n
  <2>1. chConn[v][d].n \in Int
    BY DEF KeysOK, Counter
  <2>2. CASE v = u /\ d = c
    <3>1. chConn'[v][d] = Decr(chConn[u][c])
      BY <1>7, <2>2 DEF KeysOK
    <3> QED
      BY <1>6, <2>2, <3>1 DEF Unset
  <2>3. CASE ~(v = u /\ d = c)
    <3>1. chConn'[v][d] = chConn[v][d]
      BY <1>7, <2>3 DEF KeysOK
    <3> QED
      BY <2>1, <2>3, <3>1 DEF Gones
  <2> QED
    BY <2>2, <2>3
<1> QED
  BY <1>8, <1>9, <1>10, <1>11 DEF W

LEMMA DisconnectHash ==
  ASSUME KeysOK, Gones, NEW u \in Users, NEW c \in Channels, disconnectScript(u, c)
  PROVE  /\ hash' \in [Users -> Hash]
         /\ \A v \in Users :
              /\ hash'[v].ttl = Gone => hash'[v].count = 0
              /\ hash'[v].count = IF v = u THEN Less(hash[v].count) ELSE hash[v].count
              /\ hash'[v].status =
                   IF v = u /\ Less(hash[u].count) = 0 THEN "offline" ELSE hash[v].status
<1> DEFINE n == Less(hash[u].count)
<1> DEFINE h == [count |-> n, status |-> IF n = 0 THEN "offline" ELSE hash[u].status,
                 ttl |-> TTL]
<1>1. hash' = [hash EXCEPT ![u] = h]
  BY DEF disconnectScript, Less
<1>2. hash[u].count \in Nat /\ hash[u].status \in Statuses \cup {""}
  BY DEF KeysOK, Hash
<1>3. n \in Nat
  BY <1>2, LessCounts
<1> HIDE DEF n
<1>4. /\ h \in Hash /\ h.ttl # Gone /\ h.count = n
      /\ h.status = IF n = 0 THEN "offline" ELSE hash[u].status
  <2>1. TTL \in 0..Forever /\ TTL # Gone
    BY PresenceAssumption DEF Forever, Gone
  <2>2. h.status \in Statuses \cup {""}
    BY <1>2 DEF Statuses
  <2>3. h \in Hash
    BY <1>3, <2>1, <2>2 DEF Hash
  <2> QED
    BY <2>1, <2>3
<1> HIDE DEF h
<1>5. hash' \in [Users -> Hash]
  BY <1>1, <1>4 DEF KeysOK
<1>6. ASSUME NEW v \in Users
      PROVE  /\ hash'[v].ttl = Gone => hash'[v].count = 0
             /\ hash'[v].count = IF v = u THEN n ELSE hash[v].count
             /\ hash'[v].status = IF v = u /\ n = 0 THEN "offline" ELSE hash[v].status
  <2>1. CASE v = u
    <3>1. hash'[v] = h
      BY <1>1, <2>1 DEF KeysOK
    <3> QED
      BY <1>4, <2>1, <3>1
  <2>2. CASE v # u
    <3>1. hash'[v] = hash[v]
      BY <1>1, <2>2 DEF KeysOK
    <3> QED
      BY <2>2, <3>1 DEF Gones
  <2> QED
    BY <2>1, <2>2
<1> QED
  BY <1>5, <1>6 DEF n

LEMMA DisconnectSets ==
  ASSUME KeysOK, Gones, NEW u \in Users, NEW c \in Channels, disconnectScript(u, c)
  PROVE  /\ online' \in Set(Users)
         /\ wsOnline' \in [Workspaces -> Set(Users)]
         /\ active' \in [Users -> Set(Channels)]
         /\ online'.ttl = Gone => online'.set = {}
         /\ online'.set =
              IF Less(hash[u].count) = 0 THEN online.set \ {u} ELSE online.set
         /\ \A w \in Workspaces :
              /\ wsOnline'[w].ttl = Gone => wsOnline'[w].set = {}
              /\ wsOnline'[w].set =
                   IF w = WorkspaceOf[c] /\ wsConn[u][w].n <= 1
                   THEN wsOnline[w].set \ {u} ELSE wsOnline[w].set
         /\ \A v \in Users :
              /\ active'[v].ttl = Gone => active'[v].set = {}
              /\ active'[v].set =
                   IF v = u /\ chConn[u][c].n <= 1
                   THEN active[v].set \ {c} ELSE active[v].set
<1> DEFINE W == WorkspaceOf[c]
<1> DEFINE n == Less(hash[u].count)
<1> DEFINE l == IF wsConn[u][W].n <= 1 THEN SRem(wsOnline[W], u) ELSE wsOnline[W]
<1> DEFINE a == IF chConn[u][c].n <= 1 THEN SRem(active[u], c) ELSE active[u]
<1>1. W \in Workspaces
  BY PresenceAssumption
<1>2. /\ online' = IF n = 0 THEN SRem(online, u) ELSE online
      /\ wsOnline' = [wsOnline EXCEPT ![W] = l]
      /\ active' = [active EXCEPT ![u] = a]
  BY DEF disconnectScript, Less
<1> HIDE DEF n
<1>3. /\ online' \in Set(Users)
      /\ online'.ttl = Gone => online'.set = {}
      /\ online'.set = IF n = 0 THEN online.set \ {u} ELSE online.set
  <2>1. online \in Set(Users) /\ Cleared(online)
    BY DEF KeysOK, Gones, Cleared
  <2>2. SRem(online, u) \in Set(Users) /\ SRem(online, u).set = online.set \ {u}
        /\ Cleared(SRem(online, u))
    BY <2>1, SetKeys
  <2> QED
    BY <1>2, <2>1, <2>2 DEF Cleared
<1>4. /\ l \in Set(Users) /\ Cleared(l)
      /\ l.set = IF wsConn[u][W].n <= 1 THEN wsOnline[W].set \ {u} ELSE wsOnline[W].set
  <2>1. wsOnline[W] \in Set(Users) /\ Cleared(wsOnline[W])
    BY <1>1 DEF KeysOK, Gones, Cleared
  <2>2. SRem(wsOnline[W], u) \in Set(Users)
        /\ SRem(wsOnline[W], u).set = wsOnline[W].set \ {u} /\ Cleared(SRem(wsOnline[W], u))
    BY <2>1, SetKeys
  <2> QED
    BY <2>1, <2>2
<1>5. /\ a \in Set(Channels) /\ Cleared(a)
      /\ a.set = IF chConn[u][c].n <= 1 THEN active[u].set \ {c} ELSE active[u].set
  <2>1. active[u] \in Set(Channels) /\ Cleared(active[u])
    BY DEF KeysOK, Gones, Cleared
  <2>2. SRem(active[u], c) \in Set(Channels)
        /\ SRem(active[u], c).set = active[u].set \ {c} /\ Cleared(SRem(active[u], c))
    BY <2>1, SetKeys
  <2> QED
    BY <2>1, <2>2
<1> HIDE DEF l, a, W
<1>6. wsOnline' \in [Workspaces -> Set(Users)]
  BY <1>1, <1>2, <1>4 DEF KeysOK
<1>7. active' \in [Users -> Set(Channels)]
  BY <1>2, <1>5 DEF KeysOK
<1>8. ASSUME NEW w \in Workspaces
      PROVE  /\ wsOnline'[w].ttl = Gone => wsOnline'[w].set = {}
             /\ wsOnline'[w].set =
                  IF w = W /\ wsConn[u][w].n <= 1
                  THEN wsOnline[w].set \ {u} ELSE wsOnline[w].set
  <2>1. CASE w = W
    <3>1. wsOnline'[w] = l
      BY <1>1, <1>2, <2>1 DEF KeysOK
    <3> QED
      BY <1>4, <2>1, <3>1 DEF Cleared
  <2>2. CASE w # W
    <3>1. wsOnline'[w] = wsOnline[w]
      BY <1>1, <1>2, <2>2 DEF KeysOK
    <3> QED
      BY <2>2, <3>1 DEF Gones
  <2> QED
    BY <2>1, <2>2
<1>9. ASSUME NEW v \in Users
      PROVE  /\ active'[v].ttl = Gone => active'[v].set = {}
             /\ active'[v].set =
                  IF v = u /\ chConn[u][c].n <= 1
                  THEN active[v].set \ {c} ELSE active[v].set
  <2>1. CASE v = u
    <3>1. active'[v] = a
      BY <1>2, <2>1 DEF KeysOK
    <3> QED
      BY <1>5, <2>1, <3>1 DEF Cleared
  <2>2. CASE v # u
    <3>1. active'[v] = active[v]
      BY <1>2, <2>2 DEF KeysOK
    <3> QED
      BY <2>2, <3>1 DEF Gones
  <2> QED
    BY <2>1, <2>2
<1> QED
  BY <1>3, <1>6, <1>7, <1>8, <1>9 DEF W, n
-----------------------------------------------------------------------------
(* A client comes and goes.                                                *)

LEMMA LiveTyped == TypeOK => live \in [Users -> [Channels -> Nat]]
<1>1. SUFFICES ASSUME live \in [Users -> [Channels -> 0..MaxLive]]
               PROVE  live \in [Users -> [Channels -> Nat]]
  BY DEF TypeOK
<1>2. \A u \in Users : live[u] \in [Channels -> Nat]
  BY <1>1, PresenceAssumption
<1> QED
  BY <1>1, <1>2

\* A counter is zero where nobody is connected.
LEMMA Zeros ==
  ASSUME TypeOK, Counted, NEW u \in Users
  PROVE  /\ live[u] \in [Channels -> Nat]
         /\ hash[u].count = Cardinality(Places(live[u], Channels))
         /\ hash[u].count \in Nat /\ (hash[u].count = 0 <=> ~Live(u))
         /\ \A w \in Workspaces :
              /\ OfWorkspace(w) \in SUBSET Channels
              /\ wsConn[u][w].n \in Nat
              /\ wsConn[u][w].n = 0 <=> \A c \in OfWorkspace(w) : live[u][c] = 0
<1>1. live[u] \in [Channels -> Nat]
  <2>1. live \in [Users -> [Channels -> 0..MaxLive]]
    BY DEF TypeOK
  <2>2. live[u] \in [Channels -> 0..MaxLive]
    BY <2>1
  <2> QED
    BY <2>2, PresenceAssumption
<1> DEFINE f == live[u]
<1>2. hash[u].count = Cardinality(Places(f, Channels))
  BY DEF Counted
<1>3. \A w \in Workspaces : wsConn[u][w].n = Cardinality(Places(f, OfWorkspace(w)))
  BY DEF Counted
<1>4. Live(u) <=> \E c \in Channels : f[c] > 0
  BY DEF Live
<1> HIDE DEF f
<1>5. PICK g \in [Channels -> Nat] : g = f
  BY <1>1 DEF f
<1>6. hash[u].count \in Nat /\ (hash[u].count = 0 <=> \A c \in Channels : g[c] = 0)
  BY <1>2, <1>5, PlacesNone
<1>7. \A c \in Channels : g[c] = 0 <=> ~(g[c] > 0)
  OBVIOUS
<1>8. ASSUME NEW w \in Workspaces
      PROVE  /\ OfWorkspace(w) \in SUBSET Channels
             /\ wsConn[u][w].n \in Nat
             /\ wsConn[u][w].n = 0 <=> \A c \in OfWorkspace(w) : g[c] = 0
  <2>1. OfWorkspace(w) \in SUBSET Channels
    BY DEF OfWorkspace
  <2> QED
    BY <1>3, <1>5, <2>1, PlacesNone
<1> QED
  BY <1>1, <1>2, <1>4, <1>5, <1>6, <1>7, <1>8 DEF f
\* KeysOK is the part of TypeOK about Redis.
LEMMA KeysTyped == TypeOK => KeysOK
BY DEF TypeOK, KeysOK, Hash

\* One connection more at every counter of the script keeps them exact.
LEMMA JoinCounted ==
  ASSUME TypeOK, Gones, Counted, NEW u \in Users, NEW c \in Channels, connectScript(u, c),
         live' = [live EXCEPT ![u][c] = @ + 1]
  PROVE  Counted'
<1> USE KeysTyped
<1>1. live \in [Users -> [Channels -> 0..MaxLive]]
  BY DEF TypeOK
<1>2. ASSUME NEW v \in Users, NEW d \in Channels PROVE chConn'[v][d].n = live'[v][d]
  <2>1. chConn'[v][d].n = chConn[v][d].n + (IF v = u /\ d = c THEN 1 ELSE 0)
    BY ConnectCounters
  <2>2. chConn[v][d].n = live[v][d]
    BY DEF Counted
  <2>3. live[v][d] \in Nat
    BY Zeros
  <2>4. live'[v][d] = live[v][d] + (IF v = u /\ d = c THEN 1 ELSE 0)
    BY <1>1, <2>3
  <2> QED
    BY <2>1, <2>2, <2>4
<1>3. ASSUME NEW v \in Users, NEW C \in SUBSET Channels
      PROVE  Cardinality(Places(live'[v], C)) =
               Cardinality(Places(live[v], C)) + (IF v = u /\ c \in C THEN 1 ELSE 0)
  <2>1. PICK f \in [Channels -> Nat] : f = live[v]
    BY Zeros
  <2>2. CASE v = u
    <3>1. PICK g \in [Channels -> Nat] : g = [f EXCEPT ![c] = @ + 1]
      <4>1. f[c] + 1 \in Nat
        OBVIOUS
      <4>2. [f EXCEPT ![c] = @ + 1] \in [Channels -> Nat]
        BY <4>1
      <4> QED
        BY <4>2
    <3>2. live'[v] = g
      BY <1>1, <2>1, <2>2, <3>1
    <3>3. g[c] = f[c] + 1 /\ \A d \in Channels \ {c} : g[d] = f[d]
      BY <3>1
    <3>4. Cardinality(Places(g, C)) = Cardinality(Places(f, C)) + (IF c \in C THEN 1 ELSE 0)
      BY <3>3, PlacesMore
    <3> QED
      BY <2>1, <2>2, <3>2, <3>4
  <2>3. CASE v # u
    <3>1. live'[v] = f
      BY <1>1, <2>1, <2>3
    <3>2. Cardinality(Places(f, C)) \in Nat
      BY PlacesNone
    <3> QED
      BY <2>1, <2>3, <3>1, <3>2
  <2> QED
    BY <2>2, <2>3
<1>4. ASSUME NEW v \in Users, NEW w \in Workspaces
      PROVE  wsConn'[v][w].n = Cardinality(Places(live'[v], OfWorkspace(w)))
  <2>1. wsConn'[v][w].n =
          wsConn[v][w].n + (IF v = u /\ w = WorkspaceOf[c] THEN 1 ELSE 0)
    BY ConnectCounters
  <2>2. wsConn[v][w].n = Cardinality(Places(live[v], OfWorkspace(w)))
    BY DEF Counted
  <2>3. OfWorkspace(w) \in SUBSET Channels /\ (c \in OfWorkspace(w) <=> w = WorkspaceOf[c])
    BY DEF OfWorkspace
  <2> QED
    BY <1>3, <2>1, <2>2, <2>3
<1>5. ASSUME NEW v \in Users
      PROVE  hash'[v].count = Cardinality(Places(live'[v], Channels))
  <2>1. hash'[v].count = hash[v].count + (IF v = u THEN 1 ELSE 0)
    BY ConnectHash
  <2>2. hash[v].count = Cardinality(Places(live[v], Channels))
    BY DEF Counted
  <2> QED
    BY <1>3, <2>1, <2>2
<1> QED
  BY <1>2, <1>4, <1>5 DEF Counted

\* And the sets gain the user where they had no client before.
LEMMA JoinListed ==
  ASSUME TypeOK, Gones, Counted, Listed, NEW u \in Users, NEW c \in Channels,
         connectScript(u, c), live' = [live EXCEPT ![u][c] = @ + 1]
  PROVE  Listed'
<1> USE KeysTyped
<1>1. ASSUME NEW v \in Users, NEW d \in Channels
      PROVE  live'[v][d] > 0 <=> live[v][d] > 0 \/ (v = u /\ d = c)
  <2>1. live[v][d] \in Nat
    BY Zeros
  <2>2. live'[v][d] = IF v = u /\ d = c THEN live[v][d] + 1 ELSE live[v][d]
    BY DEF TypeOK
  <2> QED
    BY <2>1, <2>2
<1>2. online'.set = {v \in Users : Live(v)'}
  <2>1. \A v \in Users : Live(v)' <=> Live(v) \/ v = u
    BY <1>1 DEF Live
  <2>2. online'.set = IF ~Live(u) THEN online.set \cup {u} ELSE online.set
    BY ConnectSets, Zeros
  <2>3. online.set = {v \in Users : Live(v)}
    BY DEF Listed
  <2> QED
    BY <2>1, <2>2, <2>3
<1>3. ASSUME NEW w \in Workspaces
      PROVE  wsOnline'[w].set = {v \in Users : \E d \in OfWorkspace(w) : live'[v][d] > 0}
  <2>1. c \in OfWorkspace(w) <=> w = WorkspaceOf[c]
    BY DEF OfWorkspace
  <2>2. wsOnline'[w].set =
          IF w = WorkspaceOf[c] /\ wsConn[u][w].n = 0
          THEN wsOnline[w].set \cup {u} ELSE wsOnline[w].set
    BY ConnectSets
  <2>3. wsConn[u][w].n = 0 <=> ~\E d \in OfWorkspace(w) : live[u][d] > 0
    <3>1. wsConn[u][w].n = 0 <=> \A d \in OfWorkspace(w) : live[u][d] = 0
      BY Zeros
    <3>2. \A d \in OfWorkspace(w) : live[u][d] = 0 <=> ~(live[u][d] > 0)
      BY Zeros
    <3> QED
      BY <3>1, <3>2
  <2>4. wsOnline[w].set = {v \in Users : \E d \in OfWorkspace(w) : live[v][d] > 0}
    BY DEF Listed
  <2>5. ASSUME NEW v \in Users
        PROVE  (\E d \in OfWorkspace(w) : live'[v][d] > 0)
                 <=> (\E d \in OfWorkspace(w) : live[v][d] > 0)
                     \/ (v = u /\ w = WorkspaceOf[c])
    BY <1>1, <2>1 DEF OfWorkspace
  <2> QED
    BY <2>2, <2>3, <2>4, <2>5
<1>4. ASSUME NEW v \in Users
      PROVE  active'[v].set = {d \in Channels : live'[v][d] > 0}
  <2>1. active'[v].set =
          IF v = u /\ chConn[u][c].n = 0 THEN active[v].set \cup {c} ELSE active[v].set
    BY ConnectSets
  <2>2. active[v].set = {d \in Channels : live[v][d] > 0}
    BY DEF Listed
  <2>3. chConn[u][c].n = 0 <=> ~(live[u][c] > 0)
    <3>1. live[u][c] \in Nat
      BY Zeros
    <3> QED
      BY <3>1 DEF Counted
  <2> QED
    BY <1>1, <2>1, <2>2, <2>3
<1> QED
  BY <1>2, <1>3, <1>4 DEF Listed

Leaves(u, c) == live[u][c] > 0 /\ live' = [live EXCEPT ![u][c] = @ - 1]

\* What a connection that ends leaves to be counted, and when it was the last.
LEMMA LeavePlaces ==
  ASSUME TypeOK, NEW u \in Users, NEW c \in Channels, Leaves(u, c),
         NEW v \in Users, NEW C \in SUBSET Channels
  PROVE  /\ live'[v] \in [Channels -> Nat]
         /\ Cardinality(Places(live'[v], C)) =
              Cardinality(Places(live[v], C)) - (IF v = u /\ c \in C THEN 1 ELSE 0)
         /\ Cardinality(Places(live'[v], C)) = 0 <=> \A d \in C : live'[v][d] = 0
<1>1. live \in [Users -> [Channels -> Nat]]
  BY LiveTyped
<1>2. PICK f \in [Channels -> Nat] : f = live[v]
  BY <1>1
<1>3. PICK g \in [Channels -> Nat] :
        g = IF v = u THEN [f EXCEPT ![c] = @ - 1] ELSE f
  <2>1. CASE v = u
    <3>1. f[c] - 1 \in Nat
      BY <1>2, <2>1 DEF Leaves
    <3>2. [f EXCEPT ![c] = @ - 1] \in [Channels -> Nat]
      BY <3>1
    <3> QED
      BY <2>1, <3>2
  <2>2. CASE v # u
    BY <2>2
  <2> QED
    BY <2>1, <2>2
<1>4. live'[v] = g
  BY <1>1, <1>2, <1>3 DEF Leaves
<1>5. Cardinality(Places(g, C)) =
        Cardinality(Places(f, C)) - (IF v = u /\ c \in C THEN 1 ELSE 0)
  <2>1. CASE v = u
    <3>1. g[c] = f[c] - 1 /\ \A d \in Channels \ {c} : g[d] = f[d]
      BY <1>3, <2>1
    <3>2. Cardinality(Places(g, C)) = Cardinality(Places(f, C)) - (IF c \in C THEN 1 ELSE 0)
      BY <3>1, PlacesLess
    <3> QED
      BY <2>1, <3>2
  <2>2. CASE v # u
    <3>1. g = f
      BY <1>3, <2>2
    <3>2. Cardinality(Places(f, C)) \in Nat
      BY PlacesNone
    <3> QED
      BY <2>2, <3>1, <3>2
  <2> QED
    BY <2>1, <2>2
<1>6. Cardinality(Places(g, C)) = 0 <=> \A d \in C : g[d] = 0
  BY PlacesNone
<1> QED
  BY <1>2, <1>4, <1>5, <1>6

\* One connection less likewise: there was one, so no counter was at zero.
LEMMA LeaveCounted ==
  ASSUME TypeOK, Gones, Counted, NEW u \in Users, NEW c \in Channels, disconnectScript(u, c),
         Leaves(u, c)
  PROVE  Counted'
<1> USE KeysTyped
<1>1. live \in [Users -> [Channels -> 0..MaxLive]]
  BY DEF TypeOK
<1>2. ASSUME NEW v \in Users, NEW d \in Channels PROVE chConn'[v][d].n = live'[v][d]
  <2>1. chConn'[v][d].n =
          IF v = u /\ d = c THEN Less(chConn[v][d].n) ELSE chConn[v][d].n
    BY DisconnectCounters
  <2>2. chConn[v][d].n = live[v][d]
    BY DEF Counted
  <2>3. live[v][d] \in Nat
    BY LiveTyped
  <2>4. live'[v][d] = live[v][d] - (IF v = u /\ d = c THEN 1 ELSE 0)
    BY <1>1, <2>3 DEF Leaves
  <2> QED
    BY <2>1, <2>2, <2>3, <2>4, LessCounts DEF Leaves
<1>3. ASSUME NEW v \in Users, NEW C \in SUBSET Channels
      PROVE  Cardinality(Places(live'[v], C)) =
               Cardinality(Places(live[v], C)) - (IF v = u /\ c \in C THEN 1 ELSE 0)
  BY LeavePlaces
<1>4. ASSUME NEW v \in Users, NEW w \in Workspaces
      PROVE  wsConn'[v][w].n = Cardinality(Places(live'[v], OfWorkspace(w)))
  <2>1. wsConn'[v][w].n =
          wsConn[v][w].n - (IF v = u /\ w = WorkspaceOf[c] THEN 1 ELSE 0)
    <3>1. wsConn'[v][w].n =
            IF v = u /\ w = WorkspaceOf[c] THEN Less(wsConn[v][w].n) ELSE wsConn[v][w].n
      BY DisconnectCounters
    <3>2. wsConn[v][w].n \in Nat
      BY Zeros
    <3>3. ASSUME v = u, w = WorkspaceOf[c] PROVE wsConn[v][w].n > 0
      <4>1. c \in OfWorkspace(w) /\ live[v][c] # 0
        BY <3>3 DEF OfWorkspace, Leaves
      <4> QED
        BY <3>2, <4>1, Zeros
    <3> QED
      BY <3>1, <3>2, <3>3, LessCounts
  <2>2. wsConn[v][w].n = Cardinality(Places(live[v], OfWorkspace(w)))
    BY DEF Counted
  <2>3. OfWorkspace(w) \in SUBSET Channels /\ (c \in OfWorkspace(w) <=> w = WorkspaceOf[c])
    BY DEF OfWorkspace
  <2> QED
    BY <1>3, <2>1, <2>2, <2>3
<1>5. ASSUME NEW v \in Users
      PROVE  hash'[v].count = Cardinality(Places(live'[v], Channels))
  <2>1. hash'[v].count = hash[v].count - (IF v = u THEN 1 ELSE 0)
    <3>1. hash'[v].count = IF v = u THEN Less(hash[v].count) ELSE hash[v].count
      BY DisconnectHash
    <3>2. hash[v].count \in Nat
      BY Zeros
    <3>3. ASSUME v = u PROVE hash[v].count > 0
      <4>1. Live(v)
        BY <3>3 DEF Live, Leaves
      <4> QED
        BY <3>2, <4>1, Zeros
    <3> QED
      BY <3>1, <3>2, <3>3, LessCounts
  <2>2. hash[v].count = Cardinality(Places(live[v], Channels))
    BY DEF Counted
  <2> QED
    BY <1>3, <2>1, <2>2
<1> QED
  BY <1>2, <1>4, <1>5 DEF Counted

\* And the sets lose the user where the last client was.
LEMMA LeaveListed ==
  ASSUME TypeOK, Gones, Counted, Listed, NEW u \in Users, NEW c \in Channels,
         disconnectScript(u, c), Leaves(u, c)
  PROVE  Listed'
<1> USE KeysTyped
<1>1. \A v \in Users : v # u => live'[v] = live[v]
  BY LiveTyped DEF Leaves
<1>2. ASSUME NEW v \in Users, NEW d \in Channels
      PROVE  live'[v][d] \in Nat /\ (live'[v][d] = 0 <=> ~(live'[v][d] > 0))
  <2>1. live'[v] \in [Channels -> Nat]
    BY LeavePlaces
  <2> QED
    BY <2>1
<1>3. ASSUME NEW d \in Channels, d # c PROVE live'[u][d] = live[u][d]
  BY <1>3, LiveTyped DEF Leaves
<1>4. live'[u][c] = live[u][c] - 1
  BY LiveTyped DEF Leaves
<1>5. online'.set = {v \in Users : Live(v)'}
  <2>1. \A v \in Users \ {u} : Live(v)' <=> Live(v)
    BY <1>1 DEF Live
  <2>2. Live(u)
    BY DEF Live, Leaves
  <2>3. online'.set = IF Less(hash[u].count) = 0 THEN online.set \ {u} ELSE online.set
    BY DisconnectSets
  <2>4. Less(hash[u].count) = 0 <=> ~Live(u)'
    <3>1. hash[u].count \in Nat /\ hash[u].count > 0
      BY <2>2, Zeros
    <3>2. hash[u].count = Cardinality(Places(live[u], Channels))
      BY Zeros
    <3>3. /\ Cardinality(Places(live'[u], Channels)) = hash[u].count - 1
          /\ Cardinality(Places(live'[u], Channels)) = 0 <=> \A d \in Channels : live'[u][d] = 0
      BY <3>2, LeavePlaces
    <3>4. Live(u)' <=> \E d \in Channels : live'[u][d] > 0
      BY DEF Live
    <3> QED
      BY <1>2, <3>1, <3>3, <3>4, LessCounts
  <2>5. online.set = {v \in Users : Live(v)}
    BY DEF Listed
  <2> QED
    BY <2>1, <2>2, <2>3, <2>4, <2>5
<1>6. ASSUME NEW w \in Workspaces
      PROVE  wsOnline'[w].set = {v \in Users : \E d \in OfWorkspace(w) : live'[v][d] > 0}
  <2>1. OfWorkspace(w) \in SUBSET Channels /\ (c \in OfWorkspace(w) <=> w = WorkspaceOf[c])
    BY DEF OfWorkspace
  <2>2. wsOnline'[w].set =
          IF w = WorkspaceOf[c] /\ wsConn[u][w].n <= 1
          THEN wsOnline[w].set \ {u} ELSE wsOnline[w].set
    BY DisconnectSets
  <2>3. wsOnline[w].set = {v \in Users : \E d \in OfWorkspace(w) : live[v][d] > 0}
    BY DEF Listed
  <2>4. CASE w = WorkspaceOf[c]
    <3>1. wsConn[u][w].n <= 1 <=> ~\E d \in OfWorkspace(w) : live'[u][d] > 0
      <4>1. wsConn[u][w].n \in Nat /\ wsConn[u][w].n = Cardinality(Places(live[u], OfWorkspace(w)))
        BY Zeros DEF Counted
      <4>2. wsConn[u][w].n # 0
        BY <2>1, <2>4, Zeros DEF Leaves
      <4>3. /\ Cardinality(Places(live'[u], OfWorkspace(w))) = wsConn[u][w].n - 1
            /\ Cardinality(Places(live'[u], OfWorkspace(w))) = 0
                 <=> \A d \in OfWorkspace(w) : live'[u][d] = 0
        BY <2>1, <2>4, <4>1, LeavePlaces
      <4> QED
        BY <1>2, <2>1, <4>1, <4>2, <4>3
    <3>2. \E d \in OfWorkspace(w) : live[u][d] > 0
      BY <2>1, <2>4 DEF Leaves
    <3> QED
      BY <1>1, <2>2, <2>3, <2>4, <3>1, <3>2
  <2>5. CASE w # WorkspaceOf[c]
    <3>1. \A v \in Users, d \in OfWorkspace(w) : live'[v][d] = live[v][d]
      BY <1>1, <1>3, <2>1, <2>5
    <3> QED
      BY <2>2, <2>3, <2>5, <3>1
  <2> QED
    BY <2>4, <2>5
<1>7. ASSUME NEW v \in Users
      PROVE  active'[v].set = {d \in Channels : live'[v][d] > 0}
  <2>1. active'[v].set =
          IF v = u /\ chConn[u][c].n <= 1 THEN active[v].set \ {c} ELSE active[v].set
    BY DisconnectSets
  <2>2. active[v].set = {d \in Channels : live[v][d] > 0}
    BY DEF Listed
  <2>3. chConn[u][c].n <= 1 <=> ~(live'[u][c] > 0)
    <3>1. live[u][c] \in Nat
      BY LiveTyped
    <3> QED
      BY <1>4, <3>1 DEF Counted
  <2> QED
    BY <1>1, <1>3, <2>1, <2>2, <2>3 DEF Leaves
<1> QED
  BY <1>5, <1>6, <1>7 DEF Listed
-----------------------------------------------------------------------------
(* Time passes.                                                            *)

\* A key that reaches its end loses its value; a key that is gone had none.
LEMMA AgeCounters ==
  ASSUME NEW k \in Counter, Unset(k)
  PROVE  LET a == Age(k, NoCounter)
         IN a \in Counter /\ Unset(a) /\ (a.n = k.n \/ (k.ttl = 1 /\ a.n = 0))
<1> DEFINE a == Age(k, NoCounter)
<1>1. k = [n |-> k.n, ttl |-> k.ttl] /\ k.n \in Int /\ k.ttl \in 0..Forever
  BY DEF Counter
<1>2. Forever \in Nat
  BY PresenceAssumption DEF Forever
<1>3. CASE k.ttl = Forever
  <2>1. a = k
    BY <1>3 DEF Age
  <2> QED
    BY <2>1
<1>4. CASE k.ttl # Forever /\ k.ttl <= 1
  <2>1. a = [n |-> 0, ttl |-> 0]
    BY <1>4 DEF Age, NoCounter, Gone
  <2>2. k.ttl = 0 \/ k.ttl = 1
    BY <1>1, <1>2, <1>4
  <2>3. k.ttl = 0 => k.n = 0
    BY DEF Unset, Gone
  <2> QED
    BY <1>2, <2>1, <2>2, <2>3 DEF Counter, Unset
<1>5. CASE k.ttl # Forever /\ ~(k.ttl <= 1)
  <2>1. a = [n |-> k.n, ttl |-> k.ttl - 1]
    BY <1>1, <1>5 DEF Age
  <2>2. k.ttl - 1 \in 0..Forever /\ k.ttl - 1 # 0
    BY <1>1, <1>2, <1>5
  <2> QED
    BY <1>1, <2>1, <2>2 DEF Counter, Unset, Gone
<1> QED
  BY <1>3, <1>4, <1>5

LEMMA AgeSets ==
  ASSUME NEW S, NEW k \in Set(S), Cleared(k)
  PROVE  LET a == Age(k, NoSet)
         IN a \in Set(S) /\ Cleared(a) /\ (a.set = k.set \/ (k.ttl = 1 /\ a.set = {}))
<1> DEFINE a == Age(k, NoSet)
<1>1. k = [set |-> k.set, ttl |-> k.ttl] /\ k.set \in SUBSET S /\ k.ttl \in 0..Forever
  BY DEF Set
<1>2. Forever \in Nat
  BY PresenceAssumption DEF Forever
<1>3. CASE k.ttl = Forever
  <2>1. a = k
    BY <1>3 DEF Age
  <2> QED
    BY <2>1
<1>4. CASE k.ttl # Forever /\ k.ttl <= 1
  <2>1. a = [set |-> {}, ttl |-> 0]
    BY <1>4 DEF Age, NoSet, Gone
  <2>2. k.ttl = 0 \/ k.ttl = 1
    BY <1>1, <1>2, <1>4
  <2>3. k.ttl = 0 => k.set = {}
    BY DEF Cleared, Gone
  <2> QED
    BY <1>2, <2>1, <2>2, <2>3 DEF Set, Cleared
<1>5. CASE k.ttl # Forever /\ ~(k.ttl <= 1)
  <2>1. a = [set |-> k.set, ttl |-> k.ttl - 1]
    BY <1>1, <1>5 DEF Age
  <2>2. k.ttl - 1 \in 0..Forever /\ k.ttl - 1 # 0
    BY <1>1, <1>2, <1>5
  <2> QED
    BY <1>1, <2>1, <2>2 DEF Set, Cleared, Gone
<1> QED
  BY <1>3, <1>4, <1>5

LEMMA AgeHashes ==
  ASSUME NEW k \in Hash, k.ttl = Gone => k.count = 0
  PROVE  LET a == Age(k, NoHash)
         IN /\ a \in Hash /\ (a.ttl = Gone => a.count = 0)
            /\ \/ a.count = k.count /\ (k.count = 0 \/ a.status = k.status)
               \/ k.ttl = 1 /\ a.count = 0
<1> DEFINE a == Age(k, NoHash)
<1>1. k = [count |-> k.count, status |-> k.status, ttl |-> k.ttl]
  BY DEF Hash
<1>2. k.count \in Nat /\ k.status \in Statuses \cup {""}
  BY DEF Hash
<1>3. k.ttl \in 0..Forever
  BY DEF Hash
<1>4. Forever \in Nat
  BY PresenceAssumption DEF Forever
<1>5. CASE k.ttl = Forever
  <2>1. a = k
    BY <1>5 DEF Age
  <2> QED
    BY <2>1
<1>6. CASE k.ttl # Forever /\ k.ttl <= 1
  <2>1. a = [count |-> 0, status |-> "", ttl |-> 0]
    BY <1>6 DEF Age, NoHash, Gone
  <2> HIDE DEF a
  <2>2. a.count = 0 /\ a.ttl = 0
    BY <2>1
  <2>3. k.ttl = 0 \/ k.ttl = 1
    BY <1>3, <1>4, <1>6
  <2>4. k.ttl = 0 => k.count = 0
    BY DEF Gone
  <2>5. a \in Hash
    <3>1. 0 \in 0..Forever /\ 0 \in Nat
      BY <1>4
    <3> QED
      BY <2>1, <3>1, Zenon DEF Hash
  <2>6. /\ a \in Hash /\ (a.ttl = Gone => a.count = 0)
        /\ \/ a.count = k.count /\ (k.count = 0 \/ a.status = k.status)
           \/ k.ttl = 1 /\ a.count = 0
    BY <2>2, <2>3, <2>4, <2>5
  <2> QED
    BY <2>6 DEF a
<1>7. CASE k.ttl # Forever /\ ~(k.ttl <= 1)
  <2>1. a = [count |-> k.count, status |-> k.status, ttl |-> k.ttl - 1]
    BY <1>1, <1>7 DEF Age
  <2> HIDE DEF a
  <2>2. a.count = k.count /\ a.status = k.status /\ a.ttl = k.ttl - 1
    BY <2>1
  <2>3. k.ttl - 1 \in 0..Forever /\ k.ttl - 1 # 0
    BY <1>3, <1>4, <1>7
  <2>4. a \in Hash
    BY <1>2, <2>1, <2>3, Zenon DEF Hash
  <2>5. /\ a \in Hash /\ (a.ttl = Gone => a.count = 0)
        /\ \/ a.count = k.count /\ (k.count = 0 \/ a.status = k.status)
           \/ k.ttl = 1 /\ a.count = 0
    BY <2>2, <2>3, <2>4 DEF Gone
  <2> QED
    BY <2>5 DEF a
<1> QED
  BY <1>5, <1>6, <1>7
\* What a tick leaves at the keys.
LEMMA TickKeys ==
  ASSUME KeysOK, Gones, Tick
  PROVE  /\ KeysOK' /\ Gones'
         /\ \A u \in Users, w \in Workspaces :
              wsConn'[u][w].n = wsConn[u][w].n \/ (wsConn[u][w].ttl = 1 /\ wsConn'[u][w].n = 0)
         /\ \A u \in Users, c \in Channels :
              chConn'[u][c].n = chConn[u][c].n \/ (chConn[u][c].ttl = 1 /\ chConn'[u][c].n = 0)
         /\ \A u \in Users :
              \/ hash'[u].count = hash[u].count
                 /\ (hash[u].count = 0 \/ hash'[u].status = hash[u].status)
              \/ hash[u].ttl = 1 /\ hash'[u].count = 0
         /\ online'.set = online.set \/ (online.ttl = 1 /\ online'.set = {})
         /\ \A w \in Workspaces :
              wsOnline'[w].set = wsOnline[w].set \/ (wsOnline[w].ttl = 1 /\ wsOnline'[w].set = {})
         /\ \A u \in Users :
              active'[u].set = active[u].set \/ (active[u].ttl = 1 /\ active'[u].set = {})
<1>1. ASSUME NEW u \in Users, NEW w \in Workspaces
      PROVE  /\ wsConn'[u][w] = Age(wsConn[u][w], NoCounter)
             /\ wsConn'[u][w] \in Counter /\ Unset(wsConn'[u][w])
             /\ \/ wsConn'[u][w].n = wsConn[u][w].n
                \/ wsConn[u][w].ttl = 1 /\ wsConn'[u][w].n = 0
  <2>1. wsConn'[u][w] = Age(wsConn[u][w], NoCounter)
    BY DEF Tick
  <2>2. PICK k : k = wsConn[u][w]
    OBVIOUS
  <2>3. k \in Counter /\ Unset(k)
    BY <2>2 DEF KeysOK, Gones, Unset
  <2> QED
    BY <2>1, <2>2, <2>3, AgeCounters
<1>2. ASSUME NEW u \in Users, NEW c \in Channels
      PROVE  /\ chConn'[u][c] = Age(chConn[u][c], NoCounter)
             /\ chConn'[u][c] \in Counter /\ Unset(chConn'[u][c])
             /\ \/ chConn'[u][c].n = chConn[u][c].n
                \/ chConn[u][c].ttl = 1 /\ chConn'[u][c].n = 0
  <2>1. chConn'[u][c] = Age(chConn[u][c], NoCounter)
    BY DEF Tick
  <2>2. PICK k : k = chConn[u][c]
    OBVIOUS
  <2>3. k \in Counter /\ Unset(k)
    BY <2>2 DEF KeysOK, Gones, Unset
  <2> QED
    BY <2>1, <2>2, <2>3, AgeCounters
<1>3. ASSUME NEW u \in Users
      PROVE  /\ hash'[u] \in Hash /\ (hash'[u].ttl = Gone => hash'[u].count = 0)
             /\ \/ hash'[u].count = hash[u].count
                   /\ (hash[u].count = 0 \/ hash'[u].status = hash[u].status)
                \/ hash[u].ttl = 1 /\ hash'[u].count = 0
  <2>1. hash'[u] = Age(hash[u], NoHash)
    BY DEF Tick
  <2>2. PICK k : k = hash[u]
    OBVIOUS
  <2>3. k \in Hash /\ (k.ttl = Gone => k.count = 0)
    BY <2>2 DEF KeysOK, Gones
  <2> QED
    BY <2>1, <2>2, <2>3, AgeHashes
<1>4. /\ online' \in Set(Users) /\ Cleared(online')
      /\ online'.set = online.set \/ (online.ttl = 1 /\ online'.set = {})
  <2>1. online' = Age(online, NoSet)
    BY DEF Tick
  <2>2. PICK k : k = online
    OBVIOUS
  <2>3. k \in Set(Users) /\ Cleared(k)
    BY <2>2 DEF KeysOK, Gones, Cleared
  <2>4. Age(k, NoSet) \in Set(Users) /\ Cleared(Age(k, NoSet))
        /\ (Age(k, NoSet).set = k.set \/ (k.ttl = 1 /\ Age(k, NoSet).set = {}))
    BY <2>3, AgeSets
  <2> QED
    BY <2>1, <2>2, <2>4
<1>5. ASSUME NEW w \in Workspaces
      PROVE  /\ wsOnline'[w] \in Set(Users) /\ Cleared(wsOnline'[w])
             /\ \/ wsOnline'[w].set = wsOnline[w].set
                \/ wsOnline[w].ttl = 1 /\ wsOnline'[w].set = {}
  <2>1. wsOnline'[w] = Age(wsOnline[w], NoSet)
    BY DEF Tick
  <2>2. PICK k : k = wsOnline[w]
    OBVIOUS
  <2>3. k \in Set(Users) /\ Cleared(k)
    BY <2>2 DEF KeysOK, Gones, Cleared
  <2>4. Age(k, NoSet) \in Set(Users) /\ Cleared(Age(k, NoSet))
        /\ (Age(k, NoSet).set = k.set \/ (k.ttl = 1 /\ Age(k, NoSet).set = {}))
    BY <2>3, AgeSets
  <2> QED
    BY <2>1, <2>2, <2>4
<1>6. ASSUME NEW u \in Users
      PROVE  /\ active'[u] \in Set(Channels) /\ Cleared(active'[u])
             /\ \/ active'[u].set = active[u].set
                \/ active[u].ttl = 1 /\ active'[u].set = {}
  <2>1. active'[u] = Age(active[u], NoSet)
    BY DEF Tick
  <2>2. PICK k : k = active[u]
    OBVIOUS
  <2>3. k \in Set(Channels) /\ Cleared(k)
    BY <2>2 DEF KeysOK, Gones, Cleared
  <2>4. Age(k, NoSet) \in Set(Channels) /\ Cleared(Age(k, NoSet))
        /\ (Age(k, NoSet).set = k.set \/ (k.ttl = 1 /\ Age(k, NoSet).set = {}))
    BY <2>3, AgeSets
  <2> QED
    BY <2>1, <2>2, <2>4
<1>7. wsConn' \in [Users -> [Workspaces -> Counter]]
  BY <1>1 DEF Tick
<1>8. chConn' \in [Users -> [Channels -> Counter]]
  BY <1>2 DEF Tick
<1>9. hash' \in [Users -> Hash]
  BY <1>3 DEF Tick
<1>10. wsOnline' \in [Workspaces -> Set(Users)]
  BY <1>5 DEF Tick
<1>11. active' \in [Users -> Set(Channels)]
  BY <1>6 DEF Tick
<1>12. KeysOK'
  BY <1>4, <1>7, <1>8, <1>9, <1>10, <1>11 DEF KeysOK
<1>13. Gones'
  BY <1>1, <1>2, <1>3, <1>4, <1>5, <1>6 DEF Gones, Unset, Cleared
<1> QED
  BY <1>1, <1>2, <1>3, <1>4, <1>5, <1>6, <1>12, <1>13

\* A key that counts somebody does not expire without a fault.
LEMMA TickFaithful ==
  ASSUME TypeOK, Gones, Counted, Listed, Tick, ~LosesLive
  PROVE  /\ Counted' /\ Listed'
         /\ \A u \in Users :
              /\ hash'[u].count = hash[u].count
              /\ hash[u].count = 0 \/ hash'[u].status = hash[u].status
<1>1. KeysOK /\ live' = live
  BY KeysTyped DEF Tick
<1>2. ASSUME NEW u \in Users, NEW c \in Channels PROVE chConn'[u][c].n = chConn[u][c].n
  <2>1. chConn'[u][c].n = chConn[u][c].n \/ (chConn[u][c].ttl = 1 /\ chConn'[u][c].n = 0)
    BY <1>1, TickKeys
  <2>2. CASE live[u][c] > 0
    <3>1. Live(u)
      BY <2>2 DEF Live
    <3>2. chConn[u][c].ttl # 1
      BY <2>2, <3>1 DEF LosesLive
    <3> QED
      BY <2>1, <3>2
  <2>3. CASE ~(live[u][c] > 0)
    <3>1. live[u][c] \in Nat
      BY LiveTyped
    <3>2. chConn[u][c].n = 0
      BY <2>3, <3>1 DEF Counted
    <3> QED
      BY <2>1, <3>2
  <2> QED
    BY <2>2, <2>3
<1>3. ASSUME NEW u \in Users, NEW w \in Workspaces PROVE wsConn'[u][w].n = wsConn[u][w].n
  <2>1. wsConn'[u][w].n = wsConn[u][w].n \/ (wsConn[u][w].ttl = 1 /\ wsConn'[u][w].n = 0)
    BY <1>1, TickKeys
  <2>2. CASE \E c \in OfWorkspace(w) : live[u][c] # 0
    <3>1. PICK c \in Channels : WorkspaceOf[c] = w /\ live[u][c] # 0
      BY <2>2 DEF OfWorkspace
    <3>2. live[u][c] > 0
      BY <3>1, LiveTyped
    <3>3. Live(u)
      BY <3>2 DEF Live
    <3>4. wsConn[u][w].ttl # 1
      BY <3>1, <3>2, <3>3 DEF LosesLive
    <3> QED
      BY <2>1, <3>4
  <2>3. CASE ~\E c \in OfWorkspace(w) : live[u][c] # 0
    <3>1. wsConn[u][w].n = 0
      BY <2>3, Zeros
    <3> QED
      BY <2>1, <3>1
  <2> QED
    BY <2>2, <2>3
<1>4. ASSUME NEW u \in Users
      PROVE  /\ hash'[u].count = hash[u].count
             /\ hash[u].count = 0 \/ hash'[u].status = hash[u].status
  <2>1. \/ hash'[u].count = hash[u].count
           /\ (hash[u].count = 0 \/ hash'[u].status = hash[u].status)
        \/ hash[u].ttl = 1 /\ hash'[u].count = 0
    BY <1>1, TickKeys
  <2>2. Live(u) => hash[u].ttl # 1
    BY DEF LosesLive
  <2>3. ~Live(u) => hash[u].count = 0
    BY Zeros
  <2> QED
    BY <2>1, <2>2, <2>3
<1>5. online'.set = online.set
  <2>1. online'.set = online.set \/ (online.ttl = 1 /\ online'.set = {})
    BY <1>1, TickKeys
  <2>2. \A u \in Users : Live(u) => online.ttl # 1
    BY DEF LosesLive
  <2>3. online.set = {u \in Users : Live(u)}
    BY DEF Listed
  <2> QED
    BY <2>1, <2>2, <2>3
<1>6. ASSUME NEW w \in Workspaces PROVE wsOnline'[w].set = wsOnline[w].set
  <2>1. wsOnline'[w].set = wsOnline[w].set \/ (wsOnline[w].ttl = 1 /\ wsOnline'[w].set = {})
    BY <1>1, TickKeys
  <2>2. wsOnline[w].set = {u \in Users : \E c \in OfWorkspace(w) : live[u][c] > 0}
    BY DEF Listed
  <2>3. ASSUME NEW u \in Users, NEW c \in OfWorkspace(w), live[u][c] > 0
        PROVE  wsOnline[w].ttl # 1
    <3>1. c \in Channels /\ WorkspaceOf[c] = w
      BY DEF OfWorkspace
    <3>2. Live(u)
      BY <2>3, <3>1 DEF Live
    <3> QED
      BY <2>3, <3>1, <3>2 DEF LosesLive
  <2> QED
    BY <2>1, <2>2, <2>3
<1>7. ASSUME NEW u \in Users PROVE active'[u].set = active[u].set
  <2>1. active'[u].set = active[u].set \/ (active[u].ttl = 1 /\ active'[u].set = {})
    BY <1>1, TickKeys
  <2>2. active[u].set = {c \in Channels : live[u][c] > 0}
    BY DEF Listed
  <2>3. ASSUME NEW c \in Channels, live[u][c] > 0 PROVE active[u].ttl # 1
    <3>1. Live(u)
      BY <2>3 DEF Live
    <3> QED
      BY <3>1 DEF LosesLive
  <2> QED
    BY <2>1, <2>2, <2>3
<1>8. Counted'
  BY <1>1, <1>2, <1>3, <1>4 DEF Counted
<1>9. Listed'
  BY <1>1, <1>5, <1>6, <1>7 DEF Listed, Live
<1> QED
  BY <1>4, <1>8, <1>9
-----------------------------------------------------------------------------
(* Heartbeats and statuses.                                                *)

\* HSET and EXPIRE: the key lives on, its count is kept.
LEMMA HashKept ==
  ASSUME NEW k \in Hash
  PROVE  LET a == Expire(HSet(k))
         IN a \in Hash /\ a.ttl # Gone /\ a.count = k.count /\ a.status = k.status
<1> DEFINE a == Expire(HSet(k))
<1>1. k = [count |-> k.count, status |-> k.status, ttl |-> k.ttl]
  BY DEF Hash
<1>2. k.count \in Nat /\ k.status \in Statuses \cup {""}
  BY DEF Hash
<1>3. TTL \in 0..Forever /\ TTL # 0 /\ Forever # 0
  BY PresenceAssumption DEF Forever
<1>4. PICK t : t # Gone /\ HSet(k) = [count |-> k.count, status |-> k.status, ttl |-> t]
  <2>1. CASE k.ttl = Gone
    <3>1. HSet(k) = [count |-> k.count, status |-> k.status, ttl |-> Forever]
      BY <1>1, <2>1 DEF HSet
    <3> QED
      BY <1>3, <3>1 DEF Gone
  <2>2. CASE k.ttl # Gone
    <3>1. HSet(k) = [count |-> k.count, status |-> k.status, ttl |-> k.ttl]
      BY <1>1, <2>2 DEF HSet
    <3> QED
      BY <2>2, <3>1
  <2> QED
    BY <2>1, <2>2
<1>5. a = [count |-> k.count, status |-> k.status, ttl |-> TTL]
  BY <1>4 DEF Expire
<1> HIDE DEF a
<1>6. a.count = k.count /\ a.status = k.status /\ a.ttl = TTL
  BY <1>5
<1>7. a \in Hash
  BY <1>2, <1>3, <1>5, Zenon DEF Hash
<1>8. a \in Hash /\ a.ttl # Gone /\ a.count = k.count /\ a.status = k.status
  BY <1>3, <1>6, <1>7 DEF Gone
<1> QED
  BY <1>8 DEF a

\* What writing one user's hash leaves.
LEMMA HashWritten ==
  ASSUME KeysOK, Gones, NEW u \in Users, NEW k \in Hash, k.count = hash[u].count,
         hash' = [hash EXCEPT ![u] = Expire(HSet(k))]
  PROVE  /\ hash' \in [Users -> Hash]
         /\ \A v \in Users :
              /\ hash'[v].ttl = Gone => hash'[v].count = 0
              /\ hash'[v].count = hash[v].count
              /\ hash'[v].status = IF v = u THEN k.status ELSE hash[v].status
<1>1. PICK a : a = Expire(HSet(k))
  OBVIOUS
<1>2. a \in Hash /\ a.ttl # Gone /\ a.count = k.count /\ a.status = k.status
  BY <1>1, HashKept
<1>3. hash \in [Users -> Hash]
  BY DEF KeysOK
<1>4. hash' = [hash EXCEPT ![u] = a]
  BY <1>1
<1>5. hash' \in [Users -> Hash]
  BY <1>2, <1>3, <1>4
<1>6. ASSUME NEW v \in Users
      PROVE  /\ hash'[v].ttl = Gone => hash'[v].count = 0
             /\ hash'[v].count = hash[v].count
             /\ hash'[v].status = IF v = u THEN k.status ELSE hash[v].status
  <2>1. CASE v = u
    <3>1. hash'[v] = a
      BY <1>3, <1>4, <2>1
    <3> QED
      BY <1>2, <2>1, <3>1
  <2>2. CASE v # u
    <3>1. hash'[v] = hash[v]
      BY <1>3, <1>4, <2>2
    <3> QED
      BY <2>2, <3>1 DEF Gones
  <2> QED
    BY <2>1, <2>2
<1> QED
  BY <1>5, <1>6
-----------------------------------------------------------------------------
(* The invariant is kept.                                                  *)

OthersOK ==
  /\ live \in [Users -> [Channels -> 0..MaxLive]]
  /\ pinged \subseteq Users
  /\ setting \in [Users -> Statuses \cup {"none"}]
  /\ told \in [Users -> {"online", "offline"}]
  /\ ops \in 0..MaxOps /\ lost \in BOOLEAN

LEMMA OthersTyped == TypeOK => OthersOK
BY DEF TypeOK, OthersOK

\* An operation that counts keeps the count in its bound.
LEMMA OpTyped == TypeOK /\ Op => ops' \in 0..MaxOps
<1> SUFFICES ASSUME ops \in 0..MaxOps, ops < MaxOps, ops' = ops + 1 PROVE ops' \in 0..MaxOps
  BY DEF TypeOK, Op
<1> QED
  BY PresenceAssumption

LEMMA InitPInv == Init => PInv
<1> SUFFICES ASSUME Init PROVE PInv
  OBVIOUS
<1>1. 0 \in 0..Forever /\ 0 \in 0..MaxLive /\ 0 \in 0..MaxOps
  BY PresenceAssumption DEF Forever
<1>2. NoCounter \in Counter
  BY <1>1 DEF NoCounter, Counter, Gone
<1>3. NoSet \in Set(Users) /\ NoSet \in Set(Channels)
  BY <1>1 DEF NoSet, Set, Gone
<1>4. NoHash \in Hash
  BY <1>1, Zenon DEF NoHash, Hash, Gone, Statuses
<1>5. KeysOK
  BY <1>2, <1>3, <1>4 DEF Init, KeysOK
<1>6. OthersOK
  BY <1>1 DEF Init, OthersOK, Statuses
<1>7. TypeOK
  BY <1>5, <1>6 DEF TypeOK, KeysOK, OthersOK, Hash
<1>8. Gones
  BY DEF Init, Gones, NoCounter, NoSet, NoHash
<1>9. ASSUME NEW u \in Users, NEW C \in SUBSET Channels
      PROVE  Cardinality(Places(live[u], C)) = 0
  <2>1. PICK f \in [Channels -> Nat] : f = live[u]
    BY <1>7, LiveTyped
  <2>2. \A c \in C : f[c] = 0
    BY <2>1 DEF Init
  <2> QED
    BY <2>1, <2>2, PlacesNone
<1>10. Counted
  <2>1. \A w \in Workspaces : OfWorkspace(w) \in SUBSET Channels
    BY DEF OfWorkspace
  <2> QED
    BY <1>9, <2>1 DEF Init, Counted, NoCounter, NoHash
<1>11. Listed
  <2>1. \A u \in Users, c \in Channels : ~(live[u][c] > 0)
    BY DEF Init
  <2>2. online.set = {} /\ (\A w \in Workspaces : wsOnline[w].set = {})
        /\ \A u \in Users : active[u].set = {}
    BY DEF Init, NoSet
  <2> QED
    BY <2>1, <2>2 DEF Listed, Live, OfWorkspace
<1> QED
  BY <1>7, <1>8, <1>10, <1>11 DEF PInv, Faithful

LEMMA ConnectPInv ==
  ASSUME PInv, NEW u \in Users, NEW c \in Channels, Connect(u, c)
  PROVE  PInv'
<1>1. TypeOK /\ KeysOK /\ Gones /\ Faithful
  BY KeysTyped DEF PInv
<1>2. OthersOK'
  <2>1. live[u][c] + 1 \in 0..MaxLive
    <3>1. live[u][c] \in 0..MaxLive
      BY <1>1, OthersTyped DEF OthersOK
    <3>2. live[u][c] < MaxLive
      BY DEF Connect
    <3> QED
      BY <3>1, <3>2, PresenceAssumption
  <2>2. live' \in [Users -> [Channels -> 0..MaxLive]]
    BY <1>1, <2>1, OthersTyped DEF Connect, OthersOK
  <2>3. ops' \in 0..MaxOps
    BY <1>1, OpTyped DEF Connect
  <2>4. told' \in [Users -> {"online", "offline"}]
    BY <1>1 DEF Connect, TypeOK
  <2> QED
    BY <1>1, <2>2, <2>3, <2>4 DEF Connect, TypeOK, OthersOK
<1>3. CASE connectScript(u, c) /\ lost' = lost
  <2>1. KeysOK'
    BY <1>1, <1>3, ConnectCounters, ConnectHash, ConnectSets DEF KeysOK
  <2>2. Gones'
    <3>1. /\ \A v \in Users, w \in Workspaces : wsConn'[v][w].ttl = Gone => wsConn'[v][w].n = 0
          /\ \A v \in Users, d \in Channels : chConn'[v][d].ttl = Gone => chConn'[v][d].n = 0
      BY <1>1, <1>3, ConnectCounters
    <3>2. \A v \in Users : hash'[v].ttl = Gone => hash'[v].count = 0
      BY <1>1, <1>3, ConnectHash
    <3>3. /\ online'.ttl = Gone => online'.set = {}
          /\ \A w \in Workspaces : wsOnline'[w].ttl = Gone => wsOnline'[w].set = {}
          /\ \A v \in Users : active'[v].ttl = Gone => active'[v].set = {}
      BY <1>1, <1>3, ConnectSets
    <3> QED
      BY <3>1, <3>2, <3>3 DEF Gones
  <2>3. live' = [live EXCEPT ![u][c] = @ + 1]
    BY DEF Connect
  <2>4. ASSUME ~lost PROVE Counted' /\ Listed'
    BY <1>1, <1>3, <2>3, <2>4, JoinCounted, JoinListed DEF Faithful
  <2>5. TypeOK'
    BY <1>2, <2>1 DEF TypeOK, KeysOK, OthersOK, Hash
  <2> QED
    BY <1>3, <2>2, <2>4, <2>5 DEF PInv, Faithful
<1>4. CASE lost' /\ UNCHANGED keys
  <2>1. KeysOK' /\ Gones'
    BY <1>1, <1>4 DEF KeysOK, Gones, keys
  <2>2. TypeOK'
    BY <1>2, <2>1 DEF TypeOK, KeysOK, OthersOK, Hash
  <2> QED
    BY <1>4, <2>1, <2>2 DEF PInv, Faithful
<1> QED
  BY <1>3, <1>4 DEF Connect

LEMMA DisconnectPInv ==
  ASSUME PInv, NEW u \in Users, NEW c \in Channels, Disconnect(u, c)
  PROVE  PInv'
<1>1. TypeOK /\ KeysOK /\ Gones /\ Faithful
  BY KeysTyped DEF PInv
<1>2. OthersOK'
  <2>1. live[u][c] - 1 \in 0..MaxLive
    <3>1. live[u][c] \in 0..MaxLive
      BY <1>1, OthersTyped DEF OthersOK
    <3>2. live[u][c] > 0
      BY DEF Disconnect
    <3> QED
      BY <3>1, <3>2, PresenceAssumption
  <2>2. live' \in [Users -> [Channels -> 0..MaxLive]]
    BY <1>1, <2>1, OthersTyped DEF Disconnect, OthersOK
  <2>3. told' \in [Users -> {"online", "offline"}]
    BY <1>1 DEF Disconnect, TypeOK
  <2> QED
    BY <1>1, <2>2, <2>3 DEF Disconnect, TypeOK, OthersOK
<1>3. CASE disconnectScript(u, c) /\ lost' = lost
  <2>1. KeysOK'
    BY <1>1, <1>3, DisconnectCounters, DisconnectHash, DisconnectSets DEF KeysOK
  <2>2. Gones'
    <3>1. /\ \A v \in Users, w \in Workspaces : wsConn'[v][w].ttl = Gone => wsConn'[v][w].n = 0
          /\ \A v \in Users, d \in Channels : chConn'[v][d].ttl = Gone => chConn'[v][d].n = 0
      BY <1>1, <1>3, DisconnectCounters
    <3>2. \A v \in Users : hash'[v].ttl = Gone => hash'[v].count = 0
      BY <1>1, <1>3, DisconnectHash
    <3>3. /\ online'.ttl = Gone => online'.set = {}
          /\ \A w \in Workspaces : wsOnline'[w].ttl = Gone => wsOnline'[w].set = {}
          /\ \A v \in Users : active'[v].ttl = Gone => active'[v].set = {}
      BY <1>1, <1>3, DisconnectSets
    <3> QED
      BY <3>1, <3>2, <3>3 DEF Gones
  <2>3. Leaves(u, c)
    BY DEF Disconnect, Leaves
  <2>4. ASSUME ~lost PROVE Counted' /\ Listed'
    BY <1>1, <1>3, <2>3, <2>4, LeaveCounted, LeaveListed DEF Faithful
  <2>5. TypeOK'
    BY <1>2, <2>1 DEF TypeOK, KeysOK, OthersOK, Hash
  <2> QED
    BY <1>3, <2>2, <2>4, <2>5 DEF PInv, Faithful
<1>4. CASE lost' /\ UNCHANGED keys
  <2>1. KeysOK' /\ Gones'
    BY <1>1, <1>4 DEF KeysOK, Gones, keys
  <2>2. TypeOK'
    BY <1>2, <2>1 DEF TypeOK, KeysOK, OthersOK, Hash
  <2> QED
    BY <1>4, <2>1, <2>2 DEF PInv, Faithful
<1> QED
  BY <1>3, <1>4 DEF Disconnect

LEMMA CrashPInv ==
  ASSUME PInv, NEW u \in Users, Crash(u)
  PROVE  PInv'
<1>1. TypeOK /\ KeysOK /\ Gones
  BY KeysTyped DEF PInv
<1>2. KeysOK' /\ Gones'
  BY <1>1 DEF KeysOK, Gones, Crash, keys
<1>3. OthersOK'
  <2>1. ops' \in 0..MaxOps
    BY <1>1, OpTyped DEF Crash
  <2>2. live' \in [Users -> [Channels -> 0..MaxLive]]
    <3>1. [c \in Channels |-> 0] \in [Channels -> 0..MaxLive]
      BY PresenceAssumption
    <3> QED
      BY <1>1, <3>1 DEF Crash, TypeOK
  <2> QED
    BY <1>1, <2>1, <2>2 DEF Crash, TypeOK, OthersOK
<1>4. TypeOK'
  BY <1>2, <1>3 DEF TypeOK, KeysOK, OthersOK, Hash
<1> QED
  BY <1>2, <1>4 DEF PInv, Faithful, Crash
\* What changes neither a value nor a client keeps the values exact.
LEMMA ValuesKept ==
  ASSUME live' = live,
         \A u \in Users, w \in Workspaces : wsConn'[u][w].n = wsConn[u][w].n,
         \A u \in Users, c \in Channels : chConn'[u][c].n = chConn[u][c].n,
         \A u \in Users : hash'[u].count = hash[u].count,
         online'.set = online.set,
         \A w \in Workspaces : wsOnline'[w].set = wsOnline[w].set,
         \A u \in Users : active'[u].set = active[u].set
  PROVE  Counted /\ Listed => Counted' /\ Listed'
BY DEF Counted, Listed, Live

LEMMA TouchKeys ==
  ASSUME PInv, NEW u \in Users, Touch(u)
  PROVE  /\ KeysOK' /\ Gones'
         /\ \A v \in Users : /\ hash'[v].count = hash[v].count
                             /\ hash'[v].status = hash[v].status
                             /\ active'[v].set = active[v].set
         /\ online'.set = online.set
<1>1. KeysOK /\ Gones
  BY KeysTyped DEF PInv
<1>2. CASE /\ hash' = [hash EXCEPT ![u] = Expire(HSet(@))]
           /\ online' = Expire(online)
           /\ active' = [active EXCEPT ![u] = Expire(@)]
  <2>1. PICK k : k = hash[u]
    OBVIOUS
  <2>2. k \in Hash /\ hash' = [hash EXCEPT ![u] = Expire(HSet(k))]
    BY <1>1, <1>2, <2>1 DEF KeysOK
  <2>3. /\ hash' \in [Users -> Hash]
        /\ \A v \in Users :
             /\ hash'[v].ttl = Gone => hash'[v].count = 0
             /\ hash'[v].count = hash[v].count
             /\ hash'[v].status = hash[v].status
    BY <1>1, <2>1, <2>2, HashWritten
  <2>4. /\ online' \in Set(Users) /\ online'.set = online.set
        /\ online'.ttl = Gone => online'.set = {}
    <3>1. PICK o : o = online
      OBVIOUS
    <3>2. o \in Set(Users) /\ Cleared(o)
      BY <1>1, <3>1 DEF KeysOK, Gones, Cleared
    <3>3. Expire(o) \in Set(Users) /\ Expire(o).set = o.set /\ Cleared(Expire(o))
      BY <3>2, ExpireKeys
    <3> QED
      BY <1>2, <3>1, <3>3 DEF Cleared
  <2>5. PICK a : a = Expire(active[u])
    OBVIOUS
  <2>6. a \in Set(Channels) /\ a.set = active[u].set /\ Cleared(a)
    <3>1. PICK b : b = active[u]
      OBVIOUS
    <3>2. b \in Set(Channels) /\ Cleared(b)
      BY <1>1, <3>1 DEF KeysOK, Gones, Cleared
    <3> QED
      BY <2>5, <3>1, <3>2, ExpireKeys
  <2>7. active' = [active EXCEPT ![u] = a]
    BY <1>2, <2>5
  <2>8. active' \in [Users -> Set(Channels)]
    BY <1>1, <2>6, <2>7 DEF KeysOK
  <2>9. ASSUME NEW v \in Users
        PROVE  active'[v].set = active[v].set /\ (active'[v].ttl = Gone => active'[v].set = {})
    <3>1. CASE v = u
      <4>1. active'[v] = a
        BY <1>1, <2>7, <3>1 DEF KeysOK
      <4> QED
        BY <2>6, <3>1, <4>1 DEF Cleared
    <3>2. CASE v # u
      <4>1. active'[v] = active[v]
        BY <1>1, <2>7, <3>2 DEF KeysOK
      <4> QED
        BY <1>1, <4>1 DEF Gones
    <3> QED
      BY <3>1, <3>2
  <2>10. KeysOK'
    BY <1>1, <2>3, <2>4, <2>8 DEF KeysOK, Touch
  <2>11. Gones'
    BY <1>1, <2>3, <2>4, <2>9 DEF Gones, Touch
  <2> QED
    BY <2>3, <2>4, <2>9, <2>10, <2>11
<1>3. CASE UNCHANGED <<hash, online, active>>
  <2>1. KeysOK' /\ Gones'
    BY <1>1, <1>3 DEF KeysOK, Gones, Touch
  <2> QED
    BY <1>3, <2>1
<1> QED
  BY <1>2, <1>3 DEF Touch

LEMMA TouchPInv ==
  ASSUME PInv, NEW u \in Users, Touch(u)
  PROVE  PInv'
<1>1. TypeOK /\ Faithful /\ OthersOK
  BY OthersTyped DEF PInv
<1>2. KeysOK' /\ Gones'
  BY TouchKeys
<1>3. OthersOK'
  BY <1>1 DEF OthersOK, Touch
<1>4. ASSUME ~lost' PROVE Counted' /\ Listed'
  <2>1. ~lost
    BY <1>4 DEF Touch
  <2>2. live' = live /\ wsConn' = wsConn /\ chConn' = chConn /\ wsOnline' = wsOnline
    BY DEF Touch
  <2>3. /\ \A v \in Users : hash'[v].count = hash[v].count /\ active'[v].set = active[v].set
        /\ online'.set = online.set
    BY TouchKeys
  <2>4. Counted /\ Listed => Counted' /\ Listed'
    BY <2>2, <2>3, ValuesKept
  <2> QED
    BY <1>1, <2>1, <2>4 DEF Faithful
<1>5. TypeOK'
  BY <1>2, <1>3 DEF TypeOK, KeysOK, OthersOK, Hash
<1> QED
  BY <1>2, <1>4, <1>5 DEF PInv, Faithful

LEMMA SetStatusReadPInv ==
  ASSUME PInv, NEW u \in Users, NEW s \in Statuses, SetStatusRead(u, s)
  PROVE  PInv'
<1>1. TypeOK /\ KeysOK /\ OthersOK /\ Gones /\ Faithful
  BY KeysTyped, OthersTyped DEF PInv
<1>2. OthersOK'
  <2>1. ops' \in 0..MaxOps
    BY <1>1, OpTyped DEF SetStatusRead
  <2>2. setting' \in [Users -> Statuses \cup {"none"}]
    BY <1>1 DEF SetStatusRead, OthersOK, Statuses
  <2> QED
    BY <1>1, <2>1, <2>2 DEF OthersOK, SetStatusRead
<1>3. UNCHANGED <<keys, live, lost>>
  BY DEF SetStatusRead
<1>4. KeysOK' /\ Gones'
  BY <1>1, <1>3 DEF KeysOK, Gones, keys
<1>5. Counted /\ Listed => Counted' /\ Listed'
  BY <1>3, ValuesKept DEF keys
<1>6. TypeOK'
  BY <1>2, <1>4 DEF TypeOK, KeysOK, OthersOK, Hash
<1> QED
  BY <1>1, <1>3, <1>4, <1>5, <1>6 DEF PInv, Faithful

\* What SetStatus writes: the status alone.
LEMMA StatusWritten ==
  ASSUME PInv, NEW u \in Users, SetStatusWrite(u)
  PROVE  /\ setting[u] \in Statuses
         /\ hash' \in [Users -> Hash]
         /\ \A v \in Users :
              /\ hash'[v].ttl = Gone => hash'[v].count = 0
              /\ hash'[v].count = hash[v].count
              /\ hash'[v].status = IF v = u THEN setting[u] ELSE hash[v].status
<1>1. KeysOK /\ OthersOK /\ Gones
  BY KeysTyped, OthersTyped DEF PInv
<1>2. setting[u] \in Statuses
  BY <1>1 DEF SetStatusWrite, OthersOK
<1>3. PICK h : h = hash[u]
  OBVIOUS
<1>4. h \in Hash
  BY <1>1, <1>3 DEF KeysOK
<1>5. PICK s : s = setting[u]
  OBVIOUS
<1>6. PICK k : k = [h EXCEPT !.status = s]
  OBVIOUS
<1>7. k = [count |-> h.count, status |-> s, ttl |-> h.ttl]
  <2>1. h = [count |-> h.count, status |-> h.status, ttl |-> h.ttl]
    BY <1>4 DEF Hash
  <2> QED
    BY <1>6, <2>1
<1>8. k.count = h.count /\ k.status = s
  BY <1>7
<1>9. k \in Hash
  <2>1. h.count \in Nat /\ h.ttl \in 0..Forever
    BY <1>4 DEF Hash
  <2>2. s \in Statuses \cup {""}
    BY <1>2, <1>5
  <2> QED
    BY <1>7, <2>1, <2>2, Zenon DEF Hash
<1>10. hash' = [hash EXCEPT ![u] = Expire(HSet(k))]
  BY <1>3, <1>5, <1>6 DEF SetStatusWrite
<1>11. k.count = hash[u].count
  BY <1>3, <1>8
<1> QED
  BY <1>1, <1>2, <1>5, <1>8, <1>9, <1>10, <1>11, HashWritten

LEMMA SetStatusWritePInv ==
  ASSUME PInv, NEW u \in Users, SetStatusWrite(u)
  PROVE  PInv'
<1>1. TypeOK /\ KeysOK /\ OthersOK /\ Gones /\ Faithful
  BY KeysTyped, OthersTyped DEF PInv
<1>2. UNCHANGED <<wsConn, chConn, online, wsOnline, active, live, pinged, told, ops>>
  BY DEF SetStatusWrite
<1>3. KeysOK' /\ Gones'
  BY <1>1, <1>2, StatusWritten DEF KeysOK, Gones
<1>4. OthersOK'
  <2>1. setting' \in [Users -> Statuses \cup {"none"}]
    BY <1>1 DEF SetStatusWrite, OthersOK
  <2>2. lost' \in BOOLEAN
    BY DEF SetStatusWrite
  <2> QED
    BY <1>1, <1>2, <2>1, <2>2 DEF OthersOK
<1>5. Counted /\ Listed => Counted' /\ Listed'
  BY <1>2, StatusWritten, ValuesKept
<1>6. lost => lost'
  BY DEF SetStatusWrite
<1>7. TypeOK'
  BY <1>3, <1>4 DEF TypeOK, KeysOK, OthersOK, Hash
<1> QED
  BY <1>1, <1>3, <1>5, <1>6, <1>7 DEF PInv, Faithful

LEMMA TickPInv ==
  ASSUME PInv, Tick
  PROVE  PInv'
<1>1. TypeOK /\ KeysOK /\ OthersOK /\ Gones /\ Faithful
  BY KeysTyped, OthersTyped DEF PInv
<1>2. KeysOK' /\ Gones'
  BY <1>1, TickKeys
<1>3. OthersOK'
  <2>1. lost' \in BOOLEAN
    BY DEF Tick
  <2> QED
    BY <1>1, <2>1 DEF OthersOK, Tick
<1>4. ASSUME ~lost' PROVE Counted' /\ Listed'
  <2>1. ~lost /\ ~LosesLive
    BY <1>4 DEF Tick
  <2> QED
    BY <1>1, <2>1, TickFaithful DEF Faithful
<1>5. TypeOK'
  BY <1>2, <1>3 DEF TypeOK, KeysOK, OthersOK, Hash
<1> QED
  BY <1>2, <1>4, <1>5 DEF PInv, Faithful

LEMMA StepPInv == PInv /\ [Next]_vars => PInv'
<1> SUFFICES ASSUME PInv, [Next]_vars PROVE PInv'
  OBVIOUS
<1>1. ASSUME NEW u \in Users, NEW c \in Channels, Connect(u, c) PROVE PInv'
  BY <1>1, ConnectPInv
<1>2. ASSUME NEW u \in Users, NEW c \in Channels, Disconnect(u, c) PROVE PInv'
  BY <1>2, DisconnectPInv
<1>3. ASSUME NEW u \in Users, NEW s \in Statuses, SetStatusRead(u, s) PROVE PInv'
  BY <1>3, SetStatusReadPInv
<1>4. ASSUME NEW u \in Users, SetStatusWrite(u) PROVE PInv'
  BY <1>4, SetStatusWritePInv
<1>5. ASSUME NEW u \in Users, Touch(u) PROVE PInv'
  BY <1>5, TouchPInv
<1>6. ASSUME NEW u \in Users, Crash(u) PROVE PInv'
  BY <1>6, CrashPInv
<1>7. CASE Tick
  BY <1>7, TickPInv
<1>8. CASE UNCHANGED vars
  <2>1. UNCHANGED <<keys, live, lost>> /\ TypeOK'
    BY <1>8 DEF vars, keys, PInv, TypeOK
  <2>2. Gones' /\ (Counted /\ Listed => Counted' /\ Listed')
    BY <2>1, ValuesKept DEF keys, PInv, Gones
  <2> QED
    BY <2>1, <2>2 DEF PInv, Faithful
<1> QED
  BY <1>1, <1>2, <1>3, <1>4, <1>5, <1>6, <1>7, <1>8 DEF Next

\* The keys and the hubs' clients stay in their sets.  redis_store.go counts
\* connections down only while they are above zero, and no set holds another
\* member than a user or a channel.
THEOREM TypeCorrect == Spec => []TypeOK
<1>1. PInv => TypeOK
  BY DEF PInv
<1> QED
  BY <1>1, InitPInv, StepPInv, PTL DEF Spec

\* Until a fault, the counters and sets of Redis are those of the hubs'
\* clients: what connectScript and disconnectScript keep up.
THEOREM KeysFaithful == Spec => []Faithful
<1>1. PInv => Faithful
  BY DEF PInv
<1> QED
  BY <1>1, InitPInv, StepPInv, PTL DEF Spec
-----------------------------------------------------------------------------
(* The refinement.                                                         *)

\* What the store shows is what the hubs' clients say it should.
Mapped ==
  /\ Conns = live
  /\ ShownStatus = [u \in Users |-> Get(u)]
  /\ ToldNow = told
  /\ Lists = Store!Shown(live)

\* After a fault the promise is void: PresenceStore shows nothing.
Void ==
  /\ Conns = Store!NoConns
  /\ ShownStatus = Store!AllOffline
  /\ ToldNow = Store!AllOffline
  /\ Lists = Store!Shown(Store!NoConns)

LEMMA MapHolds == PInv => (lost => Void) /\ (~lost => Mapped)
<1> SUFFICES ASSUME PInv PROVE (lost => Void) /\ (~lost => Mapped)
  OBVIOUS
<1>1. ASSUME lost PROVE Void
  <2>1. Conns = Store!NoConns
    BY <1>1 DEF Conns, None, Store!NoConns
  <2>2. ShownStatus = Store!AllOffline /\ ToldNow = Store!AllOffline
    BY <1>1 DEF ShownStatus, ToldNow, Off, Store!AllOffline
  <2>3. Lists = Store!Shown(Store!NoConns)
    <3>1. \A u \in Users, c \in Channels : ~(Store!NoConns[u][c] > 0)
      BY DEF Store!NoConns
    <3>2. PICK z : z = Store!NoConns
      OBVIOUS
    <3>3. Store!Shown(z) = Empty
      BY <3>1, <3>2 DEF Store!Shown, Store!Connected, Empty
    <3> QED
      BY <1>1, <3>2, <3>3 DEF Lists
  <2> QED
    BY <2>1, <2>2, <2>3 DEF Void
<1>2. ASSUME ~lost PROVE Mapped
  <2>1. TypeOK /\ Counted /\ Listed
    BY <1>2 DEF PInv, Faithful
  <2>2. live \in [Users -> [Channels -> Nat]]
    BY <2>1, LiveTyped
  <2>3. Conns = live
    <3>1. Conns = [u \in Users |-> [c \in Channels |-> live[u][c]]]
      BY <1>2, <2>1 DEF Conns, Counted
    <3>2. \A u \in Users : [c \in Channels |-> live[u][c]] = live[u]
      BY <2>2
    <3> QED
      BY <2>2, <3>1, <3>2
  <2>4. PICK f : f = live
    OBVIOUS
  <2>5. ASSUME NEW u \in Users
        PROVE  /\ Live(u) <=> Store!Connected(f[u])
               /\ Live(u) <=> hash[u].count > 0
    <3>1. hash[u].count \in Nat /\ (hash[u].count = 0 <=> ~Live(u))
      BY <2>1, Zeros
    <3>2. Live(u) <=> Store!Connected(f[u])
      BY <2>4 DEF Live, Store!Connected
    <3> QED
      BY <3>1, <3>2
  <2>6. ListOnline = {u \in Users : Store!Connected(f[u])}
    BY <2>1, <2>5 DEF ListOnline, Listed
  <2>7. ASSUME NEW w \in Workspaces
        PROVE  ListWorkspacePresence(w) =
                 {u \in Users : \E c \in Channels : WorkspaceOf[c] = w /\ f[u][c] > 0}
    <3>1. wsOnline[w].set = {u \in Users : \E c \in OfWorkspace(w) : live[u][c] > 0}
      BY <2>1 DEF Listed
    <3>2. ASSUME NEW u \in Users
          PROVE  /\ (\E c \in OfWorkspace(w) : live[u][c] > 0)
                      <=> \E c \in Channels : WorkspaceOf[c] = w /\ f[u][c] > 0
                 /\ (\E c \in OfWorkspace(w) : live[u][c] > 0) => Live(u)
      BY <2>4 DEF OfWorkspace, Live
    <3> QED
      BY <2>5, <3>1, <3>2 DEF ListWorkspacePresence
  <2>8. \A u \in Users : ActiveChannels(u) = {c \in Channels : f[u][c] > 0}
    BY <2>1, <2>4 DEF ActiveChannels, Listed
  <2>9. Lists = Store!Shown(f)
    BY <1>2, <2>6, <2>7, <2>8 DEF Lists, Store!Shown
  <2> QED
    BY <1>2, <2>3, <2>4, <2>9 DEF Mapped, ShownStatus, ToldNow
<1> QED
  BY <1>1, <1>2

\* The same, of the state a step leads to.
LEMMA MapHoldsNext == PInv' => (lost' => Void') /\ (~lost' => Mapped')
<1>1. PInv => (lost => Void) /\ (~lost => Mapped)
  BY MapHolds
<1> QED
  BY <1>1, PTL
\* A count is zero without clients, after a step too.
ZeroOffline == \A u \in Users : hash[u].count = 0 <=> ~Live(u)

LEMMA ZerosNext == TypeOK' /\ Counted' => ZeroOffline'
<1>1. TypeOK /\ Counted => ZeroOffline
  BY Zeros DEF ZeroOffline
<1> QED
  BY <1>1, PTL

\* A step that follows the clients maps to one of PresenceStore.
LEMMA ConnectMaps ==
  ASSUME PInv, PInv', ~lost, ~lost', NEW u \in Users, NEW c \in Channels, Connect(u, c)
  PROVE  Store!Connect(u, c)
<1>1. Mapped /\ Mapped'
  BY MapHolds, MapHoldsNext
<1>2. TypeOK /\ KeysOK /\ Gones /\ Counted
  BY KeysTyped DEF PInv, Faithful
<1>3. /\ connectScript(u, c)
      /\ live' = [live EXCEPT ![u][c] = @ + 1]
      /\ told' = [told EXCEPT ![u] = IF hash[u].count = 0 THEN "online" ELSE @]
      /\ lost' = lost
  BY DEF Connect
<1>4. Conns = live /\ Conns' = live' /\ ToldNow = told /\ ToldNow' = told'
  BY <1>1 DEF Mapped
<1>5. Conns' = [Conns EXCEPT ![u][c] = @ + 1]
  BY <1>3, <1>4
<1>6. Lists' = Store!Shown(Conns')
  BY <1>1, <1>4 DEF Mapped
<1>7. hash[u].count \in Nat /\ (hash[u].count = 0 <=> ~Store!Connected(Conns[u]))
  <2>1. hash[u].count \in Nat /\ (hash[u].count = 0 <=> ~Live(u))
    BY <1>2, Zeros
  <2>2. Live(u) <=> Store!Connected(Conns[u])
    BY <1>4 DEF Live, Store!Connected
  <2> QED
    BY <2>1, <2>2
<1>8. \A v \in Users :
        /\ hash'[v].count = hash[v].count + (IF v = u THEN 1 ELSE 0)
        /\ hash'[v].status = IF v = u /\ hash[u].count = 0 THEN "online" ELSE hash[v].status
  BY <1>2, <1>3, ConnectHash
<1>9. /\ ShownStatus = [v \in Users |-> Get(v)]
      /\ ShownStatus' = [v \in Users |-> Get(v)']
  BY <1>1 DEF Mapped
<1>10. \A v \in Users \ {u} : Get(v)' = Get(v)
  <2>1. ASSUME NEW v \in Users, v # u PROVE Get(v)' = Get(v)
    <3>1. hash[v].count \in Nat
      BY <1>2, Zeros
    <3>2. hash'[v].count = hash[v].count /\ hash'[v].status = hash[v].status
      BY <1>8, <2>1, <3>1
    <3> QED
      BY <3>2 DEF Get
  <2> QED
    BY <2>1
<1>11. CASE hash[u].count = 0
  <2>1. ToldNow' = [ToldNow EXCEPT ![u] = "online"]
    BY <1>3, <1>4, <1>11
  <2>2. Get(u)' = "online"
    <3>1. hash'[u].count = 1 /\ hash'[u].status = "online"
      BY <1>8, <1>11
    <3> QED
      BY <3>1 DEF Get
  <2>3. ShownStatus' = [ShownStatus EXCEPT ![u] = "online"]
    BY <1>9, <1>10, <2>2
  <2> QED
    BY <1>3, <1>5, <1>6, <1>7, <1>11, <2>1, <2>3 DEF Store!Connect
<1>12. CASE hash[u].count # 0
  <2>1. ToldNow' = ToldNow
    BY <1>2, <1>3, <1>4, <1>12 DEF TypeOK
  <2>2. Get(u)' = Get(u)
    <3>1. hash[u].count > 0 /\ hash'[u].count > 0 /\ hash'[u].status = hash[u].status
      BY <1>7, <1>8, <1>12
    <3>2. ~(hash[u].count <= 0) /\ ~(hash'[u].count <= 0)
      BY <1>7, <1>8, <1>12
    <3> QED
      BY <3>1, <3>2 DEF Get
  <2>3. ShownStatus' = ShownStatus
    BY <1>9, <1>10, <2>2
  <2> QED
    BY <1>3, <1>5, <1>6, <1>7, <1>12, <2>1, <2>3 DEF Store!Connect
<1> QED
  BY <1>11, <1>12

LEMMA DisconnectMaps ==
  ASSUME PInv, PInv', ~lost, ~lost', NEW u \in Users, NEW c \in Channels, Disconnect(u, c)
  PROVE  Store!Disconnect(u, c)
<1>1. Mapped /\ Mapped'
  BY MapHolds, MapHoldsNext
<1>2. TypeOK /\ KeysOK /\ Gones /\ Counted
  BY KeysTyped DEF PInv, Faithful
<1>3. /\ disconnectScript(u, c)
      /\ live[u][c] > 0
      /\ live' = [live EXCEPT ![u][c] = @ - 1]
      /\ told' = [told EXCEPT ![u] = IF hash[u].count <= 1 THEN "offline" ELSE @]
      /\ lost' = lost
  BY DEF Disconnect
<1>4. Conns = live /\ Conns' = live' /\ ToldNow = told /\ ToldNow' = told'
  BY <1>1 DEF Mapped
<1>5. Conns' = [Conns EXCEPT ![u][c] = @ - 1] /\ Conns[u][c] > 0
  BY <1>3, <1>4
<1>6. Lists' = Store!Shown(Conns')
  BY <1>1, <1>4 DEF Mapped
<1>7. \A v \in Users :
        /\ hash'[v].count = IF v = u THEN Less(hash[v].count) ELSE hash[v].count
        /\ hash'[v].status =
             IF v = u /\ Less(hash[u].count) = 0 THEN "offline" ELSE hash[v].status
  BY <1>2, <1>3, DisconnectHash
<1>8. hash[u].count \in Nat
  BY <1>2, Zeros
<1>9. hash[u].count <= 1 <=> ~Store!Connected(Conns'[u])
  <2>1. TypeOK' /\ Counted'
    BY DEF PInv, Faithful
  <2>2. hash'[u].count = 0 <=> ~Live(u)'
    BY <2>1, ZerosNext DEF ZeroOffline
  <2>3. Live(u)' <=> Store!Connected(Conns'[u])
    BY <1>4 DEF Live, Store!Connected
  <2> QED
    BY <1>7, <1>8, <2>2, <2>3, LessCounts
<1>10. /\ ShownStatus = [v \in Users |-> Get(v)]
       /\ ShownStatus' = [v \in Users |-> Get(v)']
  BY <1>1 DEF Mapped
<1>11. ASSUME NEW v \in Users, v # u PROVE Get(v)' = Get(v)
  <2>1. hash'[v].count = hash[v].count /\ hash'[v].status = hash[v].status
    BY <1>7, <1>11
  <2> QED
    BY <2>1 DEF Get
<1>12. CASE hash[u].count <= 1
  <2>1. ToldNow' = [ToldNow EXCEPT ![u] = "offline"]
    BY <1>3, <1>4, <1>12
  <2>2. Get(u)' = "offline"
    <3>1. hash'[u].count = 0
      BY <1>7, <1>8, <1>12, LessCounts
    <3> QED
      BY <3>1 DEF Get
  <2>3. ShownStatus' = [ShownStatus EXCEPT ![u] = "offline"]
    BY <1>10, <1>11, <2>2
  <2> QED
    BY <1>3, <1>5, <1>6, <1>9, <1>12, <2>1, <2>3 DEF Store!Disconnect
<1>13. CASE ~(hash[u].count <= 1)
  <2>1. ToldNow' = ToldNow
    BY <1>2, <1>3, <1>4, <1>13 DEF TypeOK
  <2>2. Get(u)' = Get(u)
    <3>1. hash'[u].count = hash[u].count - 1 /\ hash'[u].status = hash[u].status
      BY <1>7, <1>8, <1>13, LessCounts
    <3>2. ~(hash[u].count <= 0) /\ ~(hash'[u].count <= 0)
      BY <1>8, <1>13, <3>1
    <3> QED
      BY <3>1, <3>2 DEF Get
  <2>3. ShownStatus' = ShownStatus
    BY <1>10, <1>11, <2>2
  <2> QED
    BY <1>3, <1>5, <1>6, <1>9, <1>13, <2>1, <2>3 DEF Store!Disconnect
<1> QED
  BY <1>12, <1>13
\* A status that is written shows while the user is connected.
LEMMA SetStatusMaps ==
  ASSUME PInv, PInv', ~lost, ~lost', NEW u \in Users, SetStatusWrite(u)
  PROVE  (\E s \in Statuses : Store!SetStatus(u, s)) \/ UNCHANGED Store!vars
<1>1. Mapped /\ Mapped'
  BY MapHolds, MapHoldsNext
<1>2. TypeOK /\ Counted
  BY DEF PInv, Faithful
<1>3. live' = live /\ told' = told /\ lost' = lost
  <2>1. lost \in BOOLEAN /\ lost' \in BOOLEAN
    BY DEF PInv, TypeOK
  <2>2. lost' = lost
    BY <2>1
  <2> QED
    BY <2>2 DEF SetStatusWrite
<1>4. Conns = live /\ Conns' = Conns /\ ToldNow' = ToldNow
  BY <1>1, <1>3 DEF Mapped
<1>5. Lists' = Lists
  <2>1. Lists = Store!Shown(Conns) /\ Lists' = Store!Shown(Conns')
    BY <1>1 DEF Mapped
  <2> QED
    BY <1>4, <2>1
<1>6. /\ ShownStatus = [v \in Users |-> Get(v)]
      /\ ShownStatus' = [v \in Users |-> Get(v)']
  BY <1>1 DEF Mapped
<1>7. /\ setting[u] \in Statuses
      /\ \A v \in Users :
           /\ hash'[v].count = hash[v].count
           /\ hash'[v].status = IF v = u THEN setting[u] ELSE hash[v].status
  BY StatusWritten
<1>8. ASSUME NEW v \in Users, v # u PROVE Get(v)' = Get(v)
  BY <1>7, <1>8 DEF Get
<1>9. hash[u].count \in Nat /\ (hash[u].count = 0 <=> ~Store!Connected(Conns[u]))
  <2>1. hash[u].count \in Nat /\ (hash[u].count = 0 <=> ~Live(u))
    BY <1>2, Zeros
  <2>2. Live(u) <=> Store!Connected(Conns[u])
    BY <1>4 DEF Live, Store!Connected
  <2> QED
    BY <2>1, <2>2
<1>10. CASE hash[u].count = 0
  <2>1. Get(u)' = Get(u)
    BY <1>7, <1>10 DEF Get
  <2>2. ShownStatus' = ShownStatus
    BY <1>6, <1>8, <2>1
  <2> QED
    BY <1>3, <1>4, <1>5, <2>2 DEF Store!vars
<1>11. CASE hash[u].count # 0
  <2>1. hash[u].count > 0 /\ ~(hash'[u].count <= 0)
    BY <1>7, <1>9, <1>11
  <2>2. setting[u] # "offline"
    BY <2>1 DEF SetStatusWrite
  <2>3. Get(u)' = setting[u]
    BY <1>7, <2>1 DEF Get
  <2>4. ShownStatus' = [ShownStatus EXCEPT ![u] = setting[u]]
    BY <1>6, <1>8, <2>3
  <2>5. PICK s \in Statuses : s = setting[u]
    BY <1>7
  <2>6. Store!SetStatus(u, s)
    BY <1>3, <1>4, <1>5, <1>9, <1>11, <2>2, <2>4, <2>5 DEF Store!SetStatus
  <2> QED
    BY <2>6
<1> QED
  BY <1>10, <1>11

\* Heartbeats, ticks without a fault and the first half of SetStatus show
\* nothing.
LEMMA QuietMaps ==
  ASSUME PInv, PInv', ~lost, ~lost', live' = live, told' = told,
         \A u \in Users : /\ hash'[u].count = hash[u].count
                          /\ hash[u].count = 0 \/ hash'[u].status = hash[u].status
  PROVE  UNCHANGED Store!vars
<1>1. Mapped /\ Mapped'
  BY MapHolds, MapHoldsNext
<1>2. Conns' = Conns /\ ToldNow' = ToldNow
  BY <1>1 DEF Mapped
<1>3. Lists' = Lists
  <2>1. Conns = live /\ Lists = Store!Shown(Conns) /\ Lists' = Store!Shown(Conns')
    BY <1>1 DEF Mapped
  <2> QED
    BY <1>2, <2>1
<1>4. \A u \in Users : Get(u)' = Get(u)
  BY DEF Get
<1>5. ShownStatus' = ShownStatus
  BY <1>1, <1>4 DEF Mapped
<1>6. lost' = lost
  <2>1. lost \in BOOLEAN /\ lost' \in BOOLEAN
    BY DEF PInv, TypeOK
  <2> QED
    BY <2>1
<1> QED
  BY <1>2, <1>3, <1>5, <1>6 DEF Store!vars

LEMMA StepMaps == PInv /\ PInv' /\ [Next]_vars => [Store!Next]_(Store!vars)
<1> SUFFICES ASSUME PInv, PInv', [Next]_vars
             PROVE  Store!Next \/ UNCHANGED Store!vars
  OBVIOUS
<1>1. lost \in BOOLEAN /\ lost' \in BOOLEAN
  BY DEF PInv, TypeOK
<1>2. lost => lost'
  BY DEF Next, vars, Connect, Disconnect, SetStatusRead, SetStatusWrite, Touch, Crash, Tick
<1>3. CASE lost
  <2>1. Void /\ Void' /\ lost'
    BY <1>2, <1>3, MapHolds, MapHoldsNext
  <2>2. Conns' = Conns /\ ShownStatus' = ShownStatus /\ ToldNow' = ToldNow /\ Lists' = Lists
    BY <2>1 DEF Void
  <2>3. lost' = lost
    BY <1>1, <1>3, <2>1
  <2> QED
    BY <2>2, <2>3 DEF Store!vars
<1>4. CASE ~lost /\ lost'
  <2>1. Void'
    BY <1>4, MapHoldsNext
  <2>2. Store!Lose
    BY <1>1, <1>4, <2>1 DEF Void, Store!Lose
  <2> QED
    BY <2>2 DEF Store!Next
<1>5. CASE ~lost /\ ~lost'
  <2>1. ASSUME NEW u \in Users, NEW c \in Channels, Connect(u, c)
        PROVE  Store!Next
    BY <1>5, <2>1, ConnectMaps DEF Store!Next
  <2>2. ASSUME NEW u \in Users, NEW c \in Channels, Disconnect(u, c)
        PROVE  Store!Next
    BY <1>5, <2>2, DisconnectMaps DEF Store!Next
  <2>3. ASSUME NEW u \in Users, NEW s \in Statuses, SetStatusRead(u, s)
        PROVE  UNCHANGED Store!vars
    <3>1. live' = live /\ told' = told /\ hash' = hash
      BY <2>3 DEF SetStatusRead, keys
    <3> QED
      BY <1>5, <3>1, QuietMaps
  <2>4. ASSUME NEW u \in Users, SetStatusWrite(u)
        PROVE  Store!Next \/ UNCHANGED Store!vars
    BY <1>5, <2>4, SetStatusMaps DEF Store!Next, Statuses
  <2>5. ASSUME NEW u \in Users, Touch(u)
        PROVE  UNCHANGED Store!vars
    <3>1. live' = live /\ told' = told
      BY <2>5 DEF Touch
    <3>2. \A v \in Users : hash'[v].count = hash[v].count /\ hash'[v].status = hash[v].status
      BY <2>5, TouchKeys
    <3> QED
      BY <1>5, <3>1, <3>2, QuietMaps
  <2>6. ASSUME NEW u \in Users, Crash(u) PROVE FALSE
    BY <1>5, <2>6 DEF Crash
  <2>7. CASE Tick
    <3>1. live' = live /\ told' = told /\ ~LosesLive
      BY <1>5, <2>7 DEF Tick
    <3>2. \A v \in Users : /\ hash'[v].count = hash[v].count
                           /\ hash[v].count = 0 \/ hash'[v].status = hash[v].status
      BY <1>5, <2>7, <3>1, TickFaithful DEF PInv, Faithful
    <3> QED
      BY <1>5, <3>1, <3>2, QuietMaps
  <2>8. CASE UNCHANGED vars
    <3>1. live' = live /\ told' = told /\ hash' = hash
      BY <2>8 DEF vars
    <3> QED
      BY <1>5, <3>1, QuietMaps
  <2> QED
    BY <2>1, <2>2, <2>3, <2>4, <2>5, <2>6, <2>7, <2>8 DEF Next
<1> QED
  BY <1>1, <1>3, <1>4, <1>5

LEMMA InitMaps == Init => Store!Init
<1> SUFFICES ASSUME Init PROVE Store!Init
  OBVIOUS
<1>1. Mapped /\ lost = FALSE
  BY InitPInv, MapHolds DEF Init
<1>2. Conns = Store!NoConns
  BY <1>1 DEF Mapped, Init, Store!NoConns
<1>3. ShownStatus = Store!AllOffline
  <2>1. \A u \in Users : Get(u) = "offline"
    <3>1. \A u \in Users : hash[u] = NoHash
      BY DEF Init
    <3>2. NoHash.count = 0
      BY DEF NoHash
    <3> QED
      BY <3>1, <3>2 DEF Get
  <2> QED
    BY <1>1, <2>1 DEF Mapped, Store!AllOffline
<1>4. ToldNow = Store!AllOffline
  BY <1>1 DEF Mapped, Init, Store!AllOffline
<1>5. Lists = Store!Shown(Conns)
  BY <1>1 DEF Mapped
<1> QED
  BY <1>1, <1>2, <1>3, <1>4, <1>5 DEF Store!Init

\* The Redis store implements PresenceStore: seen through the lists, the
\* statuses and the events, every script, heartbeat, status change and tick of
\* redis_store.go is one step of the store that has them under a mutex, or
\* none, until a fault.
THEOREM StoreImplemented == Spec => ImplementsStore
<1>1. Init => Store!Init
  BY InitMaps
<1>2. PInv /\ PInv' /\ [Next]_vars => [Store!Next]_(Store!vars)
  BY StepMaps
<1> QED
  BY <1>1, <1>2, InitPInv, StepPInv, PTL DEF Spec, ImplementsStore, Store!Spec
=============================================================================
