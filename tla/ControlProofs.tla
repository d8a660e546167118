---------------------------- MODULE ControlProofs ----------------------------
(***************************************************************************)
(* What the controller promises, for every configuration, any number of    *)
(* services, handlers and quotas and every order of their steps: contexts  *)
(* shared by the names of a service, the configuration a handler gets from *)
(* the cache, the attributes and the verdict a check and its report carry, *)
(* the quotas a check asks for and the bytes a connection reports.         *)
(***************************************************************************)
EXTENDS Control, DataTheorems

-----------------------------------------------------------------------------
(* The attributes of a request *)

\* What SetValue leaves and what it sets.
LEMMA FindSet ==
  ASSUME NEW a, NEW key, NEW type, NEW value, NEW name
  PROVE  /\ name = key => Find(SetValue(a, key, type, value), name) = {[type |-> type, value |-> value]}
         /\ name # key => Find(SetValue(a, key, type, value), name) = Find(a, name)
BY DEF Find, SetValue

\* What MergeFrom leaves and what it brings in.
LEMMA FindMerge ==
  ASSUME NEW a, NEW more, NEW name
  PROVE  /\ name \in DOMAIN more => Find(MergeFrom(a, more), name) = {more[name]}
         /\ name \notin DOMAIN more => Find(MergeFrom(a, more), name) = Find(a, name)
BY DEF Find, MergeFrom

-----------------------------------------------------------------------------
(* The cache of service contexts *)

\* How many of n ids are too many for the cache.
Over(n) == IF n > CacheLimit THEN n - CacheLimit ELSE 0

\* Where what is kept of n ids begins.
LEMMA OverFacts ==
  ASSUME NEW n \in Nat
  PROVE  /\ CacheLimit \in Nat /\ CacheLimit >= 1
         /\ Over(n) \in 0..n
         /\ Max({1, n - CacheLimit + 1}) = Over(n) + 1
<1>1. CacheLimit \in Nat /\ CacheLimit >= 1
  BY HttpAssumption DEF CacheLimit
<1>2. Over(n) \in 0..n
  BY <1>1 DEF Over
<1> DEFINE k == n - CacheLimit + 1
<1>3. k \in Int /\ Over(n) + 1 \in {1, k} /\ Over(n) + 1 >= 1 /\ Over(n) + 1 >= k /\ Over(n) + 1 \in Int
  BY <1>1 DEF Over
<1> HIDE DEF k
<1>4. \A x, y \in Int : x >= y /\ y >= x => x = y
  OBVIOUS
<1>5. Max({1, k}) = Over(n) + 1
  BY <1>3, <1>4 DEF Max
<1> QED BY <1>1, <1>2, <1>5 DEF k

\* One id more: x counts what is too many after it among those kept before.
LEMMA OverNext ==
  ASSUME NEW n \in Nat, NEW o, o = Over(n), NEW x, x = Over(n - o + 1)
  PROVE  /\ x \in Nat /\ x <= n - o + 1
         /\ Over(n + 1) = x + o
         /\ o >= 1 => x = 1
<1>1. CacheLimit \in Nat /\ CacheLimit >= 1
  BY HttpAssumption DEF CacheLimit
<1>2. CASE n > CacheLimit
  <2>1. o = n - CacheLimit /\ n - o + 1 = CacheLimit + 1
    BY <1>1, <1>2 DEF Over
  <2>2. x = 1
    BY <1>1, <2>1 DEF Over
  <2> QED BY <1>1, <1>2, <2>1, <2>2 DEF Over
<1>3. CASE ~(n > CacheLimit)
  <2>1. o = 0 /\ n - o + 1 = n + 1
    BY <1>1, <1>3 DEF Over
  <2>2. x = Over(n + 1)
    BY <2>1
  <2>3. Over(n + 1) \in 0..n + 1
    <3>1. n + 1 \in Nat
      OBVIOUS
    <3> QED BY <3>1, OverFacts
  <2> QED BY <2>1, <2>2, <2>3
<1> QED BY <1>2, <1>3

\* What is kept of a sequence is its end.
LEMMA KeptFacts ==
  ASSUME NEW S, NEW s \in Seq(S), NEW k, k = Kept(s)
  PROVE  /\ k \in Seq(S) /\ Len(k) = Len(s) - Over(Len(s))
         /\ \A j \in 1..Len(k) : k[j] = s[j + Over(Len(s))]
<1>1. Len(s) \in Nat /\ Over(Len(s)) \in 0..Len(s)
  BY LenProperties, OverFacts
<1>2. k = SubSeq(s, Over(Len(s)) + 1, Len(s))
  BY <1>1, OverFacts DEF Kept
<1> QED BY <1>1, <1>2, SubSeqProperties

\* u is s with the element id moved to the end.
Moved(s, id, u) ==
  \E p \in 1..Len(s) :
    /\ s[p] = id /\ Len(u) = Len(s) /\ u[Len(s)] = id
    /\ \A i \in 1..Len(s) - 1 : u[i] = IF i < p THEN s[i] ELSE s[i + 1]

\* Using id moves it to the end, from position p or from none.
LEMMA UsedFacts ==
  ASSUME NEW S, NEW s \in Seq(S), IsInjective(s), NEW id \in S, NEW u, u = UsedLast(s, id)
  PROVE  /\ u \in Seq(S) /\ IsInjective(u) /\ ToSet(u) = ToSet(s) \cup {id}
         /\ id \notin ToSet(s) => u = Append(s, id)
         /\ id \in ToSet(s) => Moved(s, id, u)
<1> DEFINE r == RemoveFirst(s, id)
<1>0. Len(s) \in Nat /\ DOMAIN s = 1..Len(s) /\ u = Append(r, id)
  BY LenProperties DEF UsedLast
<1>1. /\ r \in Seq(S) /\ IsInjective(r) /\ ToSet(r) = ToSet(s) \ {id}
      /\ Len(r) = Len(s) - (IF id \in ToSet(s) THEN 1 ELSE 0)
  BY Without1
<1>2. \/ id \notin ToSet(s) /\ r = s
      \/ \E k \in 1..Len(s) :
           /\ s[k] = id /\ Len(r) = Len(s) - 1
           /\ \A i \in 1..Len(s) - 1 : r[i] = IF i < k THEN s[i] ELSE s[i + 1]
  BY RemovedFirst
<1> HIDE DEF r
<1>3. /\ u \in Seq(S) /\ Len(u) = Len(r) + 1 /\ u[Len(r) + 1] = id
      /\ \A i \in 1..Len(r) : u[i] = r[i]
  <2>1. Len(r) \in Nat /\ DOMAIN r = 1..Len(r)
    BY <1>1, LenProperties
  <2>2. Append(r, id) \in Seq(S) /\ Len(Append(r, id)) = Len(r) + 1
    BY <1>1, AppendProperties
  <2>3. Append(r, id)[Len(r) + 1] = id /\ \A i \in 1..Len(r) : Append(r, id)[i] = r[i]
    BY <1>1, <2>1, AppendProperties
  <2> QED BY <1>0, <2>2, <2>3, Zenon
<1>4. IsInjective(u) /\ ToSet(u) = ToSet(s) \cup {id}
  <2>1. id \notin ToSet(r)
    BY <1>1
  <2>2. ToSet(Append(r, id)) = ToSet(r) \cup {id} /\ IsInjective(Append(r, id))
    BY <1>1, <2>1, Appended
  <2>3. ToSet(r) \cup {id} = ToSet(s) \cup {id}
    BY <1>1
  <2> QED BY ONLY <1>0, <2>2, <2>3, Zenon
<1>5. ASSUME id \notin ToSet(s) PROVE r = s
  <2> SUFFICES ASSUME NEW k \in 1..Len(s), s[k] = id PROVE FALSE
    BY <1>2, <1>5
  <2> QED BY <1>0, <1>5 DEF ToSet
<1>6. ASSUME id \in ToSet(s)
      PROVE  Moved(s, id, u)
  <2>1. PICK k \in 1..Len(s) :
           /\ s[k] = id /\ Len(r) = Len(s) - 1
           /\ \A i \in 1..Len(s) - 1 : r[i] = IF i < k THEN s[i] ELSE s[i + 1]
    BY <1>2, <1>6
  <2>2. Len(u) = Len(s) /\ u[Len(s)] = id
    BY <1>0, <1>3, <2>1
  <2>3. \A i \in 1..Len(s) - 1 : u[i] = r[i]
    BY <1>3, <2>1
  <2> QED BY <2>1, <2>2, <2>3 DEF Moved
<1> QED BY <1>0, <1>3, <1>4, <1>5, <1>6

\* Sequences are equal if their lengths and their elements are.
LEMMA SameSeq ==
  ASSUME NEW S, NEW s \in Seq(S), NEW t \in Seq(S), Len(s) = Len(t),
         \A i \in 1..Len(s) : s[i] = t[i]
  PROVE  s = t
BY SeqEqual

\* What is kept of a sequence that repeats nothing repeats nothing.
LEMMA KeptInjective ==
  ASSUME NEW S, NEW s \in Seq(S), IsInjective(s)
  PROVE  Kept(s) \in Seq(S) /\ IsInjective(Kept(s))
<1> DEFINE k == Kept(s)
           n == Len(s)
           o == Over(n)
<1>1. /\ k \in Seq(S) /\ Len(k) = n - o
      /\ \A j \in 1..n - o : k[j] = s[j + o]
  BY KeptFacts
<1>2. n \in Nat /\ o \in 0..n /\ DOMAIN s = 1..n /\ DOMAIN k = 1..n - o
  BY <1>1, LenProperties, OverFacts
<1> HIDE DEF k, n, o
<1>3. IsInjective(k)
  <2> SUFFICES ASSUME NEW i \in 1..n - o, NEW j \in 1..n - o, k[i] = k[j] PROVE i = j
    BY <1>2 DEF IsInjective
  <2>1. i + o \in 1..n /\ j + o \in 1..n /\ s[i + o] = s[j + o]
    BY <1>1, <1>2
  <2>2. i + o = j + o
    BY <1>2, <2>1 DEF IsInjective
  <2> QED BY <1>2, <2>2
<1> QED BY <1>1, <1>3 DEF k

\* Nothing is kept that was not there.
LEMMA KeptAmong ==
  ASSUME NEW S, NEW s \in Seq(S)
  PROVE  ToSet(Kept(s)) \subseteq ToSet(s)
<1> DEFINE k == Kept(s)
           n == Len(s)
           o == Over(n)
<1>1. /\ k \in Seq(S) /\ Len(k) = n - o
      /\ \A j \in 1..n - o : k[j] = s[j + o]
  BY KeptFacts
<1>2. n \in Nat /\ o \in 0..n /\ DOMAIN s = 1..n /\ DOMAIN k = 1..n - o
  BY <1>1, LenProperties, OverFacts
<1> HIDE DEF k, n, o
<1>3. \A j \in 1..n - o : j + o \in 1..n
  BY <1>2
<1>4. ToSet(k) \subseteq ToSet(s)
  BY <1>1, <1>2, <1>3 DEF ToSet
<1> QED BY <1>4 DEF k

\* Where id is kept, using it leaves the same ids to keep.
LEMMA UsedWhileKept ==
  ASSUME NEW S, NEW s \in Seq(S), IsInjective(s), NEW id \in ToSet(Kept(s))
  PROVE  UsedLast(Kept(s), id) = Kept(UsedLast(s, id))
<1> DEFINE k == Kept(s)
           n == Len(s)
           o == Over(n)
           u == UsedLast(s, id)
           v == UsedLast(k, id)
           w == Kept(u)
<1>1. /\ k \in Seq(S) /\ Len(k) = n - o
      /\ \A j \in 1..n - o : k[j] = s[j + o]
  BY KeptFacts
<1>2. n \in Nat /\ o \in 0..n /\ DOMAIN s = 1..n /\ DOMAIN k = 1..n - o
  BY <1>1, LenProperties, OverFacts
<1>3. id \in ToSet(k)
  OBVIOUS
<1> HIDE DEF k, n, o
<1>4. PICK q \in 1..n - o : k[q] = id
  BY <1>2, <1>3 DEF ToSet
<1>5. s[q + o] = id /\ q + o \in 1..n
  BY <1>1, <1>2, <1>4
<1>6. id \in ToSet(s) /\ id \in S
  BY <1>2, <1>5, ElementOfSeq DEF ToSet, n
<1>7. IsInjective(k)
  BY KeptInjective DEF k
<1>8. PICK p \in 1..n :
        /\ s[p] = id /\ Len(u) = n /\ u[n] = id
        /\ \A i \in 1..n - 1 : u[i] = IF i < p THEN s[i] ELSE s[i + 1]
  BY <1>6, UsedFacts DEF n, Moved
<1>9. PICK r \in 1..n - o :
        /\ k[r] = id /\ Len(v) = n - o /\ v[n - o] = id
        /\ \A i \in 1..n - o - 1 : v[i] = IF i < r THEN k[i] ELSE k[i + 1]
  <2>1. v = UsedLast(k, id) /\ id \in S /\ k \in Seq(S)
    BY <1>1, <1>6
  <2> HIDE DEF v
  <2>2. Moved(k, id, v)
    BY <1>3, <1>7, <2>1, UsedFacts
  <2> QED BY <1>1, <2>2 DEF Moved
<1>10. p = r + o
  <2>1. r + o \in 1..n /\ s[r + o] = id
    BY <1>1, <1>2, <1>9
  <2> QED BY <1>2, <1>8, <2>1 DEF IsInjective
<1>11. u \in Seq(S) /\ v \in Seq(S)
  BY <1>1, <1>6, <1>7, UsedFacts
<1> HIDE DEF u, v
<1>12. w \in Seq(S) /\ Len(w) = n - o /\ \A j \in 1..n - o : w[j] = u[j + o]
  BY <1>8, <1>11, KeptFacts DEF o
<1>13. ASSUME NEW j \in 1..n - o PROVE v[j] = w[j]
  <2>1. w[j] = u[j + o]
    BY <1>12
  <2>2. CASE j = n - o
    BY <1>2, <1>8, <1>9, <2>1, <2>2
  <2>3. CASE j # n - o
    <3>1. j \in 1..n - o - 1 /\ j + o \in 1..n - 1 /\ (j < r <=> j + o < p)
      BY <1>2, <1>10, <2>3
    <3>2. k[j] = s[j + o] /\ k[j + 1] = s[j + 1 + o] /\ j + 1 + o = j + o + 1
      BY <1>1, <1>2, <3>1
    <3>3. v[j] = IF j < r THEN k[j] ELSE k[j + 1]
      BY <1>9, <3>1
    <3>4. u[j + o] = IF j + o < p THEN s[j + o] ELSE s[j + o + 1]
      BY <1>8, <3>1
    <3> QED BY <2>1, <3>1, <3>2, <3>3, <3>4
  <2> QED BY <2>2, <2>3
<1> HIDE DEF w
<1>14. v = w
  BY <1>9, <1>11, <1>12, <1>13, SameSeq
<1> QED BY <1>14 DEF v, w, u, k

\* Where id is not kept, it is added to those kept, as if it had never been used.
LEMMA AddedWhereNotKept ==
  ASSUME NEW S, NEW s \in Seq(S), IsInjective(s), NEW id \in S, id \notin ToSet(Kept(s))
  PROVE  Kept(Append(Kept(s), id)) = Kept(UsedLast(s, id))
<1> DEFINE k == Kept(s)
           n == Len(s)
           o == Over(n)
           u == UsedLast(s, id)
           a == Append(k, id)
           v == Kept(a)
           w == Kept(u)
<1>1. /\ k \in Seq(S) /\ Len(k) = n - o
      /\ \A j \in 1..n - o : k[j] = s[j + o]
  BY KeptFacts
<1>2. n \in Nat /\ o \in 0..n /\ DOMAIN s = 1..n /\ DOMAIN k = 1..n - o
  BY <1>1, LenProperties, OverFacts
<1>3. id \notin ToSet(k)
  OBVIOUS
<1> HIDE DEF k
<1>4. a \in Seq(S) /\ Len(a) = n - o + 1
  BY <1>1, <1>2, AppendProperties
<1>5. a[n - o + 1] = id /\ \A j \in 1..n - o : a[j] = k[j]
  BY <1>1, <1>2, AppendProperties
<1>6. u \in Seq(S)
  BY UsedFacts
<1> DEFINE x == Over(n - o + 1)
           y == Over(Len(u))
<1>0. /\ x \in Nat /\ x <= n - o + 1
      /\ Over(n + 1) = x + o
      /\ o >= 1 => x = 1
  <2> HIDE DEF n
  <2> QED BY <1>2, OverNext
<1>7. v \in Seq(S) /\ Len(v) = n - o + 1 - x /\ \A j \in 1..n - o + 1 - x : v[j] = a[j + x]
  <2>1. v = Kept(a)
    OBVIOUS
  <2> HIDE DEF a, v, o, n
  <2>2. v \in Seq(S) /\ Len(v) = Len(a) - Over(Len(a)) /\ \A j \in 1..Len(v) : v[j] = a[j + Over(Len(a))]
    BY <1>4, <2>1, KeptFacts
  <2>3. Over(Len(a)) = x /\ Len(a) \in Nat
    BY <1>2, <1>4
  <2> HIDE DEF x
  <2>4. Len(v) = n - o + 1 - x
    BY <1>0, <1>2, <1>4, <2>2, <2>3
  <2> QED BY <2>2, <2>3, <2>4
<1>8. w \in Seq(S) /\ Len(w) = Len(u) - y /\ \A j \in 1..Len(u) - y : w[j] = u[j + y]
  BY <1>6, KeptFacts
<1> HIDE DEF n, u, a, v, w
<1>9. CASE id \notin ToSet(s)
  <2>1. u = Append(s, id)
    BY <1>9, UsedFacts DEF u
  <2>2. Len(u) = n + 1 /\ u[n + 1] = id /\ \A j \in 1..n : u[j] = s[j]
    BY <2>1, AppendProperties DEF n
  <2>3. n - o + 1 - x = n + 1 - y /\ y = x + o
    <3>1. y = x + o
      BY <1>0, <2>2
    <3> HIDE DEF o, x, y
    <3> QED BY <1>0, <1>2, <3>1
  <2>4. x \in Nat /\ x <= n - o + 1 /\ y \in Nat
    <3> HIDE DEF o, x, y
    <3> QED BY <1>0, <1>2, <2>3
  <2> HIDE DEF o, x, y
  <2>5. ASSUME NEW j \in 1..n + 1 - y PROVE v[j] = w[j]
    <3>1. v[j] = a[j + x] /\ w[j] = u[j + y]
      <4>1. j \in 1..n - o + 1 - x /\ j \in 1..Len(u) - y
        BY <1>2, <2>2, <2>3, <2>4
      <4> QED BY <1>7, <1>8, <4>1
    <3>2. CASE j = n + 1 - y
      <4>1. j + x = n - o + 1 /\ j + y = n + 1
        BY <1>2, <2>3, <2>4, <3>2
      <4> QED BY <1>5, <2>2, <3>1, <4>1
    <3>3. CASE j # n + 1 - y
      <4>1. j + x \in 1..n - o /\ j + y \in 1..n /\ j + y = j + x + o
        BY <1>2, <2>3, <2>4, <3>3
      <4>2. a[j + x] = k[j + x] /\ k[j + x] = s[j + x + o] /\ u[j + y] = s[j + y]
        BY <1>1, <1>5, <2>2, <4>1
      <4> QED BY <3>1, <4>1, <4>2
    <3> QED BY <3>2, <3>3
  <2>6. v = w
    <3>1. Len(v) = n + 1 - y /\ Len(w) = n + 1 - y /\ v \in Seq(S) /\ w \in Seq(S)
      BY <1>2, <1>7, <1>8, <2>2, <2>3, <2>4
    <3> QED BY <2>5, <3>1, SameSeq
  <2> QED BY <2>6 DEF v, w, a, u, k
<1>10. CASE id \in ToSet(s)
  <2>1. PICK p \in 1..n :
        /\ s[p] = id /\ Len(u) = n /\ u[n] = id
        /\ \A i \in 1..n - 1 : u[i] = IF i < p THEN s[i] ELSE s[i + 1]
    BY <1>10, UsedFacts DEF n, u, Moved
  <2>2. p <= o
    <3> SUFFICES ASSUME p > o PROVE FALSE
      BY <1>2
    <3>1. p - o \in 1..n - o /\ p - o + o = p
      BY <1>2
    <3>2. k[p - o] = id
      BY <1>1, <2>1, <3>1
    <3> QED BY <1>2, <1>3, <3>1, <3>2 DEF ToSet
  <2>3. n - o + 1 - x = n - y /\ x = 1 /\ y = o /\ o >= 1
    <3>1. y = o
      BY <2>1
    <3> HIDE DEF o, x, y
    <3> QED BY <1>0, <1>2, <2>2, <3>1
  <2> HIDE DEF o, x, y
  <2>4. ASSUME NEW j \in 1..n - o PROVE v[j] = w[j]
    <3>1. v[j] = a[j + 1] /\ w[j] = u[j + o]
      BY <1>2, <1>7, <1>8, <2>1, <2>3, <2>4
    <3>2. CASE j = n - o
      <4>1. j + 1 = n - o + 1 /\ j + o = n
        BY <1>2, <3>2
      <4> QED BY <1>5, <2>1, <3>1, <4>1
    <3>3. CASE j # n - o
      <4>1. j + 1 \in 1..n - o /\ j + o \in 1..n - 1 /\ ~(j + o < p) /\ j + 1 + o = j + o + 1
        BY <1>2, <2>2, <3>3
      <4>2. a[j + 1] = k[j + 1] /\ k[j + 1] = s[j + 1 + o] /\ u[j + o] = s[j + o + 1]
        BY <1>1, <1>5, <2>1, <4>1
      <4> QED BY <3>1, <4>1, <4>2
    <3> QED BY <3>2, <3>3
  <2>5. v = w
    BY <1>2, <1>7, <1>8, <2>1, <2>3, <2>4, SameSeq
  <2> QED BY <2>5 DEF v, w, a, u, k
<1> QED BY <1>9, <1>10

\* Each step of Control is a step of its controller, and of its connection.
LEMMA Steps ==
  /\ Init => HttpInit /\ TcpInit
  /\ [Next]_vars => [HttpNext]_http_vars /\ [TcpNext]_tcp_vars
BY DEF Init, Next, vars

Contexts == {{}} \cup {{service} : service \in ServiceConfigs}

\* Every name of the map has its service's context, and so has the service.
ByName ==
  \A n \in DOMAIN service_context_map :
    /\ service_context_map[n] \in 1..Len(contexts)
    /\ contexts[service_context_map[n]] = GetServiceConfig(GetServiceName(n))
    /\ GetServiceName(n) \in DOMAIN service_context_map
    /\ \A m \in DOMAIN service_context_map :
         service_context_map[m] = service_context_map[n] <=> GetServiceName(m) = GetServiceName(n)

\* The cache holds the ids used last, each with its configuration.
ById ==
  /\ recent \in Seq(DOMAIN Versions) /\ IsInjective(recent)
  /\ cache_order = Kept(recent)
  /\ DOMAIN service_context_cache = ToSet(cache_order)
  /\ \A id \in DOMAIN service_context_cache :
       /\ service_context_cache[id] \in 1..Len(contexts)
       /\ contexts[service_context_cache[id]] = {Versions[id]}

ContextInv ==
  /\ http_config \in Configs
  /\ contexts \in Seq(Contexts)
  /\ ByName
  /\ ById

\* The service of a service is itself.
LEMMA ServiceName ==
  ASSUME NEW n
  PROVE  GetServiceName(GetServiceName(n)) = GetServiceName(n)
BY DEF GetServiceName

\* Services do not change while the configuration stays.
LEMMA SameNames ==
  ASSUME UNCHANGED http_config, NEW n
  PROVE  /\ (GetServiceName(n))' = GetServiceName(n)
         /\ (GetServiceConfig(n))' = GetServiceConfig(n)
BY DEF GetServiceName, GetServiceConfig, Find

\* A service known or unknown makes a context.
LEMMA ContextOfService ==
  ASSUME http_config \in Configs, NEW n
  PROVE  GetServiceConfig(n) \in Contexts
BY DEF GetServiceConfig, Find, Contexts, ServiceConfigs

\* So does a version of a service.
LEMMA ContextOfVersion ==
  ASSUME NEW id \in DOMAIN Versions
  PROVE  {Versions[id]} \in Contexts
BY DEF Contexts, ServiceConfigs

\* Before any request there are no contexts, and none are cached.
LEMMA ContextInit == HttpInit => ContextInv
<1> SUFFICES ASSUME HttpInit PROVE ContextInv
  OBVIOUS
<1>1. http_config \in Configs /\ contexts \in Seq(Contexts)
  BY DEF HttpInit
<1>2. DOMAIN service_context_map = {} /\ DOMAIN service_context_cache = {}
  BY DEF HttpInit
<1>3. Kept(<<>>) = <<>>
  BY DEF Kept
<1>4. ToSet(<<>>) = {} /\ IsInjective(<<>>) /\ <<>> \in Seq(DOMAIN Versions)
  BY DEF ToSet, IsInjective
<1>5. recent = <<>> /\ cache_order = <<>>
  BY DEF HttpInit
<1> QED BY <1>1, <1>2, <1>3, <1>4, <1>5 DEF ContextInv, ByName, ById

\* Appending to the contexts made leaves those there were.
LEMMA MoreContexts ==
  ASSUME contexts \in Seq(Contexts), NEW c \in Contexts, contexts' = Append(contexts, c)
  PROVE  /\ contexts' \in Seq(Contexts) /\ Len(contexts) \in Nat /\ Len(contexts') = Len(contexts) + 1
         /\ contexts'[Len(contexts) + 1] = c
         /\ \A k \in 1..Len(contexts) : k \in 1..Len(contexts') /\ contexts'[k] = contexts[k]
<1>1. Len(contexts) \in Nat
  BY LenProperties
<1> QED BY <1>1, AppendProperties

\* As long as the contexts only grow, names and ids keep theirs.
LEMMA KeptByName ==
  ASSUME ByName, UNCHANGED <<http_config, service_context_map>>,
         \A k \in 1..Len(contexts) : k \in 1..Len(contexts') /\ contexts'[k] = contexts[k]
  PROVE  ByName'
BY SameNames DEF ByName

\* The ids keep theirs as well.
LEMMA KeptById ==
  ASSUME ById, UNCHANGED <<service_context_cache, cache_order, recent>>,
         \A k \in 1..Len(contexts) : k \in 1..Len(contexts') /\ contexts'[k] = contexts[k]
  PROVE  ById'
BY DEF ById

\* Using an id that is kept: LookupServiceConfig, or a route with the id.
LEMMA UsedById ==
  ASSUME ById, UNCHANGED service_context_cache,
         NEW id \in DOMAIN service_context_cache,
         cache_order' = UsedLast(cache_order, id), recent' = UsedLast(recent, id),
         \A k \in 1..Len(contexts) : k \in 1..Len(contexts') /\ contexts'[k] = contexts[k]
  PROVE  ById'
<1>1. id \in ToSet(Kept(recent)) /\ recent \in Seq(DOMAIN Versions) /\ IsInjective(recent)
  BY DEF ById
<1>2. id \in DOMAIN Versions
  <2>1. Kept(recent) \in Seq(DOMAIN Versions)
    BY <1>1, KeptFacts
  <2> QED BY <1>1, <2>1, LenProperties, ElementOfSeq DEF ToSet
<1>3. recent' \in Seq(DOMAIN Versions) /\ IsInjective(recent')
  BY <1>1, <1>2, UsedFacts
<1>4. cache_order' = Kept(recent')
  BY <1>1, UsedWhileKept DEF ById
<1>5. ToSet(cache_order') = ToSet(cache_order)
  <2>1. cache_order \in Seq(DOMAIN Versions) /\ IsInjective(cache_order)
    BY <1>1, KeptInjective DEF ById
  <2>2. ToSet(cache_order') = ToSet(cache_order) \cup {id}
    BY <1>2, <2>1, UsedFacts
  <2> QED BY <1>1, <2>2 DEF ById
<1> QED BY <1>3, <1>4, <1>5 DEF ById

\* A lookup by id changes nothing but the order of the cache.
LEMMA LookupStep ==
  ASSUME ContextInv, NEW id \in DOMAIN Versions, LookupServiceConfig(id)
  PROVE  ContextInv'
<1>1. /\ id \in DOMAIN service_context_cache
      /\ cache_order' = UsedLast(cache_order, id) /\ recent' = UsedLast(recent, id)
      /\ UNCHANGED <<http_config, contexts, service_context_map, service_context_cache>>
  BY DEF LookupServiceConfig
<1>2. \A k \in 1..Len(contexts) : k \in 1..Len(contexts') /\ contexts'[k] = contexts[k]
  BY <1>1
<1>3. ByName'
  BY <1>1, <1>2, KeptByName DEF ContextInv
<1>4. ById'
  BY <1>1, <1>2, UsedById DEF ContextInv
<1> QED BY <1>1, <1>3, <1>4 DEF ContextInv

\* Adding an id makes its context, and may drop the id used longest ago.
LEMMA AddStep ==
  ASSUME ContextInv, NEW id \in DOMAIN Versions, AddServiceConfig(id)
  PROVE  ContextInv'
<1>1. /\ id \notin DOMAIN service_context_cache
      /\ contexts' = Append(contexts, {Versions[id]})
      /\ cache_order' = Kept(Append(cache_order, id))
      /\ service_context_cache' = [i \in ToSet(cache_order') |->
           IF i = id THEN Len(contexts') ELSE service_context_cache[i]]
      /\ recent' = UsedLast(recent, id)
      /\ UNCHANGED <<http_config, service_context_map>>
  BY DEF AddServiceConfig
<1>2. /\ recent \in Seq(DOMAIN Versions) /\ IsInjective(recent) /\ cache_order = Kept(recent)
      /\ DOMAIN service_context_cache = ToSet(cache_order)
      /\ \A i \in DOMAIN service_context_cache :
           /\ service_context_cache[i] \in 1..Len(contexts)
           /\ contexts[service_context_cache[i]] = {Versions[i]}
  BY DEF ContextInv, ById
<1>3. /\ contexts' \in Seq(Contexts) /\ Len(contexts) \in Nat /\ Len(contexts') = Len(contexts) + 1
      /\ contexts'[Len(contexts) + 1] = {Versions[id]}
      /\ \A k \in 1..Len(contexts) : k \in 1..Len(contexts') /\ contexts'[k] = contexts[k]
  BY <1>1, ContextOfVersion, MoreContexts DEF ContextInv
<1>4. ByName'
  BY <1>1, <1>3, KeptByName DEF ContextInv
<1>5. recent' \in Seq(DOMAIN Versions) /\ IsInjective(recent')
  BY <1>1, <1>2, UsedFacts
<1>6. cache_order' = Kept(recent')
  BY <1>1, <1>2, AddedWhereNotKept
<1>7. ToSet(cache_order') \subseteq ToSet(cache_order) \cup {id}
  <2> DEFINE a == Append(cache_order, id)
  <2>1. cache_order \in Seq(DOMAIN Versions)
    BY <1>2, KeptInjective
  <2>2. a \in Seq(DOMAIN Versions) /\ ToSet(a) = ToSet(cache_order) \cup {id}
    BY <2>1, Appended, AppendProperties
  <2> HIDE DEF a
  <2>3. ToSet(Kept(a)) \subseteq ToSet(a)
    BY <2>2, KeptAmong
  <2> QED BY <1>1, <2>2, <2>3 DEF a
<1>8. ASSUME NEW i \in DOMAIN service_context_cache'
      PROVE  /\ service_context_cache'[i] \in 1..Len(contexts')
             /\ contexts'[service_context_cache'[i]] = {Versions[i]}
  <2>1. i \in ToSet(cache_order') /\ service_context_cache'[i] =
          IF i = id THEN Len(contexts') ELSE service_context_cache[i]
    BY <1>1
  <2>2. CASE i = id
    BY <1>3, <2>1, <2>2
  <2>3. CASE i # id
    <3>1. i \in DOMAIN service_context_cache
      BY <1>2, <1>7, <2>1, <2>3
    <3> QED BY <1>2, <1>3, <2>1, <2>3, <3>1
  <2> QED BY <2>2, <2>3
<1>9. ById'
  BY <1>1, <1>5, <1>6, <1>8 DEF ById
<1> QED BY <1>1, <1>3, <1>4, <1>9 DEF ContextInv

\* What GetServiceContext does, by where it has found the context.
ContextById(route, context) ==
  /\ route.service_config_id # "" /\ route.service_config_id \in DOMAIN service_context_cache
  /\ context = service_context_cache[route.service_config_id]
  /\ cache_order' = UsedLast(cache_order, route.service_config_id)
  /\ recent' = UsedLast(recent, route.service_config_id)
  /\ UNCHANGED <<contexts, service_context_map>>

ContextKnown(origin, context) ==
  /\ origin \in DOMAIN service_context_map /\ context = service_context_map[origin]
  /\ UNCHANGED <<contexts, service_context_map, cache_order, recent>>

ContextOfValid(origin, context) ==
  /\ origin \notin DOMAIN service_context_map
  /\ GetServiceName(origin) \in DOMAIN service_context_map
  /\ context = service_context_map[GetServiceName(origin)]
  /\ service_context_map' =
       Remembered(service_context_map, GetServiceName(origin), origin, context)
  /\ UNCHANGED <<contexts, cache_order, recent>>

ContextMade(origin, context) ==
  /\ origin \notin DOMAIN service_context_map
  /\ GetServiceName(origin) \notin DOMAIN service_context_map
  /\ context = Len(contexts) + 1
  /\ contexts' = Append(contexts, GetServiceConfig(GetServiceName(origin)))
  /\ service_context_map' =
       Remembered(service_context_map, GetServiceName(origin), origin, context)
  /\ UNCHANGED <<cache_order, recent>>

ByIdNot(route) ==
  ~(route.service_config_id # "" /\ route.service_config_id \in DOMAIN service_context_cache)

\* GetServiceContext takes one of its four ways.
LEMMA ContextCases ==
  ASSUME ContextInv, NEW route, NEW context, GetServiceContext(route, context)
  PROVE  \/ ContextById(route, context)
         \/ /\ ByIdNot(route)
            /\ \/ ContextKnown(route.destination_service, context)
               \/ ContextOfValid(route.destination_service, context)
               \/ ContextMade(route.destination_service, context)
<1> DEFINE id     == route.service_config_id
           origin == route.destination_service
           valid  == GetServiceName(origin)
           map    == service_context_map
<1>0. \A n \in DOMAIN map : map[n] # 0
  BY DEF ContextInv, ByName
<1>1. CASE ~ByIdNot(route)
  BY <1>1 DEF GetServiceContext, ContextById, ByIdNot
<1>2. CASE ByIdNot(route)
  <2> DEFINE known(name) == IF name \in DOMAIN map THEN map[name] ELSE 0
             found == IF known(origin) # 0 THEN known(origin) ELSE known(valid)
  <2>1. /\ context = (IF found # 0 THEN found ELSE Len(contexts) + 1)
        /\ contexts' = IF found # 0 THEN contexts
                       ELSE Append(contexts, GetServiceConfig(valid))
        /\ map' = IF known(origin) # 0 THEN map ELSE Remembered(map, valid, origin, context)
        /\ UNCHANGED <<cache_order, recent>>
    BY <1>2 DEF GetServiceContext, ByIdNot
  <2>2. CASE origin \in DOMAIN map
    <3>1. known(origin) = map[origin] /\ map[origin] # 0
      BY <1>0, <2>2
    <3> QED BY <1>2, <2>1, <2>2, <3>1 DEF ContextKnown
  <2>3. CASE origin \notin DOMAIN map
    <3>1. known(origin) = 0 /\ found = known(valid)
      BY <2>3
    <3> HIDE DEF valid
    <3>2. CASE valid \in DOMAIN map
      <4>1. found = map[valid] /\ map[valid] # 0
        BY <1>0, <3>1, <3>2
      <4> HIDE DEF found, known
      <4> QED BY <1>2, <2>1, <2>3, <3>1, <3>2, <4>1 DEF ContextOfValid, valid
    <3>3. CASE valid \notin DOMAIN map
      <4>1. found = 0
        BY <3>1, <3>3
      <4> HIDE DEF found, known
      <4> QED BY <1>2, <2>1, <2>3, <3>1, <3>3, <4>1 DEF ContextMade, valid
    <3> QED BY <3>2, <3>3
  <2> QED BY <2>2, <2>3
<1> QED BY <1>1, <1>2

\* Remembering the context of a service under one more name of it.
LEMMA RememberStep ==
  ASSUME ByName, UNCHANGED http_config, NEW origin, NEW context \in 1..Len(contexts'),
         origin \notin DOMAIN service_context_map,
         service_context_map' =
           Remembered(service_context_map, GetServiceName(origin), origin, context),
         contexts'[context] = GetServiceConfig(GetServiceName(origin)),
         \A n \in DOMAIN service_context_map :
           service_context_map[n] = context <=> GetServiceName(n) = GetServiceName(origin),
         \A k \in 1..Len(contexts) : k \in 1..Len(contexts') /\ contexts'[k] = contexts[k]
  PROVE  ByName'
<1> DEFINE valid == GetServiceName(origin)
           map == service_context_map
           new == service_context_map'
<1>1. GetServiceName(valid) = valid
  BY ServiceName
<1>2. /\ DOMAIN new = DOMAIN map \cup {valid, origin}
      /\ \A n \in DOMAIN new : n \in {valid, origin} => new[n] = context
      /\ \A n \in DOMAIN new : n \notin {valid, origin} => n \in DOMAIN map /\ new[n] = map[n]
  <2>1. new = Remembered(map, valid, origin, context)
    OBVIOUS
  <2> HIDE DEF new, map, valid
  <2>2. DOMAIN new = DOMAIN map \cup {valid, origin}
    BY <2>1 DEF Remembered
  <2>3. \A n \in DOMAIN new : n \in {valid, origin} => new[n] = context
    BY <2>1 DEF Remembered
  <2>4. \A n \in DOMAIN new : n \notin {valid, origin} => n \in DOMAIN map /\ new[n] = map[n]
    BY <2>1 DEF Remembered
  <2> QED BY <2>2, <2>3, <2>4
<1>3. \A n : (GetServiceName(n))' = GetServiceName(n) /\ (GetServiceConfig(n))' = GetServiceConfig(n)
  BY SameNames
<1> HIDE DEF new
<1>4. \A n \in {valid, origin} : GetServiceName(n) = valid
  BY <1>1
<1>5. ASSUME NEW n \in DOMAIN new
      PROVE  /\ new[n] \in 1..Len(contexts')
             /\ contexts'[new[n]] = GetServiceConfig(GetServiceName(n))
             /\ GetServiceName(n) \in DOMAIN new
             /\ new[n] = context <=> GetServiceName(n) = valid
  <2>1. CASE n \in {valid, origin}
    BY <1>2, <1>4, <2>1
  <2>2. CASE n \notin {valid, origin}
    <3>1. n \in DOMAIN map /\ new[n] = map[n]
      BY <1>2, <2>2
    <3>2. /\ map[n] \in 1..Len(contexts)
          /\ contexts[map[n]] = GetServiceConfig(GetServiceName(n))
          /\ GetServiceName(n) \in DOMAIN map
      BY <3>1 DEF ByName
    <3> QED BY <1>2, <3>1, <3>2
  <2> QED BY <2>1, <2>2
<1>6. ASSUME NEW n \in DOMAIN new, NEW m \in DOMAIN new
      PROVE  new[m] = new[n] <=> GetServiceName(m) = GetServiceName(n)
  <2>1. CASE n \in {valid, origin}
    BY <1>2, <1>4, <1>5, <2>1
  <2>2. CASE m \in {valid, origin}
    BY <1>2, <1>4, <1>5, <2>2
  <2>3. CASE n \notin {valid, origin} /\ m \notin {valid, origin}
    BY <1>2, <2>3 DEF ByName
  <2> QED BY <2>1, <2>2, <2>3
<1> HIDE DEF valid
<1> QED BY <1>3, <1>5, <1>6 DEF ByName, new

ContextRight(route, context) ==
  contexts'[context] = IF ByIdNot(route) THEN GetServiceConfig(GetServiceName(route.destination_service))
                       ELSE {Versions[route.service_config_id]}

\* Whichever way it takes, the route gets its context.
LEMMA CreateStep ==
  ASSUME ContextInv, NEW route, NEW context, GetServiceContext(route, context),
         UNCHANGED <<http_config, service_context_cache>>
  PROVE  /\ ContextInv' /\ context \in 1..Len(contexts')
         /\ \A k \in 1..Len(contexts) : k \in 1..Len(contexts') /\ contexts'[k] = contexts[k]
         /\ ContextRight(route, context)
<1> DEFINE origin == route.destination_service
<1>1. CASE ContextById(route, context)
  <2>1. \A k \in 1..Len(contexts) : k \in 1..Len(contexts') /\ contexts'[k] = contexts[k]
    BY <1>1 DEF ContextById
  <2>2. ByName'
    BY <1>1, <2>1, KeptByName DEF ContextInv, ContextById
  <2>3. ById'
    BY <1>1, <2>1, UsedById DEF ContextInv, ContextById
  <2>4. context \in 1..Len(contexts) /\ contexts[context] = {Versions[route.service_config_id]}
    BY <1>1 DEF ContextById, ContextInv, ById
  <2> QED BY <1>1, <2>1, <2>2, <2>3, <2>4 DEF ContextInv, ContextById, ContextRight, ByIdNot
<1>2. CASE ByIdNot(route) /\ ContextKnown(origin, context)
  <2>1. \A k \in 1..Len(contexts) : k \in 1..Len(contexts') /\ contexts'[k] = contexts[k]
    BY <1>2 DEF ContextKnown
  <2>2. ByName'
    BY <1>2, <2>1, KeptByName DEF ContextInv, ContextKnown
  <2>3. ById'
    BY <1>2, <2>1, KeptById DEF ContextInv, ContextKnown
  <2>4. context \in 1..Len(contexts) /\ contexts[context] = GetServiceConfig(GetServiceName(origin))
    BY <1>2 DEF ContextKnown, ContextInv, ByName
  <2> QED BY <1>2, <2>1, <2>2, <2>3, <2>4 DEF ContextInv, ContextKnown, ContextRight
<1>3. CASE ByIdNot(route) /\ ContextOfValid(origin, context)
  <2>1. \A k \in 1..Len(contexts) : k \in 1..Len(contexts') /\ contexts'[k] = contexts[k]
    BY <1>3 DEF ContextOfValid
  <2>2. /\ context \in 1..Len(contexts') /\ contexts'[context] = GetServiceConfig(GetServiceName(origin))
        /\ \A n \in DOMAIN service_context_map :
             service_context_map[n] = context <=> GetServiceName(n) = GetServiceName(origin)
    BY <1>3, ServiceName DEF ContextOfValid, ContextInv, ByName
  <2>3. ByName'
    BY <1>3, <2>1, <2>2, RememberStep DEF ContextInv, ContextOfValid
  <2>4. ById'
    BY <1>3, <2>1, KeptById DEF ContextInv, ContextOfValid
  <2> QED BY <1>3, <2>1, <2>2, <2>3, <2>4 DEF ContextInv, ContextOfValid, ContextRight
<1>4. CASE ByIdNot(route) /\ ContextMade(origin, context)
  <2>0. GetServiceConfig(GetServiceName(origin)) \in Contexts
    BY ContextOfService DEF ContextInv
  <2>1. /\ contexts' \in Seq(Contexts) /\ Len(contexts) \in Nat /\ Len(contexts') = Len(contexts) + 1
        /\ contexts'[Len(contexts) + 1] = GetServiceConfig(GetServiceName(origin))
        /\ \A k \in 1..Len(contexts) : k \in 1..Len(contexts') /\ contexts'[k] = contexts[k]
    BY <1>4, <2>0, MoreContexts DEF ContextInv, ContextMade
  <2>2. /\ context \in 1..Len(contexts') /\ contexts'[context] = GetServiceConfig(GetServiceName(origin))
        /\ \A n \in DOMAIN service_context_map :
             service_context_map[n] = context <=> GetServiceName(n) = GetServiceName(origin)
    BY <1>4, <2>1 DEF ContextMade, ContextInv, ByName
  <2>3. ByName'
    BY <1>4, <2>1, <2>2, RememberStep DEF ContextInv, ContextMade
  <2>4. ById'
    BY <1>4, <2>1, KeptById DEF ContextInv, ContextMade
  <2> QED BY <1>4, <2>1, <2>2, <2>3, <2>4 DEF ContextInv, ContextMade, ContextRight
<1> QED BY <1>1, <1>2, <1>3, <1>4, ContextCases

\* What a step of a handler that has been created leaves alone.
LEMMA ContextsKept ==
  ASSUME ContextInv, UNCHANGED <<http_config, contexts, service_context_map,
                                 service_context_cache, cache_order, recent>>
  PROVE  ContextInv'
<1>1. \A k \in 1..Len(contexts) : k \in 1..Len(contexts') /\ contexts'[k] = contexts[k]
  OBVIOUS
<1>2. ByName'
  BY <1>1, KeptByName DEF ContextInv
<1>3. ById'
  BY <1>1, KeptById DEF ContextInv
<1> QED BY <1>2, <1>3 DEF ContextInv

\* The contexts made are there to stay.
ContextsStay == \A k \in 1..Len(contexts) : k \in 1..Len(contexts') /\ contexts'[k] = contexts[k]

\* No step takes a context away or changes its configuration.
LEMMA ContextsGrow ==
  ASSUME ContextInv, [HttpNext]_http_vars
  PROVE  ContextsStay
<1>1. CASE UNCHANGED contexts
  BY <1>1 DEF ContextsStay
<1>2. ASSUME NEW id \in DOMAIN Versions, AddServiceConfig(id) PROVE ContextsStay
  BY <1>2, ContextOfVersion, MoreContexts DEF ContextInv, AddServiceConfig, ContextsStay
<1>3. ASSUME NEW h \in Handlers, NEW route \in Routes, CreateRequestHandler(h, route) PROVE ContextsStay
  BY <1>3, CreateStep DEF CreateRequestHandler, ContextsStay
<1>4. CASE \E id \in DOMAIN Versions : LookupServiceConfig(id) \/ AddServiceConfig(id)
  BY <1>1, <1>2, <1>4 DEF LookupServiceConfig
<1>5. ASSUME NEW h \in Handlers, NEW data, ExtractRequestAttributes(h, data) PROVE ContextsStay
  BY <1>1, <1>5 DEF ExtractRequestAttributes
<1>6. ASSUME NEW h \in Handlers, NEW data, NEW answer, Check(h, data, answer) PROVE ContextsStay
  BY <1>1, <1>6 DEF Check
<1>7. ASSUME NEW h \in Handlers, NEW status, Answer(h, status) PROVE ContextsStay
  BY <1>1, <1>7 DEF Answer
<1>8. ASSUME NEW h \in Handlers, NEW data, Report(h, data) PROVE ContextsStay
  BY <1>1, <1>8 DEF Report
<1>9. CASE UNCHANGED http_vars
  BY <1>1, <1>9 DEF http_vars
<1> QED BY <1>3, <1>4, <1>5, <1>6, <1>7, <1>8, <1>9 DEF HttpNext

\* Every step of the controller keeps the map and the cache right.
LEMMA ContextNext ==
  ASSUME ContextInv, [HttpNext]_http_vars
  PROVE  ContextInv'
<1>1. CASE \E id \in DOMAIN Versions : LookupServiceConfig(id) \/ AddServiceConfig(id)
  BY <1>1, LookupStep, AddStep
<1>2. ASSUME NEW h \in Handlers, NEW route \in Routes, CreateRequestHandler(h, route)
      PROVE  ContextInv'
  BY <1>2, CreateStep DEF CreateRequestHandler
<1>3. ASSUME NEW h \in Handlers, NEW data, ExtractRequestAttributes(h, data) PROVE ContextInv'
  BY <1>3, ContextsKept DEF ExtractRequestAttributes
<1>4. ASSUME NEW h \in Handlers, NEW data, NEW answer, Check(h, data, answer) PROVE ContextInv'
  BY <1>4, ContextsKept DEF Check
<1>5. ASSUME NEW h \in Handlers, NEW status, Answer(h, status) PROVE ContextInv'
  BY <1>5, ContextsKept DEF Answer
<1>6. ASSUME NEW h \in Handlers, NEW data, Report(h, data) PROVE ContextInv'
  BY <1>6, ContextsKept DEF Report
<1>7. CASE UNCHANGED http_vars
  BY <1>7, ContextsKept DEF http_vars
<1> QED BY <1>1, <1>2, <1>3, <1>4, <1>5, <1>6, <1>7 DEF HttpNext

-----------------------------------------------------------------------------
(* The handlers of HTTP requests *)

Fields == {"pc", "route", "context", "request", "upstream", "check", "verdict", "report"}
RequestFields == {"attributes", "quotas", "check_status"}

IsHandler(it) == DOMAIN it = Fields /\ DOMAIN it.request = RequestFields

AreHandlers == DOMAIN handler = Handlers /\ \A h \in Handlers : IsHandler(handler[h])

\* Two records of a handler that differ at most in some fields.
SameBut(it, new, fields) ==
  /\ IsHandler(new)
  /\ \A f \in Fields \ fields : new[f] = it[f]

\* Only the handler h takes a step, to the record new.
Only(h, new) ==
  /\ DOMAIN handler' = Handlers /\ handler'[h] = new
  /\ \A k \in Handlers \ {h} : handler'[k] = handler[k]

CreatedFrom(it, new, context, route) ==
  /\ it.pc = "none"
  /\ SameBut(it, new, {"pc", "context", "route"})
  /\ new.pc = "created" /\ new.context = context /\ new.route = {route}

\* CreateRequestHandler changes three fields of one handler.
LEMMA CreateEffect ==
  ASSUME AreHandlers, NEW h \in Handlers, NEW context, NEW route, handler[h].pc = "none",
         handler' = [handler EXCEPT ![h].pc = "created", ![h].context = context, ![h].route = {route}]
  PROVE  \E new : Only(h, new) /\ CreatedFrom(handler[h], new, context, route)
<1> DEFINE it == handler[h]
           a == [it EXCEPT !.pc = "created"]
           b == [a EXCEPT !.context = context]
           c == [b EXCEPT !.route = {route}]
<1>0. IsHandler(it)
  BY DEF AreHandlers
<1>1. SameBut(it, a, {"pc"}) /\ a.pc = "created"
  <2> HIDE DEF it
  <2> QED BY <1>0 DEF IsHandler, Fields, SameBut
<1>2. SameBut(a, b, {"context"}) /\ b.context = context
  <2> HIDE DEF a
  <2> QED BY <1>1 DEF IsHandler, Fields, SameBut
<1>3. SameBut(b, c, {"route"}) /\ c.route = {route}
  <2> HIDE DEF b
  <2> QED BY <1>2 DEF IsHandler, Fields, SameBut
<1>4. Only(h, c)
  BY DEF AreHandlers, Only
<1> HIDE DEF a, b, c
<1>5. CreatedFrom(it, c, context, route)
  BY <1>1, <1>2, <1>3 DEF CreatedFrom, SameBut, Fields
<1> QED BY <1>4, <1>5

\* Only the attributes of the request change.
OnlyAttributes(request, new, attributes) ==
  /\ DOMAIN new = RequestFields /\ new.attributes = attributes
  /\ new.quotas = request.quotas /\ new.check_status = request.check_status

ExtractedFrom(it, new, config, data) ==
  /\ it.pc = "created"
  /\ SameBut(it, new, {"pc", "request"})
  /\ new.pc = "checked"
  /\ OnlyAttributes(it.request, new.request, Extract(config, data, it.request.attributes))

\* ExtractRequestAttributes changes the attributes of one handler.
LEMMA ExtractEffect ==
  ASSUME AreHandlers, NEW h \in Handlers, NEW data, ExtractRequestAttributes(h, data)
  PROVE  \E new : Only(h, new) /\ ExtractedFrom(handler[h], new, ConfigOf(h), data)
<1> DEFINE it == handler[h]
           attributes == Extract(ConfigOf(h), data, it.request.attributes)
           request == [it.request EXCEPT !.attributes = attributes]
           a == [it EXCEPT !.pc = "checked"]
           b == [a EXCEPT !.request = request]
<1>0. IsHandler(it) /\ it.pc = "created"
  BY DEF AreHandlers, ExtractRequestAttributes
<1>1. SameBut(it, a, {"pc"}) /\ a.pc = "checked"
  <2> HIDE DEF it
  <2> QED BY <1>0 DEF IsHandler, Fields, SameBut
<1>2. OnlyAttributes(it.request, request, attributes)
  <2> HIDE DEF it, attributes
  <2> QED BY <1>0 DEF IsHandler, RequestFields, OnlyAttributes
<1>3. a.request = it.request
  BY <1>1 DEF SameBut, Fields
<1>4. handler' = [handler EXCEPT ![h].pc = "checked", ![h].request.attributes = attributes]
  BY DEF ExtractRequestAttributes
<1>5. Only(h, b)
  <2>1. handler' = [handler EXCEPT ![h] = b]
    <3> HIDE DEF attributes
    <3> QED BY <1>3, <1>4 DEF AreHandlers
  <2> HIDE DEF b
  <2> QED BY <2>1 DEF AreHandlers, Only
<1> HIDE DEF request
<1>6. SameBut(a, b, {"request"}) /\ b.request = request
  <2> HIDE DEF a
  <2> QED BY <1>1, <1>2 DEF IsHandler, Fields, SameBut, OnlyAttributes
<1> HIDE DEF a, b, attributes
<1>7. SameBut(it, b, {"pc", "request"}) /\ b.pc = "checked"
  BY <1>1, <1>6 DEF SameBut, Fields
<1>8. ExtractedFrom(it, b, ConfigOf(h), data)
  BY <1>0, <1>2, <1>6, <1>7 DEF ExtractedFrom, attributes
<1> QED BY <1>5, <1>8

AnsweredFrom(it, new, status) ==
  /\ it.pc = "checking"
  /\ SameBut(it, new, {"pc", "request", "verdict"})
  /\ new.pc = "checked" /\ new.verdict = {status}
  /\ new.request.attributes = it.request.attributes /\ new.request.quotas = it.request.quotas
  /\ new.request.check_status = status

\* Answer changes the status of one handler.
LEMMA AnswerEffect ==
  ASSUME AreHandlers, NEW h \in Handlers, NEW status, Answer(h, status)
  PROVE  \E new : Only(h, new) /\ AnsweredFrom(handler[h], new, status)
<1> DEFINE it == handler[h]
           request == [it.request EXCEPT !.check_status = status]
           a == [it EXCEPT !.pc = "checked"]
           b == [a EXCEPT !.request = request]
           c == [b EXCEPT !.verdict = {status}]
<1>0. IsHandler(it) /\ it.pc = "checking"
  BY DEF AreHandlers, Answer
<1>1. SameBut(it, a, {"pc"}) /\ a.pc = "checked"
  <2> HIDE DEF it
  <2> QED BY <1>0 DEF IsHandler, Fields, SameBut
<1>2. /\ DOMAIN request = RequestFields
      /\ request.attributes = it.request.attributes /\ request.quotas = it.request.quotas
      /\ request.check_status = status
  <2> HIDE DEF it
  <2> QED BY <1>0 DEF IsHandler, RequestFields
<1>3. a.request = it.request
  BY <1>1 DEF SameBut, Fields
<1>4. handler' = [handler EXCEPT ![h].pc = "checked", ![h].request = SaveStatus(@, status),
                                 ![h].verdict = {status}]
  BY DEF Answer
<1>5. Only(h, c)
  <2>1. handler' = [handler EXCEPT ![h] = c]
    BY <1>3, <1>4 DEF AreHandlers, SaveStatus
  <2> HIDE DEF c
  <2> QED BY <2>1 DEF AreHandlers, Only
<1> HIDE DEF request
<1>6. SameBut(a, b, {"request"}) /\ b.request = request
  <2> HIDE DEF a
  <2> QED BY <1>1, <1>2 DEF IsHandler, Fields, SameBut
<1>7. SameBut(b, c, {"verdict"}) /\ c.verdict = {status}
  <2> HIDE DEF b
  <2> QED BY <1>6 DEF IsHandler, Fields, SameBut
<1> HIDE DEF a, b, c
<1>8. /\ SameBut(it, c, {"pc", "request", "verdict"}) /\ c.pc = "checked" /\ c.request = request
  BY <1>1, <1>6, <1>7 DEF SameBut, Fields
<1>9. AnsweredFrom(it, c, status)
  BY <1>0, <1>2, <1>7, <1>8 DEF AnsweredFrom
<1> QED BY <1>5, <1>9

ReportedFrom(it, new, data) ==
  /\ it.pc \in {"checking", "checked"} /\ it.report = {}
  /\ SameBut(it, new, {"request", "report"})
  /\ OnlyAttributes(it.request, new.request, ExtractReportAttributes(it.request, data))
  /\ new.report = {[attributes |-> new.request.attributes, data |-> data, verdict |-> it.verdict]}

\* Report changes the attributes of one handler and makes its report.
LEMMA ReportEffect ==
  ASSUME AreHandlers, NEW h \in Handlers, NEW data, Report(h, data)
  PROVE  \E new : Only(h, new) /\ ReportedFrom(handler[h], new, data)
<1> DEFINE it == handler[h]
           attributes == ExtractReportAttributes(it.request, data)
           report == {[attributes |-> attributes, data |-> data, verdict |-> it.verdict]}
           request == [it.request EXCEPT !.attributes = attributes]
           a == [it EXCEPT !.request = request]
           b == [a EXCEPT !.report = report]
<1>0. IsHandler(it) /\ it.pc \in {"checking", "checked"} /\ it.report = {}
  BY DEF AreHandlers, Report
<1>1. OnlyAttributes(it.request, request, attributes)
  <2> HIDE DEF it, attributes
  <2> QED BY <1>0 DEF IsHandler, RequestFields, OnlyAttributes
<1>2. handler' = [handler EXCEPT ![h].request.attributes = attributes, ![h].report = report]
  BY DEF Report
<1>3. Only(h, b)
  <2>1. handler' = [handler EXCEPT ![h] = b]
    <3> HIDE DEF attributes, report
    <3> QED BY <1>2 DEF AreHandlers
  <2> HIDE DEF b
  <2> QED BY <2>1 DEF AreHandlers, Only
<1> HIDE DEF request
<1>4. SameBut(it, a, {"request"}) /\ a.request = request
  <2> HIDE DEF it
  <2> QED BY <1>0, <1>1 DEF IsHandler, Fields, SameBut, OnlyAttributes
<1> HIDE DEF report
<1>5. SameBut(a, b, {"report"}) /\ b.report = report
  <2> HIDE DEF a
  <2> QED BY <1>4 DEF IsHandler, Fields, SameBut
<1> HIDE DEF a, b, attributes
<1>6. SameBut(it, b, {"request", "report"}) /\ b.request = request
  BY <1>4, <1>5 DEF SameBut, Fields
<1>7. request.attributes = attributes
  BY <1>1 DEF OnlyAttributes
<1>8. ReportedFrom(it, b, data)
  BY <1>0, <1>1, <1>5, <1>6, <1>7 DEF ReportedFrom, attributes, report
<1> QED BY <1>3, <1>8

\* A check that is sent, with the quotas and, when it comes at once, the answer.
SentFrom(it, new, config, data, answer) ==
  /\ enable_mixer_check(config)
  /\ new.pc = (IF answer = {} THEN "checking" ELSE "checked") /\ new.verdict = answer
  /\ new.request.quotas = AddQuotas(The(config).quota_spec, new.request.attributes, it.request.quotas)
  /\ new.request.check_status = IF answer = {} THEN it.request.check_status ELSE The(answer)
  /\ new.check = {[attributes |-> new.request.attributes, quotas |-> new.request.quotas,
                   data |-> data]}

NotSentFrom(it, new) ==
  /\ SameBut(it, new, {"pc", "request", "upstream"})
  /\ new.pc = "checked"
  /\ new.request.quotas = it.request.quotas
  /\ new.request.check_status = it.request.check_status

CheckedFrom(it, new, config, data, answer) ==
  /\ it.pc = "created"
  /\ SameBut(it, new, {"pc", "request", "upstream", "check", "verdict"})
  /\ new.request.attributes = Extract(config, data, it.request.attributes)
  /\ SentFrom(it, new, config, data, answer) \/ NotSentFrom(it, new)

\* SendCheck sends what the request holds by then.
LEMMA SendEffect ==
  ASSUME NEW q, IsHandler(q), NEW data, NEW answer, NEW new, new = SendCheck(q, data, answer)
  PROVE  /\ SameBut(q, new, {"pc", "request", "check", "verdict"})
         /\ new.pc = (IF answer = {} THEN "checking" ELSE "checked") /\ new.verdict = answer
         /\ DOMAIN new.request = RequestFields
         /\ new.request.attributes = q.request.attributes /\ new.request.quotas = q.request.quotas
         /\ new.request.check_status = IF answer = {} THEN q.request.check_status ELSE The(answer)
         /\ new.check = {[attributes |-> q.request.attributes, quotas |-> q.request.quotas,
                          data |-> data]}
<1> DEFINE pc == IF answer = {} THEN "checking" ELSE "checked"
           request == Sent(q.request, answer)
           check == {[attributes |-> q.request.attributes, quotas |-> q.request.quotas, data |-> data]}
           a == [q EXCEPT !.pc = pc]
           b == [a EXCEPT !.request = request]
           c == [b EXCEPT !.check = check]
           d == [c EXCEPT !.verdict = answer]
<1>1. /\ DOMAIN request = RequestFields
      /\ request.attributes = q.request.attributes /\ request.quotas = q.request.quotas
      /\ request.check_status = IF answer = {} THEN q.request.check_status ELSE The(answer)
  <2>1. CASE answer = {}
    BY <2>1 DEF IsHandler, Sent
  <2>2. CASE answer # {}
    BY <2>2 DEF IsHandler, RequestFields, Sent, SaveStatus
  <2> QED BY <2>1, <2>2
<1> HIDE DEF pc
<1>2. SameBut(q, a, {"pc"}) /\ a.pc = pc
  BY DEF IsHandler, Fields, SameBut
<1>3. a.request = q.request
  BY <1>2 DEF SameBut, Fields
<1>4. new = d
  <2>1. new = [q EXCEPT !.pc = pc, !.request = Sent(@, answer), !.check = check, !.verdict = answer]
    BY DEF SendCheck, pc
  <2>2. new = [[[a EXCEPT !.request = Sent(a.request, answer)] EXCEPT !.check = check] EXCEPT !.verdict = answer]
    <3> HIDE DEF check
    <3> QED BY <2>1
  <2> HIDE DEF a, check
  <2> QED BY <1>3, <2>2
<1> HIDE DEF request, check
<1>5. SameBut(a, b, {"request"}) /\ b.request = request
  <2> HIDE DEF a
  <2> QED BY <1>1, <1>2 DEF IsHandler, Fields, SameBut
<1>6. SameBut(b, c, {"check"}) /\ c.check = check
  <2> HIDE DEF b
  <2> QED BY <1>5 DEF IsHandler, Fields, SameBut
<1>7. SameBut(c, d, {"verdict"}) /\ d.verdict = answer
  <2> HIDE DEF c
  <2> QED BY <1>6 DEF IsHandler, Fields, SameBut
<1> HIDE DEF a, b, c, d
<1>8. /\ SameBut(q, d, {"pc", "request", "check", "verdict"})
      /\ d.pc = pc /\ d.verdict = answer /\ d.request = request /\ d.check = check
  BY <1>2, <1>5, <1>6, <1>7 DEF SameBut, Fields
<1> QED BY <1>1, <1>4, <1>8 DEF pc, check

\* Check extracts, and sends what its configuration lets it send.
LEMMA CheckEffect ==
  ASSUME AreHandlers, NEW h \in Handlers, NEW data, NEW answer, Check(h, data, answer)
  PROVE  \E new : Only(h, new) /\ CheckedFrom(handler[h], new, ConfigOf(h), data, answer)
<1> DEFINE it == handler[h]
           config == ConfigOf(h)
           attributes == Extract(config, data, it.request.attributes)
           request == [it.request EXCEPT !.attributes = attributes]
           a == [it EXCEPT !.request = request]
           b == [a EXCEPT !.upstream = http_config.forward_attributes]
           new == CheckExtracted(b, config, data, answer)
<1>0. IsHandler(it) /\ it.pc = "created"
  BY DEF AreHandlers, Check
<1>1. OnlyAttributes(it.request, request, attributes)
  <2> HIDE DEF it, attributes
  <2> QED BY <1>0 DEF IsHandler, RequestFields, OnlyAttributes
<1>2. handler' = [handler EXCEPT ![h] = new]
  <2>1. handler' = [handler EXCEPT ![h] =
          CheckExtracted([it EXCEPT !.request.attributes = Extract(config, data, it.request.attributes),
                                    !.upstream = http_config.forward_attributes],
                         config, data, answer)]
    BY DEF Check
  <2>2. b = [it EXCEPT !.request.attributes = Extract(config, data, it.request.attributes),
                       !.upstream = http_config.forward_attributes]
    <3> HIDE DEF config, it
    <3> QED OBVIOUS
  <2> HIDE DEF b
  <2> QED BY <2>1, <2>2
<1>3. Only(h, new)
  <2> HIDE DEF new
  <2> QED BY <1>2 DEF AreHandlers, Only
<1> HIDE DEF request
<1>4. SameBut(it, a, {"request"}) /\ a.request = request
  <2> HIDE DEF it
  <2> QED BY <1>0, <1>1 DEF IsHandler, Fields, SameBut, OnlyAttributes
<1>5. SameBut(a, b, {"upstream"})
  <2> HIDE DEF a
  <2> QED BY <1>4 DEF IsHandler, Fields, SameBut
<1> HIDE DEF a, b
<1>6. SameBut(it, b, {"request", "upstream"}) /\ b.request = request
  BY <1>4, <1>5 DEF SameBut, Fields
<1>7. request.attributes = attributes /\ DOMAIN request = RequestFields
      /\ request.quotas = it.request.quotas /\ request.check_status = it.request.check_status
  BY <1>1 DEF OnlyAttributes
<1> HIDE DEF config, attributes
<1>8. CASE ~enable_mixer_check(config)
  <2>1. new = [b EXCEPT !.pc = "checked"]
    BY <1>8 DEF CheckExtracted
  <2> HIDE DEF new
  <2>2. SameBut(b, new, {"pc"}) /\ new.pc = "checked"
    BY <1>6, <2>1 DEF IsHandler, Fields, SameBut
  <2>3. /\ SameBut(it, new, {"pc", "request", "upstream"}) /\ new.request = request
        /\ SameBut(it, new, {"pc", "request", "upstream", "check", "verdict"})
    BY <1>6, <2>2 DEF SameBut, Fields
  <2> HIDE DEF it
  <2>4. CheckedFrom(it, new, config, data, answer)
    BY <1>0, <1>7, <2>2, <2>3 DEF CheckedFrom, NotSentFrom, attributes
  <2> QED BY <1>3, <2>4 DEF it, config
<1>9. CASE enable_mixer_check(config)
  <2> DEFINE quotas == AddQuotas(The(config).quota_spec, attributes, it.request.quotas)
             r == [request EXCEPT !.quotas = quotas]
             q == [b EXCEPT !.request = r]
  <2>1. new = SendCheck(q, data, answer)
    <3>1. new = SendCheck([b EXCEPT !.request.quotas =
                   AddQuotas(The(config).quota_spec, b.request.attributes, @)], data, answer)
      BY <1>9 DEF CheckExtracted
    <3> QED BY <1>6, <1>7, <3>1
  <2>2. /\ r.attributes = attributes /\ r.quotas = quotas /\ DOMAIN r = RequestFields
        /\ r.check_status = it.request.check_status
    <3> HIDE DEF quotas
    <3> QED BY <1>7 DEF RequestFields
  <2> HIDE DEF r, new
  <2>3. SameBut(b, q, {"request"}) /\ q.request = r
    BY <1>6, <2>2 DEF IsHandler, Fields, SameBut
  <2> HIDE DEF q
  <2>4. /\ SameBut(q, new, {"pc", "request", "check", "verdict"})
        /\ new.pc = (IF answer = {} THEN "checking" ELSE "checked") /\ new.verdict = answer
        /\ new.request.attributes = r.attributes /\ new.request.quotas = r.quotas
        /\ new.request.check_status = IF answer = {} THEN r.check_status ELSE The(answer)
        /\ new.check = {[attributes |-> r.attributes, quotas |-> r.quotas, data |-> data]}
    BY <2>1, <2>3, SendEffect DEF SameBut
  <2>5. SameBut(it, new, {"pc", "request", "upstream", "check", "verdict"})
    BY <1>6, <2>3, <2>4 DEF SameBut, Fields
  <2>6. SentFrom(it, new, config, data, answer)
    <3> HIDE DEF it
    <3> QED BY <1>9, <2>2, <2>4 DEF SentFrom, quotas
  <2> HIDE DEF it
  <2>7. CheckedFrom(it, new, config, data, answer)
    BY <1>0, <2>2, <2>4, <2>5, <2>6 DEF CheckedFrom, attributes
  <2> QED BY <1>3, <2>7 DEF it, config
<1> QED BY <1>8, <1>9

\* What a step may do to the handler h.
Moves(h) ==
  LET it == handler[h] new == handler'[h] IN
  \/ new = it
  \/ \E route \in Routes, context \in 1..Len(contexts') :
       CreatedFrom(it, new, context, route) /\ ContextRight(route, context)
  \/ \E data \in CheckData : ExtractedFrom(it, new, ConfigOf(h), data)
  \/ \E data \in CheckData, answer \in {{}} \cup {{s} : s \in Statuses} :
       CheckedFrom(it, new, ConfigOf(h), data, answer)
  \/ \E status \in Statuses : AnsweredFrom(it, new, status)
  \/ \E data \in ReportInfos : ReportedFrom(it, new, data)

\* A step of one handler leaves the others alone.
LEMMA OnlyOne ==
  ASSUME NEW h \in Handlers, AreHandlers, NEW new, Only(h, new), IsHandler(new)
  PROVE  AreHandlers' /\ handler'[h] = new /\ \A k \in Handlers \ {h} : Moves(k)
BY DEF AreHandlers, Only, Moves

\* Every step of the controller is one of six moves of a handler.
LEMMA HandlerMoves ==
  ASSUME ContextInv, AreHandlers, [HttpNext]_http_vars
  PROVE  AreHandlers' /\ \A h \in Handlers : Moves(h)
<1>1. CASE UNCHANGED handler
  BY <1>1 DEF AreHandlers, Moves
<1>2. ASSUME NEW h \in Handlers, NEW route \in Routes, CreateRequestHandler(h, route)
      PROVE  AreHandlers' /\ \A k \in Handlers : Moves(k)
  <2>1. PICK context : /\ GetServiceContext(route, context) /\ handler[h].pc = "none"
                       /\ handler' = [handler EXCEPT ![h].pc = "created", ![h].context = context,
                                                     ![h].route = {route}]
                       /\ UNCHANGED <<http_config, service_context_cache>>
    BY <1>2 DEF CreateRequestHandler
  <2>2. context \in 1..Len(contexts') /\ ContextRight(route, context)
    BY <2>1, CreateStep
  <2>3. PICK new : Only(h, new) /\ CreatedFrom(handler[h], new, context, route)
    BY <2>1, CreateEffect
  <2>4. IsHandler(new)
    BY <2>3 DEF CreatedFrom, SameBut
  <2>5. AreHandlers' /\ handler'[h] = new /\ \A k \in Handlers \ {h} : Moves(k)
    BY <2>3, <2>4, OnlyOne
  <2>6. Moves(h)
    BY <2>2, <2>3, <2>5 DEF Moves
  <2> QED BY <2>5, <2>6
<1>3. ASSUME NEW h \in Handlers, NEW data \in CheckData, ExtractRequestAttributes(h, data)
      PROVE  AreHandlers' /\ \A k \in Handlers : Moves(k)
  <2>1. PICK new : Only(h, new) /\ ExtractedFrom(handler[h], new, ConfigOf(h), data)
    BY <1>3, ExtractEffect
  <2>2. IsHandler(new)
    BY <2>1 DEF ExtractedFrom, SameBut
  <2>3. AreHandlers' /\ handler'[h] = new /\ \A k \in Handlers \ {h} : Moves(k)
    BY <2>1, <2>2, OnlyOne
  <2>4. Moves(h)
    BY <2>1, <2>3 DEF Moves
  <2> QED BY <2>3, <2>4
<1>4. ASSUME NEW h \in Handlers, NEW data \in CheckData, NEW answer \in {{}} \cup {{s} : s \in Statuses},
             Check(h, data, answer)
      PROVE  AreHandlers' /\ \A k \in Handlers : Moves(k)
  <2>1. PICK new : Only(h, new) /\ CheckedFrom(handler[h], new, ConfigOf(h), data, answer)
    BY <1>4, CheckEffect
  <2>2. IsHandler(new)
    BY <2>1 DEF CheckedFrom, SameBut
  <2>3. AreHandlers' /\ handler'[h] = new /\ \A k \in Handlers \ {h} : Moves(k)
    BY <2>1, <2>2, OnlyOne
  <2>4. Moves(h)
    BY <2>1, <2>3 DEF Moves
  <2> QED BY <2>3, <2>4
<1>5. ASSUME NEW h \in Handlers, NEW status \in Statuses, Answer(h, status)
      PROVE  AreHandlers' /\ \A k \in Handlers : Moves(k)
  <2>1. PICK new : Only(h, new) /\ AnsweredFrom(handler[h], new, status)
    BY <1>5, AnswerEffect
  <2>2. IsHandler(new)
    BY <2>1 DEF AnsweredFrom, SameBut
  <2>3. AreHandlers' /\ handler'[h] = new /\ \A k \in Handlers \ {h} : Moves(k)
    BY <2>1, <2>2, OnlyOne
  <2>4. Moves(h)
    BY <2>1, <2>3 DEF Moves
  <2> QED BY <2>3, <2>4
<1>6. ASSUME NEW h \in Handlers, NEW data \in ReportInfos, Report(h, data)
      PROVE  AreHandlers' /\ \A k \in Handlers : Moves(k)
  <2>1. PICK new : Only(h, new) /\ ReportedFrom(handler[h], new, data)
    BY <1>6, ReportEffect
  <2>2. IsHandler(new)
    BY <2>1 DEF ReportedFrom, SameBut
  <2>3. AreHandlers' /\ handler'[h] = new /\ \A k \in Handlers \ {h} : Moves(k)
    BY <2>1, <2>2, OnlyOne
  <2>4. Moves(h)
    BY <2>1, <2>3 DEF Moves
  <2> QED BY <2>3, <2>4
<1>7. CASE \E id \in DOMAIN Versions : LookupServiceConfig(id) \/ AddServiceConfig(id)
  BY <1>1, <1>7 DEF LookupServiceConfig, AddServiceConfig
<1>8. CASE UNCHANGED http_vars
  BY <1>1, <1>8 DEF http_vars
<1> QED BY <1>2, <1>3, <1>4, <1>5, <1>6, <1>7, <1>8 DEF HttpNext

\* How far a handler has got, and the status it keeps: that of the answer.
Progress(it) ==
  /\ it.pc \in {"none", "created", "checking", "checked"}
  /\ it.pc \in {"none", "created"} =>
       /\ it.request.attributes = <<>> /\ it.request.quotas = <<>> /\ it.request.check_status = "OK"
       /\ it.check = {} /\ it.verdict = {} /\ it.report = {}
  /\ it.pc = "checking" => it.verdict = {}
  /\ \/ it.verdict = {} /\ it.request.check_status = "OK"
     \/ it.verdict = {it.request.check_status}
  /\ it.report = {} => \A check \in it.check : it.request.attributes = check.attributes

HandlerInv ==
  /\ AreHandlers
  /\ \A h \in Handlers :
       /\ Progress(handler[h])
       /\ handler[h].pc # "none" => handler[h].context \in 1..Len(contexts)

\* The only element of a set.
LEMMA TheOne ==
  ASSUME NEW x
  PROVE  The({x}) = x
BY DEF The

\* No move of a handler loses track of its status or of its check.
LEMMA ProgressKept ==
  ASSUME NEW it, NEW new, Progress(it), NEW config, NEW context, NEW route, NEW data,
         NEW answer, answer = {} \/ \E s : answer = {s}, NEW status,
         \/ CreatedFrom(it, new, context, route)
         \/ ExtractedFrom(it, new, config, data)
         \/ CheckedFrom(it, new, config, data, answer)
         \/ AnsweredFrom(it, new, status)
         \/ ReportedFrom(it, new, data)
  PROVE  Progress(new)
<1>1. CASE CreatedFrom(it, new, context, route)
  BY <1>1 DEF CreatedFrom, SameBut, Fields, Progress
<1>2. CASE ExtractedFrom(it, new, config, data)
  BY <1>2 DEF ExtractedFrom, OnlyAttributes, SameBut, Fields, Progress
<1>3. CASE CheckedFrom(it, new, config, data, answer)
  <2>1. CASE SentFrom(it, new, config, data, answer)
    <3>1. new.report = {} /\ it.request.check_status = "OK"
      BY <1>3 DEF CheckedFrom, SameBut, Fields, Progress
    <3>2. \A check \in new.check : new.request.attributes = check.attributes
      BY <2>1 DEF SentFrom
    <3>3. /\ new.verdict = answer
          /\ new.request.check_status = IF answer = {} THEN it.request.check_status ELSE The(answer)
          /\ new.pc = (IF answer = {} THEN "checking" ELSE "checked")
      BY <2>1 DEF SentFrom
    <3>4. CASE answer = {}
      BY <3>1, <3>2, <3>3, <3>4 DEF Progress
    <3>5. CASE answer # {}
      <4>1. PICK s : answer = {s}
        BY <3>5
      <4>2. new.request.check_status = s /\ new.verdict = {s} /\ new.pc = "checked"
        BY <3>3, <3>5, <4>1, TheOne
      <4> QED BY <3>1, <3>2, <4>2 DEF Progress
    <3> QED BY <3>4, <3>5
  <2>2. CASE NotSentFrom(it, new)
    BY <1>3, <2>2 DEF CheckedFrom, NotSentFrom, SameBut, Fields, Progress
  <2> QED BY <1>3, <2>1, <2>2 DEF CheckedFrom
<1>4. CASE AnsweredFrom(it, new, status)
  BY <1>4 DEF AnsweredFrom, SameBut, Fields, Progress
<1>5. CASE ReportedFrom(it, new, data)
  BY <1>5 DEF ReportedFrom, OnlyAttributes, SameBut, Fields, Progress
<1> QED BY <1>1, <1>2, <1>3, <1>4, <1>5

HttpInv == ContextInv /\ HandlerInv

\* No handler has been created at first.
LEMMA HttpInvInit == HttpInit => HttpInv
<1> SUFFICES ASSUME HttpInit PROVE HttpInv
  OBVIOUS
<1>1. DOMAIN handler = Handlers /\ \A h \in Handlers : handler[h] = NewHandler
  BY DEF HttpInit
<1>2. IsHandler(NewHandler) /\ Progress(NewHandler) /\ NewHandler.pc = "none"
  BY DEF NewHandler, NewRequestContext, IsHandler, Fields, RequestFields, Progress
<1> QED BY <1>1, <1>2, ContextInit DEF HttpInv, HandlerInv, AreHandlers

\* A handler stays with its context, and the context with its configuration.
LEMMA MovesKeep ==
  ASSUME HttpInv, [HttpNext]_http_vars, NEW h \in Handlers, handler[h].pc # "none"
  PROVE  /\ handler'[h].context = handler[h].context /\ handler'[h].route = handler[h].route
         /\ handler'[h].pc # "none"
         /\ (ConfigOf(h))' = ConfigOf(h)
<1>1. handler[h].context \in 1..Len(contexts)
  BY DEF HttpInv, HandlerInv
<1>2. \A k \in 1..Len(contexts) : k \in 1..Len(contexts') /\ contexts'[k] = contexts[k]
  BY ContextsGrow DEF HttpInv, ContextsStay
<1>3. Moves(h)
  BY HandlerMoves DEF HttpInv, HandlerInv
<1>4. /\ handler'[h].context = handler[h].context /\ handler'[h].route = handler[h].route
      /\ handler'[h].pc # "none"
  <2>1. handler'[h] = handler[h] \/ \E data, answer, status :
           \/ ExtractedFrom(handler[h], handler'[h], ConfigOf(h), data)
           \/ CheckedFrom(handler[h], handler'[h], ConfigOf(h), data, answer)
           \/ AnsweredFrom(handler[h], handler'[h], status)
           \/ ReportedFrom(handler[h], handler'[h], data)
    BY <1>3 DEF Moves, CreatedFrom
  <2>2. CASE handler'[h] = handler[h]
    BY <2>2
  <2>3. ASSUME NEW data, ExtractedFrom(handler[h], handler'[h], ConfigOf(h), data) PROVE <1>4!:
    BY <2>3 DEF ExtractedFrom, SameBut, Fields
  <2>4. ASSUME NEW data, NEW answer, CheckedFrom(handler[h], handler'[h], ConfigOf(h), data, answer)
        PROVE <1>4!:
    BY <2>4 DEF CheckedFrom, SentFrom, NotSentFrom, SameBut, Fields
  <2>5. ASSUME NEW status, AnsweredFrom(handler[h], handler'[h], status) PROVE <1>4!:
    BY <2>5 DEF AnsweredFrom, SameBut, Fields
  <2>6. ASSUME NEW data, ReportedFrom(handler[h], handler'[h], data) PROVE <1>4!:
    BY <2>6 DEF ReportedFrom, SameBut, Fields
  <2> QED BY <2>1, <2>2, <2>3, <2>4, <2>5, <2>6
<1>5. (ConfigOf(h))' = ConfigOf(h)
  BY <1>1, <1>2, <1>4 DEF ConfigOf
<1> QED BY <1>4, <1>5

\* Every step keeps the handlers and their contexts right.
LEMMA HttpInvNext ==
  ASSUME HttpInv, [HttpNext]_http_vars
  PROVE  HttpInv'
<1>1. ContextInv' /\ AreHandlers'
  BY ContextNext, HandlerMoves DEF HttpInv, HandlerInv
<1>2. \A k \in 1..Len(contexts) : k \in 1..Len(contexts') /\ contexts'[k] = contexts[k]
  BY ContextsGrow DEF HttpInv, ContextsStay
<1>3. ASSUME NEW h \in Handlers PROVE Progress(handler'[h])
  <2>1. Moves(h) /\ Progress(handler[h])
    BY HandlerMoves DEF HttpInv, HandlerInv
  <2> QED BY <2>1, ProgressKept DEF Moves
<1>4. ASSUME NEW h \in Handlers, handler'[h].pc # "none"
      PROVE  handler'[h].context \in 1..Len(contexts')
  <2>1. CASE handler[h].pc # "none"
    BY <1>2, <2>1, MovesKeep DEF HttpInv, HandlerInv
  <2>2. CASE handler[h].pc = "none"
    <3>1. Moves(h)
      BY HandlerMoves DEF HttpInv, HandlerInv
    <3> QED BY <1>4, <2>2, <3>1 DEF Moves, CreatedFrom, ExtractedFrom, CheckedFrom, AnsweredFrom, ReportedFrom
  <2> QED BY <2>1, <2>2
<1> QED BY <1>1, <1>3, <1>4 DEF HttpInv, HandlerInv

\* The inductive invariant of the HTTP controller: every name and every cached id
\* has its context, the cache holds the ids used last, and each handler keeps the
\* context it was created with and the status of the answer it got.
THEOREM HttpInvariant == Spec => []HttpInv
<1>1. Init => HttpInv
  BY Steps, HttpInvInit
<1>2. HttpInv /\ [Next]_vars => HttpInv'
  BY Steps, HttpInvNext
<1> QED BY <1>1, <1>2, PTL DEF Spec

\* GetServiceContext makes one context per service, for every configuration and
\* any names asked for: names share a context exactly if they mean one service.
THEOREM OneContext == Spec => []OneContextPerService
<1>1. HttpInv => OneContextPerService
  BY DEF HttpInv, ContextInv, ByName, OneContextPerService
<1> QED BY <1>1, HttpInvariant, PTL

\* The body of HandlerGetsItsConfig.
GetsItsConfig ==
  \A h \in Handlers : handler[h].route = {} =>
       \A route \in handler'[h].route :
         LET id == route.service_config_id
             cached == ToSet(SubSeq(recent, Max({1, Len(recent) - CacheLimit + 1}), Len(recent)))
         IN contexts'[handler'[h].context] =
              IF id # "" /\ id \in cached THEN {Versions[id]}
              ELSE GetServiceConfig(GetServiceName(route.destination_service))

\* A handler that a step creates gets what its route says.
LEMMA GetsStep ==
  ASSUME HttpInv, [HttpNext]_http_vars
  PROVE  GetsItsConfig
<1> SUFFICES ASSUME NEW h \in Handlers, handler[h].route = {}, NEW route \in handler'[h].route
             PROVE  LET id == route.service_config_id
                        cached == ToSet(SubSeq(recent, Max({1, Len(recent) - CacheLimit + 1}), Len(recent)))
                    IN contexts'[handler'[h].context] =
                         IF id # "" /\ id \in cached THEN {Versions[id]}
                         ELSE GetServiceConfig(GetServiceName(route.destination_service))
  BY DEF GetsItsConfig
<1>1. ToSet(SubSeq(recent, Max({1, Len(recent) - CacheLimit + 1}), Len(recent)))
        = DOMAIN service_context_cache
  BY DEF HttpInv, ContextInv, ById, Kept
<1>2. handler[h].pc = "none"
  BY MovesKeep
<1>3. Moves(h)
  BY HandlerMoves DEF HttpInv, HandlerInv
<1>4. PICK r \in Routes, context \in 1..Len(contexts') :
        CreatedFrom(handler[h], handler'[h], context, r) /\ ContextRight(r, context)
  BY <1>2, <1>3 DEF Moves, CreatedFrom, ExtractedFrom, CheckedFrom, AnsweredFrom, ReportedFrom
<1>5. handler'[h].context = context /\ route = r
  BY <1>4 DEF CreatedFrom
<1> QED BY <1>1, <1>4, <1>5 DEF ContextRight, ByIdNot

\* A handler gets the configuration of its route's id while that id is among the
\* CacheLimit used last, for every size of the cache and any use of it.
THEOREM HandlersGetTheirConfig == Spec => HandlerGetsItsConfig
<1>1. HttpInv /\ [Next]_vars => [GetsItsConfig]_vars
  BY Steps, GetsStep
<1>2. Spec => [][GetsItsConfig]_vars
  BY <1>1, HttpInvariant, PTL DEF Spec
<1> QED BY <1>2 DEF HandlerGetsItsConfig, GetsItsConfig

-----------------------------------------------------------------------------
(* What is found among attributes *)

\* What AddFound leaves and what it sets.
LEMMA FindFound ==
  ASSUME NEW a, NEW key, NEW type, NEW found, NEW name
  PROVE  /\ name = key /\ found # {} =>
              Find(AddFound(a, key, type, found), name) = {[type |-> type, value |-> The(found)]}
         /\ name # key => Find(AddFound(a, key, type, found), name) = Find(a, name)
BY FindSet DEF AddFound

\* What AddStringMap leaves.
LEMMA FindStringMap ==
  ASSUME NEW a, NEW key, NEW map, NEW name, name # key
  PROVE  Find(AddStringMap(a, key, map), name) = Find(a, name)
BY FindSet DEF AddStringMap

\* The of a set is in it.
LEMMA TheIn ==
  ASSUME NEW set, set # {}
  PROVE  The(set) \in set
BY DEF The

\* What MergeFound leaves.
LEMMA FindMergeFound ==
  ASSUME NEW a, NEW found, NEW name, \A more \in found : name \notin DOMAIN more
  PROVE  Find(MergeFound(a, found), name) = Find(a, name)
<1>1. CASE found = {}
  BY <1>1 DEF MergeFound
<1>2. CASE found # {}
  BY <1>2, TheIn, FindMerge DEF MergeFound
<1> QED BY <1>1, <1>2

\* What MergeEach leaves.
LEMMA FindMergeEach ==
  ASSUME NEW a, NEW maps, NEW name, \A k \in DOMAIN maps : name \notin DOMAIN maps[k]
  PROVE  Find(MergeEach(a, maps), name) = Find(a, name)
<1> DEFINE with(n) == {k \in DOMAIN maps : n \in DOMAIN maps[k]}
           more == [n \in UNION {DOMAIN maps[k] : k \in DOMAIN maps} |-> maps[Max(with(n))][n]]
<1>1. MergeEach(a, maps) = MergeFrom(a, more)
  BY DEF MergeEach
<1>2. name \notin DOMAIN more
  OBVIOUS
<1> HIDE DEF more
<1> QED BY <1>1, <1>2, FindMerge

\* What the API attributes of a service leave alone.
LEMMA ApiLeaves ==
  ASSUME NEW service \in ServiceConfigs, NEW data \in CheckData, NEW a,
         NEW name, name \notin ApiNames({service}), name # "request.api_key"
  PROVE  Find(AddApiAttributes({service}, data, a), name) = Find(a, name)
<1> DEFINE spec == ApiSpec(service)
           method == data.header_type["HEADER_METHOD"]
           path == data.header_type["HEADER_PATH"]
           added == AddAttributes(spec, method, path, a)
           b == IF NamesPath(data) THEN added ELSE a
<1>1. The({service}) = service
  BY TheOne
<1>2. /\ name \notin DOMAIN spec.attributes
      /\ \A p \in ToSet(spec.patterns) : name \notin DOMAIN p.attributes
  BY <1>1 DEF ApiNames
<1>3. AddApiAttributes({service}, data, a) = AddFound(b, "request.api_key", "string", ExtractApiKey(spec, data))
  BY <1>1 DEF AddApiAttributes
<1>4. ASSUME NamesPath(data) PROVE Find(added, name) = Find(a, name)
  <2> DEFINE matched == MatchedPatterns(spec.patterns, method, path)
             maps == [k \in DOMAIN matched |-> spec.patterns[matched[k]].attributes]
             base == MergeFrom(a, spec.attributes)
  <2>1. added = MergeEach(base, maps)
    BY DEF AddAttributes
  <2>2. matched \in Seq(DOMAIN spec.patterns)
    BY <1>4, MatchedAssumption
  <2>3. \A k \in DOMAIN matched : matched[k] \in DOMAIN spec.patterns
    <3> HIDE DEF matched
    <3> QED BY <2>2, LenProperties, ElementOfSeq
  <2> HIDE DEF matched, spec
  <2>4. \A k \in DOMAIN maps : name \notin DOMAIN maps[k]
    BY <1>2, <2>3 DEF ToSet
  <2> HIDE DEF maps
  <2>5. Find(MergeEach(base, maps), name) = Find(base, name)
    BY <2>4, FindMergeEach
  <2>6. Find(base, name) = Find(a, name)
    BY <1>2, FindMerge
  <2> QED BY <2>1, <2>5, <2>6
<1>5. Find(b, name) = Find(a, name)
  <2> HIDE DEF added
  <2> QED BY <1>4
<1> HIDE DEF b
<1> QED BY <1>3, <1>5, FindFound

\* The names that a step of the builder writes.
HeaderNames == DOMAIN TopLevelAttrs \cup {"request.headers"}
AuthNames == {"request.auth.principal", "request.auth.audiences", "request.auth.presenter",
              "request.auth.claims"}
CheckNames == HeaderNames \cup AuthNames \cup
  {"source.ip", "source.port", "connection.mtls", "source.user", "request.time", "context.protocol"}
ReportNames == {"response.headers", "response.time", "request.size", "response.size",
                "response.duration", "response.code", "check.error_code", "check.error_message"}

\* The attributes of the request's headers leave other names alone.
LEMMA HeadersLeave ==
  ASSUME NEW a, NEW data, NEW name, name \notin HeaderNames
  PROVE  Find(ExtractRequestHeaderAttributes(a, data), name) = Find(a, name)
<1> DEFINE found(n) == FirstFound(<<Find(data.header_type, TopLevelAttrs[n][1]),
                                   TopLevelAttrs[n][2]>>)
           more == [n \in {m \in DOMAIN TopLevelAttrs : found(m) # {}} |->
                      [type |-> "string", value |-> The(found(n))]]
           b == AddStringMap(a, "request.headers", data.header)
<1>1. ExtractRequestHeaderAttributes(a, data) = MergeFrom(b, more)
  BY DEF ExtractRequestHeaderAttributes
<1>2. name \notin DOMAIN more
  BY DEF HeaderNames
<1> HIDE DEF more
<1>3. Find(b, name) = Find(a, name)
  BY FindStringMap DEF HeaderNames
<1> HIDE DEF b
<1> QED BY <1>1, <1>2, <1>3, FindMerge

\* The attributes of its authentication leave other names alone.
LEMMA AuthLeaves ==
  ASSUME NEW a, NEW data, NEW name, name \notin AuthNames
  PROVE  Find(ExtractRequestAuthAttributes(a, data), name) = Find(a, name)
<1> DEFINE payload == IF data.jwt_payload = {} THEN <<>> ELSE The(data.jwt_payload)
           principal == {iss \o <<"/">> \o sub : iss \in Find(payload, "iss"),
                                                 sub \in Find(payload, "sub")}
           named == AddFound(a, "request.auth.principal", "string", principal)
           aud   == AddFound(named, "request.auth.audiences", "string", Find(payload, "aud"))
           azp   == AddFound(aud, "request.auth.presenter", "string", Find(payload, "azp"))
<1>1. ExtractRequestAuthAttributes(a, data) = AddStringMap(azp, "request.auth.claims", payload)
  BY DEF ExtractRequestAuthAttributes
<1> HIDE DEF principal, payload
<1>2. Find(named, name) = Find(a, name)
  BY FindFound DEF AuthNames
<1> HIDE DEF named
<1>3. Find(aud, name) = Find(named, name)
  BY FindFound DEF AuthNames
<1> HIDE DEF aud
<1>4. Find(azp, name) = Find(aud, name)
  BY FindFound DEF AuthNames
<1> HIDE DEF azp
<1>5. Find(AddStringMap(azp, "request.auth.claims", payload), name) = Find(azp, name)
  BY FindStringMap DEF AuthNames
<1> QED BY <1>1, <1>2, <1>3, <1>4, <1>5

\* The attributes of a report leave other names alone.
LEMMA ReportLeaves ==
  ASSUME NEW request, NEW data, NEW name, name \notin ReportNames
  PROVE  Find(ExtractReportAttributes(request, data), name) = Find(request.attributes, name)
<1> DEFINE a == AddStringMap(request.attributes, "response.headers", data.headers)
           b == AddTimestamp(a, "response.time")
           c == AddInt64(b, "request.size", data.received_bytes)
           d == AddInt64(c, "response.size", data.send_bytes)
           e == AddDuration(d, "response.duration", "elapsed")
           status == request.check_status
           f == AddInt64(e, "response.code", StatusHttpCode(status))
           g == AddInt64(e, "response.code", data.response_code)
           i == AddInt64(f, "check.error_code", status)
           j == AddString(i, "check.error_message", <<status>>)
<1>1. ExtractReportAttributes(request, data) = j \/ ExtractReportAttributes(request, data) = g
  BY DEF ExtractReportAttributes, AddCheckError
<1>2. Find(a, name) = Find(request.attributes, name)
  BY FindStringMap DEF ReportNames
<1> HIDE DEF a, status
<1>3. Find(b, name) = Find(a, name)
  BY FindSet DEF AddTimestamp, ReportNames
<1> HIDE DEF b
<1>4. Find(c, name) = Find(b, name)
  BY FindSet DEF AddInt64, ReportNames
<1> HIDE DEF c
<1>5. Find(d, name) = Find(c, name)
  BY FindSet DEF AddInt64, ReportNames
<1> HIDE DEF d
<1>6. Find(e, name) = Find(d, name)
  BY FindSet DEF AddDuration, ReportNames
<1> HIDE DEF e
<1>7. Find(f, name) = Find(e, name) /\ Find(g, name) = Find(e, name)
  BY FindSet DEF AddInt64, ReportNames
<1> HIDE DEF f, g
<1>8. Find(i, name) = Find(f, name)
  BY FindSet DEF AddInt64, ReportNames
<1> HIDE DEF i
<1>9. Find(j, name) = Find(i, name)
  BY FindSet DEF AddString, ReportNames
<1> HIDE DEF j
<1> QED BY <1>1, <1>2, <1>3, <1>4, <1>5, <1>6, <1>7, <1>8, <1>9

\* The first of two that is found.
LEMMA FirstOfTwo ==
  ASSUME NEW A, NEW B
  PROVE  A # {} => FirstFound(<<A, B>>) = A
<1> SUFFICES ASSUME A # {} PROVE FirstFound(<<A, B>>) = A
  OBVIOUS
<1> DEFINE results == <<A, B>>
           found == {i \in DOMAIN results : results[i] # {}}
<1>1. DOMAIN results = {1, 2} /\ results[1] = A /\ results[2] = B
  <2>1. results \in Seq({A, B}) /\ Len(results) = 2
    OBVIOUS
  <2>2. DOMAIN results = 1..2
    BY <2>1, LenProperties
  <2> QED BY <2>2
<1> HIDE DEF results
<1>2. 1 \in found /\ found \subseteq {1, 2}
  BY <1>1
<1>3. FirstFound(results) = IF found = {} THEN {} ELSE results[Min(found)]
  BY DEF FirstFound
<1> HIDE DEF found
<1>4. Min(found) = 1
  <2>1. \A x \in found : x >= 1 /\ (1 >= x => x = 1)
    BY <1>2
  <2> QED BY <1>2, <2>1 DEF Min
<1>5. FirstFound(results) = A
  BY <1>1, <1>2, <1>3, <1>4
<1> QED BY <1>5 DEF results

\* A header that is there is what its attribute says.
LEMMA HeadersSeen ==
  ASSUME NEW a, NEW data, NEW name \in DOMAIN TopLevelAttrs, TopLevelAttrs[name][1] \in DOMAIN data.header_type
  PROVE  Find(ExtractRequestHeaderAttributes(a, data), name)
           = {[type |-> "string", value |-> data.header_type[TopLevelAttrs[name][1]]]}
<1> DEFINE found(n) == FirstFound(<<Find(data.header_type, TopLevelAttrs[n][1]),
                                   TopLevelAttrs[n][2]>>)
           more == [n \in {m \in DOMAIN TopLevelAttrs : found(m) # {}} |->
                      [type |-> "string", value |-> The(found(n))]]
           b == AddStringMap(a, "request.headers", data.header)
           x == data.header_type[TopLevelAttrs[name][1]]
<1>1. ExtractRequestHeaderAttributes(a, data) = MergeFrom(b, more)
  BY DEF ExtractRequestHeaderAttributes
<1>2. found(name) = {x}
  <2>1. Find(data.header_type, TopLevelAttrs[name][1]) = {x}
    BY DEF Find
  <2> HIDE DEF x
  <2> QED BY <2>1, FirstOfTwo
<1>3. name \in DOMAIN more /\ more[name] = [type |-> "string", value |-> x]
  <2> HIDE DEF x, found
  <2> QED BY <1>2, TheOne
<1> HIDE DEF more, b, x
<1>4. Find(MergeFrom(b, more), name) = {more[name]}
  BY <1>3, FindMerge
<1> QED BY <1>1, <1>3, <1>4 DEF x

\* The attributes taken from headers.
LEMMA TopLevelNames ==
  DOMAIN TopLevelAttrs = {"request.host", "request.method", "request.path", "request.referer",
                          "request.scheme", "request.useragent"}
BY DEF TopLevelAttrs

\* The stages of ExtractCheckAttributes after the headers and the payload.
LEMMA CheckStages ==
  ASSUME NEW a, NEW data, NEW name, NEW auth,
         auth = ExtractRequestAuthAttributes(ExtractRequestHeaderAttributes(a, data), data)
  PROVE  LET b == Find(ExtractCheckAttributes(a, data), name) IN
         /\ name \notin {"source.ip", "source.port", "connection.mtls", "source.user",
                         "request.time", "context.protocol"} => b = Find(auth, name)
         /\ name = "source.ip" /\ data.source # {} =>
              b = {[type |-> "bytes", value |-> The({s.ip : s \in data.source})]}
         /\ name = "connection.mtls" => b = {[type |-> "bool", value |-> data.mtls]}
         /\ name = "source.user" /\ data.user # {} =>
              b = {[type |-> "string", value |-> The(data.user)]}
<1> DEFINE ips   == {s.ip : s \in data.source}
           ports == {s.port : s \in data.source}
           ip    == AddFound(auth, "source.ip", "bytes", ips)
           port  == AddFound(ip, "source.port", "int64", ports)
           mtls  == AddBool(port, "connection.mtls", data.mtls)
           user  == AddFound(mtls, "source.user", "string", data.user)
           time  == AddTimestamp(user, "request.time")
           all   == AddString(time, "context.protocol", <<"http">>)
<1>1. ExtractCheckAttributes(a, data) = all
  BY DEF ExtractCheckAttributes
<1>2. data.source # {} => ips # {}
  OBVIOUS
<1> DEFINE isIp == [type |-> "bytes", value |-> The(ips)]
           isMtls == [type |-> "bool", value |-> data.mtls]
           isUser == [type |-> "string", value |-> The(data.user)]
<1>7. /\ name # "source.ip" => Find(ip, name) = Find(auth, name)
      /\ name = "source.ip" /\ ips # {} => Find(ip, name) = {isIp}
  <2> HIDE DEF ips
  <2> QED BY FindFound
<1> HIDE DEF ips, isIp, ip, ports
<1>8. name # "source.port" => Find(port, name) = Find(ip, name)
  BY FindFound
<1> HIDE DEF port
<1>9. /\ name # "connection.mtls" => Find(mtls, name) = Find(port, name)
      /\ name = "connection.mtls" => Find(mtls, name) = {isMtls}
  BY FindSet DEF AddBool
<1> HIDE DEF mtls, isMtls
<1>10. /\ name # "source.user" => Find(user, name) = Find(mtls, name)
       /\ name = "source.user" /\ data.user # {} => Find(user, name) = {isUser}
  BY FindFound
<1> HIDE DEF user, isUser
<1>11. name # "request.time" => Find(time, name) = Find(user, name)
  BY FindSet DEF AddTimestamp
<1> HIDE DEF time
<1>12. name # "context.protocol" => Find(all, name) = Find(time, name)
  BY FindSet DEF AddString
<1> HIDE DEF all
<1>13. /\ name \notin {"source.ip", "source.port", "connection.mtls", "source.user",
                       "request.time", "context.protocol"} => Find(all, name) = Find(auth, name)
       /\ name = "source.ip" /\ data.source # {} => Find(all, name) = {isIp}
       /\ name = "connection.mtls" => Find(all, name) = {isMtls}
       /\ name = "source.user" /\ data.user # {} => Find(all, name) = {isUser}
  BY <1>2, <1>7, <1>8, <1>9, <1>10, <1>11, <1>12
<1> QED BY <1>1, <1>13 DEF isIp, isMtls, isUser, ips

\* ExtractCheckAttributes leaves the names alone that it does not write.
LEMMA CheckLeaves ==
  ASSUME NEW a, NEW data, NEW name, name \notin CheckNames
  PROVE  Find(ExtractCheckAttributes(a, data), name) = Find(a, name)
<1> DEFINE headers == ExtractRequestHeaderAttributes(a, data)
           auth == ExtractRequestAuthAttributes(headers, data)
<1>1. Find(headers, name) = Find(a, name)
  BY HeadersLeave DEF CheckNames
<1>2. Find(auth, name) = Find(headers, name)
  <2> HIDE DEF headers
  <2> QED BY AuthLeaves DEF CheckNames
<1>3. Find(ExtractCheckAttributes(a, data), name) = Find(auth, name)
  BY CheckStages DEF CheckNames
<1> QED BY <1>1, <1>2, <1>3

\* An attribute that is there, with this value.
Says(attributes, seen) == \E v : Find(attributes, seen[1]) = {v} /\ v.value = seen[2]

\* To say something is to have it, whatever its type.
LEMMA ItSays ==
  ASSUME NEW a, NEW v, NEW name, NEW value, NEW seen, seen = <<name, value>>,
         Find(a, name) = {v}, v.value = value
  PROVE  Says(a, seen)
BY DEF Says

\* ExtractCheckAttributes writes all that is observed of the request.
LEMMA CheckSees ==
  ASSUME NEW a, NEW data \in CheckData, NEW seen \in Observed(data)
  PROVE  Says(ExtractCheckAttributes(a, data), seen)
<1> DEFINE headers == ExtractRequestHeaderAttributes(a, data)
           auth == ExtractRequestAuthAttributes(headers, data)
           b == ExtractCheckAttributes(a, data)
<1>0. Optional(data.source) /\ Optional(data.user)
  BY HttpAssumption
<1>1. CASE \E name \in DOMAIN TopLevelAttrs :
             /\ TopLevelAttrs[name][1] \in DOMAIN data.header_type
             /\ seen = <<name, data.header_type[TopLevelAttrs[name][1]]>>
  <2>1. PICK name \in DOMAIN TopLevelAttrs :
             /\ TopLevelAttrs[name][1] \in DOMAIN data.header_type
             /\ seen = <<name, data.header_type[TopLevelAttrs[name][1]]>>
    BY <1>1
  <2> DEFINE v == [type |-> "string", value |-> data.header_type[TopLevelAttrs[name][1]]]
  <2>2. Find(headers, name) = {v}
    BY <2>1, HeadersSeen
  <2>3. Find(auth, name) = Find(headers, name)
    <3> HIDE DEF headers
    <3> QED BY AuthLeaves, TopLevelNames DEF AuthNames
  <2>4. Find(b, name) = Find(auth, name)
    BY CheckStages, TopLevelNames
  <2> DEFINE value == data.header_type[TopLevelAttrs[name][1]]
  <2>5. v.value = value /\ seen = <<name, value>>
    BY <2>1
  <2> HIDE DEF v, b, auth, value
  <2>6. Says(b, seen)
    BY <2>2, <2>3, <2>4, <2>5, ItSays
  <2> QED BY <2>6 DEF b
<1>2. CASE \E s \in data.source : seen = <<"source.ip", s.ip>>
  <2>1. PICK s \in data.source : seen = <<"source.ip", s.ip>>
    BY <1>2
  <2>2. {r.ip : r \in data.source} = {s.ip}
    BY <1>0 DEF Optional
  <2>3. Find(b, "source.ip") = {[type |-> "bytes", value |-> The({r.ip : r \in data.source})]}
    BY CheckStages
  <2> DEFINE v == [type |-> "bytes", value |-> s.ip]
  <2>4. Find(b, "source.ip") = {v}
    BY <2>2, <2>3, TheOne
  <2>5. v.value = s.ip
    OBVIOUS
  <2> HIDE DEF v, b
  <2>6. Says(b, seen)
    BY <2>1, <2>4, <2>5, ItSays
  <2> QED BY <2>6 DEF b
<1>3. CASE \E user \in data.user : seen = <<"source.user", user>>
  <2>1. PICK user \in data.user : seen = <<"source.user", user>>
    BY <1>3
  <2>2. data.user = {user}
    BY <1>0 DEF Optional
  <2>3. Find(b, "source.user") = {[type |-> "string", value |-> The(data.user)]}
    BY CheckStages
  <2> DEFINE v == [type |-> "string", value |-> user]
  <2>4. Find(b, "source.user") = {v}
    BY <2>2, <2>3, TheOne
  <2>5. v.value = user
    OBVIOUS
  <2> HIDE DEF v, b
  <2>6. Says(b, seen)
    BY <2>1, <2>4, <2>5, ItSays
  <2> QED BY <2>6 DEF b
<1>4. CASE seen = <<"connection.mtls", data.mtls>>
  <2> DEFINE v == [type |-> "bool", value |-> data.mtls]
  <2>1. Find(b, "connection.mtls") = {v}
    BY CheckStages
  <2>2. v.value = data.mtls
    OBVIOUS
  <2> HIDE DEF v, b
  <2>3. Says(b, seen)
    BY <1>4, <2>1, <2>2, ItSays
  <2> QED BY <2>3 DEF b
<1> QED BY <1>1, <1>2, <1>3, <1>4 DEF Observed

\* The names of what is observed are not those a report adds.
LEMMA ObservedNames ==
  ASSUME NEW data, NEW seen \in Observed(data)
  PROVE  seen[1] \notin ReportNames /\ seen[1] # "request.api_key"
BY TopLevelNames DEF Observed, ReportNames

\* Only the API attributes of the service come after what is observed.
LEMMA ExtractSees ==
  ASSUME NEW service \in ServiceConfigs, enable_mixer_check({service}),
         NEW data \in CheckData, NEW a, NEW seen \in Observed(data), seen[1] \notin ApiNames({service})
  PROVE  Says(Extract({service}, data, a), seen)
<1> DEFINE b == ExtractForwardedAttributes(AddStaticAttributes({service}, a), data)
           c == ExtractCheckAttributes(b, data)
<1>1. Extract({service}, data, a) = AddApiAttributes({service}, data, c)
  BY DEF Extract
<1> HIDE DEF b
<1>2. Says(c, seen)
  BY CheckSees
<1> HIDE DEF c
<1>3. Find(AddApiAttributes({service}, data, c), seen[1]) = Find(c, seen[1])
  BY ApiLeaves, ObservedNames
<1> QED BY <1>1, <1>2, <1>3 DEF Says

\* The context of a handler, once it has one.
LEMMA ConfigIs ==
  ASSUME HttpInv, NEW h \in Handlers, handler[h].pc # "none"
  PROVE  ConfigOf(h) \in Contexts
<1>1. contexts \in Seq(Contexts) /\ handler[h].context \in 1..Len(contexts)
  BY DEF HttpInv, ContextInv, HandlerInv
<1> QED BY <1>1, ElementOfSeq DEF ConfigOf

\* A configuration that is there is one a service may have.
LEMMA ServiceOf ==
  ASSUME NEW config \in Contexts, config # {}
  PROVE  \E service \in ServiceConfigs : config = {service}
BY DEF Contexts

SeenOk(it, config) ==
  \A check \in it.check : \A seen \in Observed(check.data) :
    seen[1] \notin ApiNames(config) =>
      Says(check.attributes, seen) /\ \A report \in it.report : Says(report.attributes, seen)

\* A check says what is observed of its request, and the report repeats it.
LEMMA SeenStep ==
  ASSUME NEW it, NEW new, Progress(it), NEW config, SeenOk(it, config), NEW data, NEW answer, NEW status,
         \/ ExtractedFrom(it, new, config, data)
         \/ config \in Contexts /\ data \in CheckData /\ CheckedFrom(it, new, config, data, answer)
         \/ AnsweredFrom(it, new, status)
         \/ ReportedFrom(it, new, data)
  PROVE  SeenOk(new, config)
<1>1. CASE ExtractedFrom(it, new, config, data)
  BY <1>1 DEF ExtractedFrom, SameBut, Fields, SeenOk
<1>2. CASE config \in Contexts /\ data \in CheckData /\ CheckedFrom(it, new, config, data, answer)
  <2>1. new.report = {}
    BY <1>2 DEF CheckedFrom, SameBut, Fields, Progress
  <2>2. CASE NotSentFrom(it, new)
    BY <2>2 DEF NotSentFrom, SameBut, Fields, SeenOk
  <2>3. CASE SentFrom(it, new, config, data, answer)
    <3>1. enable_mixer_check(config)
      BY <2>3 DEF SentFrom
    <3>2. PICK service \in ServiceConfigs : config = {service}
      BY <1>2, <3>1, ServiceOf DEF enable_mixer_check
    <3>3. SUFFICES ASSUME NEW check \in new.check, NEW seen \in Observed(check.data),
                          seen[1] \notin ApiNames(config)
                   PROVE  Says(check.attributes, seen)
      BY <2>1 DEF SeenOk
    <3>4. check.data = data /\ check.attributes = new.request.attributes
      BY <2>3 DEF SentFrom
    <3>5. new.request.attributes = Extract(config, data, it.request.attributes)
      BY <1>2 DEF CheckedFrom
    <3> QED BY <1>2, <3>1, <3>2, <3>3, <3>4, <3>5, ExtractSees
  <2> QED BY <1>2, <2>2, <2>3 DEF CheckedFrom
<1>3. CASE AnsweredFrom(it, new, status)
  BY <1>3 DEF AnsweredFrom, SameBut, Fields, SeenOk
<1>4. CASE ReportedFrom(it, new, data)
  <2>1. new.check = it.check /\ it.report = {}
    BY <1>4 DEF ReportedFrom, SameBut, Fields
  <2>2. SUFFICES ASSUME NEW check \in it.check, NEW seen \in Observed(check.data),
                        seen[1] \notin ApiNames(config), NEW report \in new.report
                 PROVE  Says(report.attributes, seen)
    BY <2>1 DEF SeenOk
  <2>3. report.attributes = ExtractReportAttributes(it.request, data)
    BY <1>4 DEF ReportedFrom, OnlyAttributes
  <2>4. Find(report.attributes, seen[1]) = Find(it.request.attributes, seen[1])
    BY <2>3, ReportLeaves, ObservedNames
  <2>5. it.request.attributes = check.attributes
    BY <2>1 DEF Progress
  <2> QED BY <2>2, <2>4, <2>5 DEF Says, SeenOk
<1> QED BY <1>1, <1>2, <1>3, <1>4

SeenInv == \A h \in Handlers : SeenOk(handler[h], ConfigOf(h))

\* So it is for every handler, after every step.
LEMMA SeenNext ==
  ASSUME HttpInv, SeenInv, [HttpNext]_http_vars
  PROVE  SeenInv'
<1> SUFFICES ASSUME NEW h \in Handlers PROVE SeenOk(handler'[h], (ConfigOf(h))')
  BY DEF SeenInv
<1>1. Moves(h) /\ Progress(handler[h])
  BY HandlerMoves DEF HttpInv, HandlerInv
<1>2. CASE handler[h].pc = "none"
  <2>1. handler'[h].check = {}
    <3>1. handler'[h] = handler[h] \/ \E route, context : CreatedFrom(handler[h], handler'[h], context, route)
      BY <1>1, <1>2 DEF Moves, ExtractedFrom, CheckedFrom, AnsweredFrom, ReportedFrom
    <3> QED BY <1>1, <1>2, <3>1 DEF CreatedFrom, SameBut, Fields, Progress
  <2> QED BY <2>1 DEF SeenOk
<1>3. CASE handler[h].pc # "none"
  <2>1. (ConfigOf(h))' = ConfigOf(h) /\ ConfigOf(h) \in Contexts
    BY <1>3, MovesKeep, ConfigIs
  <2>2. SeenOk(handler[h], ConfigOf(h))
    BY DEF SeenInv
  <2>3. handler'[h] = handler[h] \/ SeenOk(handler'[h], ConfigOf(h))
    BY <1>1, <1>3, <2>1, <2>2, SeenStep DEF Moves, CreatedFrom
  <2> QED BY <2>1, <2>2, <2>3
<1> QED BY <1>2, <1>3

\* What a report says of the answer.
LEMMA ReportSays ==
  ASSUME NEW request, NEW data, NEW b, b = ExtractReportAttributes(request, data)
  PROVE  LET status == request.check_status IN
         /\ status = "OK" =>
              /\ Says(b, <<"response.code", data.response_code>>)
              /\ Find(b, "check.error_code") = Find(request.attributes, "check.error_code")
         /\ status # "OK" =>
              /\ Says(b, <<"response.code", StatusHttpCode(status)>>)
              /\ Says(b, <<"check.error_code", status>>)
<1> DEFINE a1 == AddStringMap(request.attributes, "response.headers", data.headers)
           a2 == AddTimestamp(a1, "response.time")
           a3 == AddInt64(a2, "request.size", data.received_bytes)
           a4 == AddInt64(a3, "response.size", data.send_bytes)
           a5 == AddDuration(a4, "response.duration", "elapsed")
           status == request.check_status
           http == StatusHttpCode(status)
           code == data.response_code
           f == AddInt64(a5, "response.code", http)
           g == AddInt64(a5, "response.code", code)
           i == AddInt64(f, "check.error_code", status)
           j == AddString(i, "check.error_message", <<status>>)
           error == "check.error_code"
<1>1. /\ status # "OK" => b = j
      /\ status = "OK" => b = g
  BY DEF ExtractReportAttributes, AddCheckError
<1>2. Find(a1, error) = Find(request.attributes, error)
  BY FindStringMap
<1> HIDE DEF a1, status, http, code
<1>3. Find(a2, error) = Find(a1, error)
  BY FindSet DEF AddTimestamp
<1> HIDE DEF a2
<1>4. Find(a3, error) = Find(a2, error)
  BY FindSet DEF AddInt64
<1> HIDE DEF a3
<1>5. Find(a4, error) = Find(a3, error)
  BY FindSet DEF AddInt64
<1> HIDE DEF a4
<1>6. Find(a5, error) = Find(a4, error)
  BY FindSet DEF AddDuration
<1> HIDE DEF a5
<1> DEFINE isCode == [type |-> "int64", value |-> code]
           isHttp == [type |-> "int64", value |-> http]
           isStatus == [type |-> "int64", value |-> status]
<1>7. isCode.value = code /\ isHttp.value = http /\ isStatus.value = status
  OBVIOUS
<1>8. Find(g, error) = Find(a5, error) /\ Find(g, "response.code") = {isCode}
  BY FindSet DEF AddInt64
<1>9. Find(f, "response.code") = {isHttp}
  BY FindSet DEF AddInt64
<1> HIDE DEF f, g, isCode, isHttp
<1>10. Find(i, "response.code") = Find(f, "response.code") /\ Find(i, error) = {isStatus}
  BY FindSet DEF AddInt64
<1> HIDE DEF i, isStatus
<1>11. Find(j, "response.code") = Find(i, "response.code") /\ Find(j, error) = Find(i, error)
  BY FindSet DEF AddString
<1> HIDE DEF j
<1>12. Says(g, <<"response.code", code>>)
  BY <1>7, <1>8, ItSays
<1>13. Says(j, <<"response.code", http>>)
  BY <1>7, <1>9, <1>10, <1>11, ItSays
<1>14. Says(j, <<error, status>>)
  BY <1>7, <1>10, <1>11, ItSays
<1> QED BY <1>1, <1>2, <1>3, <1>4, <1>5, <1>6, <1>8, <1>12, <1>13, <1>14 DEF status, http, code

\* What is said is the value.
LEMMA SaidValue ==
  ASSUME NEW a, NEW name, NEW value, Says(a, <<name, value>>)
  PROVE  name \in DOMAIN a /\ a[name].value = value
BY DEF Says, Find

\* What the proxy has observed of a request goes into its check and its report,
\* whatever has been forwarded or configured, for every configuration of the
\* controller and its services and every request.
THEOREM ObservedAttributesWin == Spec => []ObservedWins
<1>1. HttpInit => SeenInv
  BY DEF HttpInit, NewHandler, SeenInv, SeenOk
<1>2. HttpInv /\ SeenInv /\ [Next]_vars => SeenInv'
  BY Steps, SeenNext
<1>3. Spec => []SeenInv
  BY <1>1, <1>2, Steps, HttpInvariant, PTL DEF Spec
<1>4. SeenInv => ObservedWins
  <2> SUFFICES ASSUME SeenInv, NEW h \in Handlers, NEW check \in handler[h].check,
                      NEW seen \in Observed(check.data), seen[1] \notin ApiNames(ConfigOf(h))
               PROVE  /\ check.attributes[seen[1]].value = seen[2]
                      /\ \A report \in handler[h].report : report.attributes[seen[1]].value = seen[2]
    BY DEF ObservedWins
  <2>1. Says(check.attributes, seen) /\ \A report \in handler[h].report : Says(report.attributes, seen)
    BY DEF SeenInv, SeenOk
  <2>2. \A a : Says(a, seen) => a[seen[1]].value = seen[2]
    BY DEF Says, Find
  <2> QED BY <2>1, <2>2
<1> QED BY <1>3, <1>4, PTL

-----------------------------------------------------------------------------
(* The error code of an HTTP request *)

\* Nothing but the answer to a check sets its error code: no configuration, no
\* proxy before this one and no API specification has an attribute of that name.
ErrorCodeReserved ==
  LET name == "check.error_code" IN
  /\ \A config \in Configs : \A more \in config.mixer_attributes : name \notin DOMAIN more
  /\ \A service \in ServiceConfigs :
       /\ \A more \in service.mixer_attributes : name \notin DOMAIN more
       /\ name \notin ApiNames({service})
  /\ \A data \in CheckData : \A header \in data.istio_attributes : name \notin DOMAIN Forwarded(header)
  /\ \A config \in TcpConfigs : name \notin DOMAIN config.mixer_attributes

Errors(attributes) == {v.value : v \in Find(attributes, "check.error_code")}

\* Errors as VerdictReported puts it.
LEMMA ErrorsSaid ==
  ASSUME NEW a
  PROVE  {a[n].value : n \in {"check.error_code"} \cap DOMAIN a} = Errors(a)
BY DEF Errors, Find

\* What is said of the error code is the only error.
LEMMA ErrorsOne ==
  ASSUME NEW a, NEW s, Says(a, <<"check.error_code", s>>)
  PROVE  Errors(a) = {s}
BY DEF Says, Errors

\* Extract does not write the reserved name.
LEMMA ExtractNoError ==
  ASSUME ErrorCodeReserved, http_config \in Configs, NEW config \in Contexts, NEW data \in CheckData, NEW a
  PROVE  Find(Extract(config, data, a), "check.error_code") = Find(a, "check.error_code")
<1> DEFINE name == "check.error_code"
<1>1. CASE ~(enable_mixer_check(config) \/ enable_mixer_report(config))
  BY <1>1 DEF Extract
<1>2. CASE enable_mixer_check(config) \/ enable_mixer_report(config)
  <2>1. PICK service \in ServiceConfigs : config = {service}
    BY <1>2, ServiceOf DEF enable_mixer_check, enable_mixer_report
  <2> DEFINE b == MergeFound(a, http_config.mixer_attributes)
             c == MergeFound(b, service.mixer_attributes)
             forwarded == {Forwarded(header) : header \in data.istio_attributes}
             d == MergeFound(c, forwarded)
             e == ExtractCheckAttributes(d, data)
             f == AddApiAttributes({service}, data, e)
  <2>2. Extract(config, data, a) = f
    BY <1>2, <2>1, TheOne DEF Extract, AddStaticAttributes, ExtractForwardedAttributes
  <2>3. Find(b, name) = Find(a, name)
    BY FindMergeFound DEF ErrorCodeReserved
  <2> HIDE DEF b
  <2>4. Find(c, name) = Find(b, name)
    BY FindMergeFound DEF ErrorCodeReserved
  <2> HIDE DEF c
  <2>5. \A more \in forwarded : name \notin DOMAIN more
    BY DEF ErrorCodeReserved
  <2> HIDE DEF forwarded
  <2>6. Find(d, name) = Find(c, name)
    BY <2>5, FindMergeFound
  <2> HIDE DEF d
  <2>7. Find(e, name) = Find(d, name)
    <3>1. name \notin CheckNames
      BY TopLevelNames DEF CheckNames, HeaderNames, AuthNames
    <3> HIDE DEF name
    <3> QED BY <3>1, CheckLeaves
  <2> HIDE DEF e
  <2>8. Find(f, name) = Find(e, name)
    BY ApiLeaves DEF ErrorCodeReserved
  <2> HIDE DEF f
  <2> QED BY <2>2, <2>3, <2>4, <2>6, <2>7, <2>8
<1> QED BY <1>1, <1>2

\* What a report of HTTP says of the answer there was by then.
Right(report) ==
  /\ Says(report.attributes, <<"response.code",
            IF Denial(report) = {} THEN report.data.response_code
            ELSE StatusHttpCode(The(Denial(report)))>>)
  /\ Errors(report.attributes) = Denial(report)

VerdictOk(it) ==
  /\ it.report = {} => Errors(it.request.attributes) = {}
  /\ \A report \in it.report : Right(report)

\* The report gives the answer there is by then.
LEMMA VerdictReport ==
  ASSUME NEW it, NEW new, Progress(it), VerdictOk(it), NEW data, ReportedFrom(it, new, data)
  PROVE  VerdictOk(new)
<1> DEFINE b == ExtractReportAttributes(it.request, data)
           status == it.request.check_status
           report == [attributes |-> b, data |-> data, verdict |-> it.verdict]
<1>1. new.report = {report} /\ it.report = {}
  BY DEF ReportedFrom, OnlyAttributes
<1>2. report.attributes = b /\ report.data = data /\ report.verdict = it.verdict
  OBVIOUS
<1>3. \/ it.verdict = {} /\ status = "OK"
      \/ it.verdict = {status}
  BY DEF Progress
<1>4. /\ status = "OK" =>
           /\ Says(b, <<"response.code", data.response_code>>)
           /\ Find(b, "check.error_code") = Find(it.request.attributes, "check.error_code")
      /\ status # "OK" =>
           /\ Says(b, <<"response.code", StatusHttpCode(status)>>)
           /\ Says(b, <<"check.error_code", status>>)
  BY ReportSays
<1>5. Errors(it.request.attributes) = {}
  BY <1>1 DEF VerdictOk
<1> HIDE DEF b, report, status
<1>6. CASE status = "OK"
  <2>1. Denial(report) = {}
    BY <1>2, <1>3, <1>6 DEF Denial
  <2>2. Errors(b) = {}
    BY <1>4, <1>5, <1>6 DEF Errors
  <2> QED BY <1>1, <1>2, <1>4, <1>6, <2>1, <2>2 DEF VerdictOk, Right
<1>7. CASE status # "OK"
  <2>1. Denial(report) = {status} /\ Denial(report) # {}
    BY <1>2, <1>3, <1>7 DEF Denial
  <2>2. The(Denial(report)) = status
    BY <2>1, TheOne
  <2>3. Errors(b) = {status}
    BY <1>4, <1>7, ErrorsOne
  <2> QED BY <1>1, <1>2, <1>4, <1>7, <2>1, <2>2, <2>3 DEF VerdictOk, Right
<1> QED BY <1>6, <1>7

\* No other move of a handler writes an error.
LEMMA VerdictStep ==
  ASSUME ErrorCodeReserved, http_config \in Configs, NEW it, NEW new, Progress(it), VerdictOk(it),
         NEW config, NEW context, NEW route, NEW data, NEW answer, NEW status,
         \/ CreatedFrom(it, new, context, route)
         \/ config \in Contexts /\ data \in CheckData /\ ExtractedFrom(it, new, config, data)
         \/ config \in Contexts /\ data \in CheckData /\ CheckedFrom(it, new, config, data, answer)
         \/ AnsweredFrom(it, new, status)
         \/ ReportedFrom(it, new, data)
  PROVE  VerdictOk(new)
<1>0. Find(<<>>, "check.error_code") = {}
  BY DEF Find
<1>1. CASE CreatedFrom(it, new, context, route)
  BY <1>1 DEF CreatedFrom, SameBut, Fields, VerdictOk
<1>2. CASE config \in Contexts /\ data \in CheckData /\ ExtractedFrom(it, new, config, data)
  <2>1. /\ new.report = {} /\ it.request.attributes = <<>>
        /\ new.request.attributes = Extract(config, data, it.request.attributes)
    BY <1>2 DEF ExtractedFrom, OnlyAttributes, SameBut, Fields, Progress
  <2>2. Find(new.request.attributes, "check.error_code") = {}
    BY <1>0, <1>2, <2>1, ExtractNoError
  <2> QED BY <2>1, <2>2 DEF VerdictOk, Errors
<1>3. CASE config \in Contexts /\ data \in CheckData /\ CheckedFrom(it, new, config, data, answer)
  <2>1. /\ new.report = {} /\ it.request.attributes = <<>>
        /\ new.request.attributes = Extract(config, data, it.request.attributes)
    BY <1>3 DEF CheckedFrom, SameBut, Fields, Progress
  <2>2. Find(new.request.attributes, "check.error_code") = {}
    BY <1>0, <1>3, <2>1, ExtractNoError
  <2> QED BY <2>1, <2>2 DEF VerdictOk, Errors
<1>4. CASE AnsweredFrom(it, new, status)
  BY <1>4 DEF AnsweredFrom, SameBut, Fields, VerdictOk
<1>5. CASE ReportedFrom(it, new, data)
  BY <1>5, VerdictReport
<1> QED BY <1>1, <1>2, <1>3, <1>4, <1>5

VerdictInv == \A h \in Handlers : VerdictOk(handler[h])

\* So it is for every handler, after every step.
LEMMA VerdictNext ==
  ASSUME ErrorCodeReserved, HttpInv, VerdictInv, [HttpNext]_http_vars
  PROVE  VerdictInv'
<1> SUFFICES ASSUME NEW h \in Handlers PROVE VerdictOk(handler'[h])
  BY DEF VerdictInv
<1>1. /\ Moves(h) /\ Progress(handler[h]) /\ VerdictOk(handler[h]) /\ http_config \in Configs
      /\ handler[h].pc # "none" => ConfigOf(h) \in Contexts
  BY HandlerMoves, ConfigIs DEF HttpInv, HandlerInv, VerdictInv, ContextInv
<1>2. ASSUME NEW context, NEW route, CreatedFrom(handler[h], handler'[h], context, route)
      PROVE  VerdictOk(handler'[h])
  BY <1>1, <1>2, VerdictStep
<1>3. ASSUME NEW data \in CheckData, ExtractedFrom(handler[h], handler'[h], ConfigOf(h), data)
      PROVE  VerdictOk(handler'[h])
  <2>1. ConfigOf(h) \in Contexts
    BY <1>1, <1>3 DEF ExtractedFrom
  <2> QED BY <1>1, <1>3, <2>1, VerdictStep
<1>4. ASSUME NEW data \in CheckData, NEW answer, CheckedFrom(handler[h], handler'[h], ConfigOf(h), data, answer)
      PROVE  VerdictOk(handler'[h])
  <2>1. ConfigOf(h) \in Contexts
    BY <1>1, <1>4 DEF CheckedFrom
  <2> QED BY <1>1, <1>4, <2>1, VerdictStep
<1>5. ASSUME NEW status, AnsweredFrom(handler[h], handler'[h], status)
      PROVE  VerdictOk(handler'[h])
  BY <1>1, <1>5, VerdictStep
<1>6. ASSUME NEW data, ReportedFrom(handler[h], handler'[h], data)
      PROVE  VerdictOk(handler'[h])
  BY <1>1, <1>6, VerdictStep
<1> QED BY <1>1, <1>2, <1>3, <1>4, <1>5, <1>6 DEF Moves

-----------------------------------------------------------------------------
(* The error code of a TCP connection *)

\* The names that a check and a report of a connection write, but for errors.
TcpCheckNames == {"source.ip", "source.port", "source.user", "connection.mtls", "context.time",
                  "context.protocol"}

\* The attributes of a connection's check leave other names alone.
LEMMA TcpCheckLeaves ==
  ASSUME NEW a, NEW data, NEW name, name \notin TcpCheckNames
  PROVE  Find(TcpExtractCheckAttributes(a, data), name) = Find(a, name)
<1> DEFINE ip   == AddFound(a, "source.ip", "bytes", {s.ip : s \in data.source})
           port == AddFound(ip, "source.port", "int64", {s.port : s \in data.source})
           user == AddFound(port, "source.user", "string", data.user)
           mtls == AddBool(user, "connection.mtls", data.mtls)
           time == AddTimestamp(mtls, "context.time")
           all  == AddString(time, "context.protocol", <<"tcp">>)
<1>1. TcpExtractCheckAttributes(a, data) = all
  BY DEF TcpExtractCheckAttributes
<1>2. Find(ip, name) = Find(a, name)
  BY FindFound DEF TcpCheckNames
<1> HIDE DEF ip
<1>3. Find(port, name) = Find(ip, name)
  BY FindFound DEF TcpCheckNames
<1> HIDE DEF port
<1>4. Find(user, name) = Find(port, name)
  BY FindFound DEF TcpCheckNames
<1> HIDE DEF user
<1>5. Find(mtls, name) = Find(user, name)
  BY FindSet DEF AddBool, TcpCheckNames
<1> HIDE DEF mtls
<1>6. Find(time, name) = Find(mtls, name)
  BY FindSet DEF AddTimestamp, TcpCheckNames
<1> HIDE DEF time
<1>7. Find(all, name) = Find(time, name)
  BY FindSet DEF AddString, TcpCheckNames
<1> HIDE DEF all
<1> QED BY <1>1, <1>2, <1>3, <1>4, <1>5, <1>6, <1>7

\* A final report after a denial gives its code; any other leaves the errors.
LEMMA TcpReportSays ==
  ASSUME NEW request, NEW final \in BOOLEAN, NEW destination,
         NEW b, b = TcpExtractReportAttributes(request, final, destination)
  PROVE  /\ final /\ request.check_status # "OK" => Errors(b) = {request.check_status}
         /\ ~final \/ request.check_status = "OK" => Errors(b) = Errors(request.attributes)
<1> DEFINE status == request.check_status
           name == "check.error_code"
           a1 == AddInt64(request.attributes, "connection.received.bytes", Deltas.received_bytes)
           a2 == AddInt64(a1, "connection.received.bytes_total", info.received_bytes)
           a3 == AddInt64(a2, "connection.sent.bytes", Deltas.send_bytes)
           a4 == AddInt64(a3, "connection.sent.bytes_total", info.send_bytes)
           a5 == AddDuration(a4, "connection.duration", "elapsed")
           a6 == IF final THEN a5 ELSE a4
           e1 == AddInt64(a6, "check.error_code", status)
           e2 == AddString(e1, "check.error_message", <<status>>)
           e3 == IF final /\ status # "OK" THEN e2 ELSE a6
           d1 == AddFound(e3, "destination.ip", "bytes", {d.ip : d \in destination})
           d2 == AddFound(d1, "destination.port", "int64", {d.port : d \in destination})
           d3 == AddTimestamp(d2, "context.time")
<1>1. b = d3
  BY DEF TcpExtractReportAttributes, AddCheckError
<1> HIDE DEF status
<1>2. Find(a1, name) = Find(request.attributes, name)
  BY FindSet DEF AddInt64
<1> HIDE DEF a1
<1>3. Find(a2, name) = Find(a1, name)
  BY FindSet DEF AddInt64
<1> HIDE DEF a2
<1>4. Find(a3, name) = Find(a2, name)
  BY FindSet DEF AddInt64
<1> HIDE DEF a3
<1>5. Find(a4, name) = Find(a3, name)
  BY FindSet DEF AddInt64
<1> HIDE DEF a4
<1>6. Find(a5, name) = Find(a4, name)
  BY FindSet DEF AddDuration
<1> HIDE DEF a5
<1>7. Find(a6, name) = Find(a4, name)
  BY <1>6
<1> HIDE DEF a6
<1> DEFINE isStatus == [type |-> "int64", value |-> status]
<1>8. Find(e1, name) = {isStatus}
  BY FindSet DEF AddInt64
<1>9. isStatus.value = status
  OBVIOUS
<1> HIDE DEF e1, isStatus
<1>10. Find(e2, name) = Find(e1, name)
  BY FindSet DEF AddString
<1> HIDE DEF e2
<1>11. /\ final /\ status # "OK" => Find(e3, name) = {isStatus}
       /\ ~final \/ status = "OK" => Find(e3, name) = Find(request.attributes, name)
  <2>1. CASE final /\ status # "OK"
    BY <1>8, <1>10, <2>1
  <2>2. CASE ~final \/ status = "OK"
    BY <1>2, <1>3, <1>4, <1>5, <1>7, <2>2
  <2> QED BY <2>1, <2>2
<1> HIDE DEF e3
<1>12. Find(d1, name) = Find(e3, name)
  BY FindFound
<1> HIDE DEF d1
<1>13. Find(d2, name) = Find(d1, name)
  BY FindFound
<1> HIDE DEF d2
<1>14. Find(d3, name) = Find(d2, name)
  BY FindSet DEF AddTimestamp
<1> HIDE DEF d3
<1>15. Find(b, name) = Find(e3, name)
  BY <1>1, <1>12, <1>13, <1>14
<1> QED BY <1>9, <1>11, <1>15 DEF Errors, status

TcpProgress ==
  /\ tcp_config \in TcpConfigs
  /\ DOMAIN tcp_request = RequestFields /\ DOMAIN tcp_log = {"check", "verdict", "report"}
  /\ tcp_pc = "new" => tcp_request.quotas = <<>> /\ tcp_request.check_status = "OK"
                       /\ tcp_log.verdict = {} /\ tcp_log.check = {}
  /\ tcp_pc = "checking" => tcp_log.verdict = {}
  /\ \/ tcp_log.verdict = {} /\ tcp_request.check_status = "OK"
     \/ tcp_log.verdict = {tcp_request.check_status}

\* The quotas of the check are those the rules give for its attributes.
TcpAsked ==
  \A check \in tcp_log.check :
    check.quotas = AddQuotas(SetToSeq(tcp_config.connection_quota_spec), check.attributes, <<>>)

TcpRight(report) ==
  /\ Errors(report.attributes) \subseteq Denial(report)
  /\ report.final => Errors(report.attributes) = Denial(report)

TcpErrors ==
  /\ Errors(tcp_request.attributes) \subseteq Denial(tcp_log)
  /\ phase = "periodic" => Errors(tcp_request.attributes) = {}
  /\ \A report \in tcp_log.report :
       TcpRight(report) /\ (phase = "periodic" => Errors(report.attributes) = {})

TcpAnswers == TcpProgress /\ TcpAsked

\* What a check leaves of the connection.
LEMMA TcpCheckEffect ==
  ASSUME TcpAnswers, NEW data, NEW answer, answer = {} \/ \E s : answer = {s}, TcpCheck(data, answer)
  PROVE  LET a == tcp_request.attributes
             extracted == TcpExtractCheckAttributes(MergeFrom(a, tcp_config.mixer_attributes), data)
         IN /\ TcpProgress' /\ TcpAsked'
            /\ UNCHANGED <<tcp_config, phase>> /\ tcp_log'.report = tcp_log.report
            /\ tcp_log.verdict = {}
            /\ tcp_request'.attributes \in {a, extracted}
<1> DEFINE a == tcp_request.attributes
           specs == SetToSeq(tcp_config.connection_quota_spec)
           enabled == ~tcp_config.disable_check_calls \/ ~tcp_config.disable_report_calls
           extracted == TcpExtractCheckAttributes(MergeFrom(a, tcp_config.mixer_attributes), data)
           e == IF enabled THEN extracted ELSE a
           required == AddQuotas(specs, e, tcp_request.quotas)
           request == [tcp_request EXCEPT !.attributes = e]
           asked == [request EXCEPT !.quotas = required]
           check == {[attributes |-> e, quotas |-> required]}
           log1 == [tcp_log EXCEPT !.check = check]
           log2 == [log1 EXCEPT !.verdict = answer]
<1>1. /\ tcp_pc = "new" /\ UNCHANGED <<tcp_config, phase>>
      /\ \/ /\ tcp_config.disable_check_calls /\ tcp_pc' = "checked"
            /\ tcp_request' = request /\ UNCHANGED tcp_log
         \/ /\ tcp_pc' = (IF answer = {} THEN "checking" ELSE "checked")
            /\ tcp_request' = Sent(asked, answer)
            /\ tcp_log' = log2
  BY DEF TcpCheck
<1>2. /\ tcp_config \in TcpConfigs
      /\ DOMAIN tcp_request = RequestFields /\ DOMAIN tcp_log = {"check", "verdict", "report"}
      /\ tcp_request.quotas = <<>> /\ tcp_request.check_status = "OK"
      /\ tcp_log.verdict = {} /\ tcp_log.check = {}
  BY <1>1 DEF TcpAnswers, TcpProgress
<1>0. e \in {a, extracted}
  OBVIOUS
<1> HIDE DEF e, extracted
<1>3. /\ DOMAIN request = RequestFields /\ request.attributes = e
      /\ request.quotas = <<>> /\ request.check_status = "OK"
  BY <1>2 DEF RequestFields
<1> HIDE DEF request, required
<1>4. /\ DOMAIN asked = RequestFields /\ asked.attributes = e
      /\ asked.quotas = required /\ asked.check_status = "OK"
  BY <1>3 DEF RequestFields
<1> HIDE DEF asked, check
<1>5. DOMAIN log1 = {"check", "verdict", "report"} /\ log1.check = check /\ log1.report = tcp_log.report
  BY <1>2
<1> HIDE DEF log1
<1>6. /\ DOMAIN log2 = {"check", "verdict", "report"} /\ log2.check = check
      /\ log2.report = tcp_log.report /\ log2.verdict = answer
  BY <1>5
<1> HIDE DEF log2
<1>7. CASE /\ tcp_config.disable_check_calls /\ tcp_pc' = "checked"
           /\ tcp_request' = request /\ UNCHANGED tcp_log
  <2>1. TcpProgress' /\ TcpAsked'
    BY <1>1, <1>2, <1>3, <1>7 DEF TcpProgress, TcpAsked
  <2> QED BY <1>0, <1>1, <1>2, <1>3, <1>7, <2>1 DEF extracted
<1>8. CASE /\ tcp_pc' = (IF answer = {} THEN "checking" ELSE "checked")
           /\ tcp_request' = Sent(asked, answer)
           /\ tcp_log' = log2
  <2>1. /\ DOMAIN tcp_request' = RequestFields /\ tcp_request'.attributes = e
        /\ answer = {} => tcp_request'.check_status = "OK"
        /\ answer # {} => tcp_request'.check_status = The(answer)
    <3>1. CASE answer = {}
      BY <1>4, <1>8, <3>1 DEF Sent
    <3>2. CASE answer # {}
      BY <1>4, <1>8, <3>2 DEF Sent, SaveStatus, RequestFields
    <3> QED BY <3>1, <3>2
  <2>2. answer # {} => answer = {The(answer)}
    BY TheOne
  <2>3. TcpProgress'
    BY <1>1, <1>2, <1>6, <1>8, <2>1, <2>2 DEF TcpProgress
  <2>4. required = AddQuotas(specs, e, <<>>)
    BY <1>2 DEF required
  <2> HIDE DEF specs
  <2>5. \A c \in check : c.quotas = required /\ c.attributes = e
    BY DEF check
  <2>6. TcpAsked'
    BY <1>1, <1>6, <1>8, <2>4, <2>5 DEF TcpAsked, specs
  <2> QED BY <1>0, <1>1, <1>2, <1>6, <1>8, <2>1, <2>3, <2>6 DEF extracted
<1> QED BY <1>1, <1>7, <1>8

\* Nor does the check of a connection write the reserved name.
LEMMA TcpNoError ==
  ASSUME ErrorCodeReserved, tcp_config \in TcpConfigs, NEW a, NEW data
  PROVE  Errors(TcpExtractCheckAttributes(MergeFrom(a, tcp_config.mixer_attributes), data)) = Errors(a)
<1> DEFINE name == "check.error_code"
           b == MergeFrom(a, tcp_config.mixer_attributes)
<1>1. Find(b, name) = Find(a, name)
  BY FindMerge DEF ErrorCodeReserved
<1> HIDE DEF b
<1>2. Find(TcpExtractCheckAttributes(b, data), name) = Find(b, name)
  BY TcpCheckLeaves DEF TcpCheckNames
<1> QED BY <1>1, <1>2 DEF Errors, b

\* The check of a connection, answered at once or not.
LEMMA TcpCheckStep ==
  ASSUME TcpAnswers, NEW data, NEW answer, answer = {} \/ \E s : answer = {s}, TcpCheck(data, answer)
  PROVE  TcpAnswers' /\ (ErrorCodeReserved /\ TcpErrors => TcpErrors')
<1>1. /\ TcpProgress' /\ TcpAsked'
      /\ UNCHANGED <<tcp_config, phase>> /\ tcp_log'.report = tcp_log.report
      /\ tcp_log.verdict = {}
      /\ \/ tcp_request'.attributes = tcp_request.attributes
         \/ tcp_request'.attributes = TcpExtractCheckAttributes(
              MergeFrom(tcp_request.attributes, tcp_config.mixer_attributes), data)
  BY TcpCheckEffect
<1>2. ASSUME ErrorCodeReserved, TcpErrors PROVE TcpErrors'
  <2>1. Errors(tcp_request'.attributes) = Errors(tcp_request.attributes)
    BY <1>1, <1>2, TcpNoError DEF TcpAnswers, TcpProgress
  <2>2. Errors(tcp_request.attributes) = {}
    BY <1>1, <1>2 DEF TcpErrors, Denial
  <2> QED BY <1>1, <1>2, <2>1, <2>2 DEF TcpErrors
<1> QED BY <1>1, <1>2 DEF TcpAnswers

\* The answer that comes later, before or after the final report.
LEMMA TcpAnswerStep ==
  ASSUME TcpAnswers, NEW status, TcpAnswer(status)
  PROVE  TcpAnswers' /\ (TcpErrors => TcpErrors')
<1>1. /\ tcp_pc = "checking" /\ tcp_pc' = "checked"
      /\ tcp_request' = [tcp_request EXCEPT !.check_status = status]
      /\ tcp_log' = [tcp_log EXCEPT !.verdict = {status}]
      /\ UNCHANGED <<tcp_config, phase>>
  BY DEF TcpAnswer, SaveStatus
<1>2. /\ tcp_config \in TcpConfigs /\ tcp_log.verdict = {}
      /\ DOMAIN tcp_request = RequestFields /\ DOMAIN tcp_log = {"check", "verdict", "report"}
  BY <1>1 DEF TcpAnswers, TcpProgress
<1>3. /\ DOMAIN tcp_request' = RequestFields /\ tcp_request'.check_status = status
      /\ tcp_request'.attributes = tcp_request.attributes
  BY <1>1, <1>2 DEF RequestFields
<1>4. /\ DOMAIN tcp_log' = {"check", "verdict", "report"} /\ tcp_log'.verdict = {status}
      /\ tcp_log'.report = tcp_log.report /\ tcp_log'.check = tcp_log.check
  BY <1>1, <1>2
<1>5. TcpProgress'
  BY <1>1, <1>2, <1>3, <1>4 DEF TcpProgress
<1>6. TcpAsked'
  BY <1>1, <1>4 DEF TcpAnswers, TcpAsked
<1>7. ASSUME TcpErrors PROVE TcpErrors'
  <2>1. Errors(tcp_request.attributes) = {}
    BY <1>2, <1>7 DEF TcpErrors, Denial
  <2> QED BY <1>1, <1>3, <1>4, <1>7, <2>1 DEF TcpErrors
<1> QED BY <1>5, <1>6, <1>7 DEF TcpAnswers

\* A report of a connection says what it may by then.
LEMMA TcpReportStep ==
  ASSUME TcpAnswers, NEW final \in BOOLEAN, NEW destination, TcpReport(final, destination)
  PROVE  TcpAnswers' /\ (TcpErrors => TcpErrors')
<1>1. CASE tcp_config.disable_report_calls
  <2>1. UNCHANGED <<tcp_request, phase, tcp_log, tcp_config, tcp_pc>>
    BY <1>1 DEF TcpReport
  <2> QED BY <2>1 DEF TcpAnswers, TcpProgress, TcpAsked, TcpErrors, Denial
<1>2. CASE ~tcp_config.disable_report_calls
  <2> DEFINE attributes == TcpExtractReportAttributes(tcp_request, final, destination)
             report == [attributes |-> attributes, final |-> final, verdict |-> tcp_log.verdict]
             set == {report}
  <2>1. /\ tcp_pc # "new" /\ UNCHANGED <<tcp_config, tcp_pc>>
        /\ tcp_request' = [tcp_request EXCEPT !.attributes = attributes]
        /\ phase' = PhaseAfter(final)
        /\ tcp_log' = [tcp_log EXCEPT !.report = set]
    BY <1>2 DEF TcpReport
  <2>2. /\ final /\ tcp_request.check_status # "OK" =>
             Errors(attributes) = {tcp_request.check_status}
        /\ ~final \/ tcp_request.check_status = "OK" =>
             Errors(attributes) = Errors(tcp_request.attributes)
    BY TcpReportSays
  <2>3. /\ report.attributes = attributes /\ report.final = final /\ report.verdict = tcp_log.verdict
    OBVIOUS
  <2> HIDE DEF attributes, report
  <2>4. \A r \in set : r = report
    OBVIOUS
  <2> HIDE DEF set
  <2>5. /\ tcp_config \in TcpConfigs
        /\ DOMAIN tcp_request = RequestFields /\ DOMAIN tcp_log = {"check", "verdict", "report"}
        /\ tcp_pc = "checking" => tcp_log.verdict = {}
        /\ \/ tcp_log.verdict = {} /\ tcp_request.check_status = "OK"
           \/ tcp_log.verdict = {tcp_request.check_status}
    BY DEF TcpAnswers, TcpProgress
  <2>6. /\ DOMAIN tcp_request' = RequestFields /\ tcp_request'.attributes = attributes
        /\ tcp_request'.check_status = tcp_request.check_status
    BY <2>1, <2>5 DEF RequestFields
  <2>7. /\ DOMAIN tcp_log' = {"check", "verdict", "report"} /\ tcp_log'.report = set
        /\ tcp_log'.check = tcp_log.check /\ tcp_log'.verdict = tcp_log.verdict
    BY <2>1, <2>5
  <2>8. TcpProgress'
    BY <2>1, <2>5, <2>6, <2>7 DEF TcpProgress
  <2>9. TcpAsked'
    BY <2>1, <2>7 DEF TcpAnswers, TcpAsked
  <2>10. Denial(report) = Denial(tcp_log) /\ Denial(tcp_log') = Denial(tcp_log)
    BY <2>3, <2>7 DEF Denial
  <2>11. ASSUME TcpErrors PROVE TcpErrors'
    <3>1. /\ Errors(attributes) \subseteq Denial(tcp_log)
          /\ final => Errors(attributes) = Denial(tcp_log)
      <4>1. CASE tcp_request.check_status = "OK"
        <5>1. Denial(tcp_log) = {}
          BY <2>5, <4>1 DEF Denial
        <5> QED BY <2>2, <2>11, <4>1, <5>1 DEF TcpErrors
      <4>2. CASE tcp_request.check_status # "OK"
        <5>1. Denial(tcp_log) = {tcp_request.check_status}
          BY <2>5, <4>2 DEF Denial
        <5> QED BY <2>2, <2>11, <4>2, <5>1 DEF TcpErrors
      <4> QED BY <4>1, <4>2
    <3>2. phase' = "periodic" => Errors(attributes) = {}
      <4>1. phase' = "periodic" => phase = "periodic" /\ ~final
        BY <2>1 DEF PhaseAfter
      <4> QED BY <2>2, <2>11, <4>1 DEF TcpErrors
    <3> QED BY <2>3, <2>4, <2>6, <2>7, <2>10, <3>1, <3>2 DEF TcpErrors, TcpRight
  <2> QED BY <2>8, <2>9, <2>11 DEF TcpAnswers
<1> QED BY <1>1, <1>2

\* A new connection has asked for nothing and reported nothing.
LEMMA TcpAnswersInit == TcpInit => TcpAnswers /\ TcpErrors
<1> SUFFICES ASSUME TcpInit PROVE TcpAnswers /\ TcpErrors
  OBVIOUS
<1>1. /\ tcp_config \in TcpConfigs /\ tcp_pc = "new" /\ tcp_request = NewRequestContext
      /\ phase = "periodic" /\ tcp_log = [check |-> {}, verdict |-> {}, report |-> {}]
  BY DEF TcpInit
<1>2. TcpProgress /\ TcpAsked
  BY <1>1 DEF TcpProgress, TcpAsked, NewRequestContext, RequestFields
<1>3. Errors(tcp_request.attributes) = {}
  BY <1>1 DEF NewRequestContext, Errors, Find
<1> QED BY <1>1, <1>2, <1>3 DEF TcpAnswers, TcpErrors

\* Every step of a connection keeps its answer and its errors right.
LEMMA TcpAnswersNext ==
  ASSUME TcpAnswers, [TcpNext]_tcp_vars
  PROVE  TcpAnswers' /\ (ErrorCodeReserved /\ TcpErrors => TcpErrors')
<1>1. ASSUME UNCHANGED <<tcp_request, phase, tcp_log, tcp_config, tcp_pc>>
      PROVE  TcpAnswers' /\ (TcpErrors => TcpErrors')
  BY <1>1 DEF TcpAnswers, TcpProgress, TcpAsked, TcpErrors, Denial
<1>2. ASSUME NEW data, NEW answer \in {{}} \cup {{s} : s \in TcpStatuses}, TcpCheck(data, answer)
      PROVE  TcpAnswers' /\ (ErrorCodeReserved /\ TcpErrors => TcpErrors')
  BY <1>2, TcpCheckStep
<1>3. ASSUME NEW status, TcpAnswer(status) PROVE TcpAnswers' /\ (TcpErrors => TcpErrors')
  BY <1>3, TcpAnswerStep
<1>4. ASSUME NEW final \in BOOLEAN, NEW data, TcpReport(final, data.source)
      PROVE  TcpAnswers' /\ (TcpErrors => TcpErrors')
  BY <1>4, TcpReportStep
<1>5. ASSUME NEW received, NEW sent, Move(received, sent) PROVE TcpAnswers' /\ (TcpErrors => TcpErrors')
  BY <1>1, <1>5 DEF Move
<1>6. CASE UNCHANGED tcp_vars
  BY <1>1, <1>6 DEF tcp_vars
<1> QED BY <1>2, <1>3, <1>4, <1>5, <1>6 DEF TcpNext

VerdictsReported == VerdictInv /\ TcpErrors

\* The invariants of both handlers give the property.
LEMMA VerdictsRight == VerdictsReported => VerdictReported
<1> SUFFICES ASSUME VerdictsReported PROVE VerdictReported
  OBVIOUS
<1>1. ASSUME NEW h \in Handlers, NEW report \in handler[h].report
      PROVE  LET said == report.attributes
             IN /\ said["response.code"].value =
                     IF Denial(report) = {} THEN report.data.response_code
                     ELSE StatusHttpCode(The(Denial(report)))
                /\ {said[n].value : n \in {"check.error_code"} \cap DOMAIN said} = Denial(report)
  <2>1. Right(report)
    BY DEF VerdictsReported, VerdictInv, VerdictOk
  <2> DEFINE code == IF Denial(report) = {} THEN report.data.response_code
                     ELSE StatusHttpCode(The(Denial(report)))
  <2>2. Says(report.attributes, <<"response.code", code>>) /\ Errors(report.attributes) = Denial(report)
    BY <2>1 DEF Right
  <2> HIDE DEF code
  <2>3. report.attributes["response.code"].value = code
    BY <2>2, SaidValue
  <2> QED BY <2>2, <2>3, ErrorsSaid DEF code
<1>2. ASSUME NEW report \in tcp_log.report
      PROVE  LET said == report.attributes
                 error == {said[n].value : n \in {"check.error_code"} \cap DOMAIN said}
             IN /\ error \subseteq Denial(report)
                /\ report.final => error = Denial(report)
                /\ phase = "periodic" => error = {}
  <2>1. TcpRight(report) /\ (phase = "periodic" => Errors(report.attributes) = {})
    BY DEF VerdictsReported, TcpErrors
  <2> QED BY <2>1, ErrorsSaid DEF TcpRight
<1> QED BY <1>1, <1>2 DEF VerdictReported

\* The status a TCP connection keeps is that of the answer to its check, which
\* asked for the quotas its rules give.
THEOREM TcpAnswersInvariant == Spec => []TcpAnswers
<1>1. Init => TcpAnswers
  BY Steps, TcpAnswersInit
<1>2. TcpAnswers /\ [Next]_vars => TcpAnswers'
  BY Steps, TcpAnswersNext
<1> QED BY <1>1, <1>2, PTL DEF Spec

\* A report gives the verdict on its check if it follows it, and no error if it
\* comes before it, for HTTP and TCP and any order of answers and reports, as
\* long as nothing else names check.error_code.
THEOREM VerdictsAreReported ==
  ASSUME ErrorCodeReserved
  PROVE  Spec => []VerdictReported
<1>1. Init => VerdictsReported
  <2> SUFFICES ASSUME Init PROVE VerdictsReported
    OBVIOUS
  <2>1. \A h \in Handlers : handler[h] = NewHandler
    BY Steps DEF HttpInit
  <2>2. VerdictOk(NewHandler)
    BY DEF NewHandler, NewRequestContext, VerdictOk, Errors, Find
  <2> QED BY <2>1, <2>2, Steps, TcpAnswersInit DEF VerdictsReported, VerdictInv
<1>2. HttpInv /\ TcpAnswers /\ VerdictsReported /\ [Next]_vars => VerdictsReported'
  BY Steps, VerdictNext, TcpAnswersNext DEF VerdictsReported
<1>3. Spec => []VerdictsReported
  BY <1>1, <1>2, HttpInvariant, TcpAnswersInvariant, PTL DEF Spec
<1> QED BY <1>3, VerdictsRight, PTL

-----------------------------------------------------------------------------
(* The quotas of a request *)

\* The last of the first i.
LEMMA MaxInterval ==
  ASSUME NEW n \in Nat, NEW i \in 1..n
  PROVE  /\ Max(1..i) = i /\ (1..i) \ {Max(1..i)} = 1..(i - 1)
         /\ 1..i \in SUBSET (1..n) /\ 1..i # {}
<1>1. i \in 1..i /\ 1..i \in SUBSET (1..n) /\ 1..i # {}
  OBVIOUS
<1>2. Max(1..i) \in 1..i /\ \A x \in 1..i : x <= Max(1..i)
  BY <1>1, MaxOf
<1>3. Max(1..i) = i
  <2> DEFINE m == Max(1..i)
  <2>1. m \in 1..i /\ i <= m
    BY <1>1, <1>2
  <2> HIDE DEF m
  <2>2. m = i
    BY <2>1
  <2> QED BY <2>2 DEF m
<1>4. (1..i) \ {i} = 1..(i - 1)
  OBVIOUS
<1> QED BY <1>1, <1>3, <1>4

\* w[i] is what the first i rules have added to the results.
RuleWalk(w, spec, attributes, results, Q) ==
  /\ w \in [0..Len(spec) -> Seq(Q)]
  /\ w[0] = results /\ w[Len(spec)] = GetRequirements(spec, attributes, results)
  /\ \A i \in 1..Len(spec) :
       w[i] = IF RuleApplies(spec[i], attributes) THEN w[i - 1] \o spec[i].quotas ELSE w[i - 1]

\* GetRequirements goes through the rules one by one.
LEMMA RuleSteps ==
  ASSUME NEW Q, NEW T, NEW spec \in Seq(T), \A r \in DOMAIN spec : spec[r].quotas \in Seq(Q),
         NEW attributes, NEW results \in Seq(Q)
  PROVE  \E w : RuleWalk(w, spec, attributes, results, Q)
<1> DEFINE n == Len(spec)
           D == Seq(Q)
           step(d, rule) == IF RuleApplies(rule, attributes) THEN d \o rule.quotas ELSE d
           P(g) == g = [x \in SUBSET (DOMAIN spec) |-> IF x = {} THEN results
                                        ELSE step(g[x \ {Max(x)}], spec[Max(x)])]
           F == [i \in 1..n |-> [d \in D |-> step(d, spec[i])]]
<1>1. n \in Nat /\ DOMAIN spec = 1..n
  BY LenProperties
<1>2. \A i \in 1..n, d \in D : step(d, spec[i]) \in D
  <2> SUFFICES ASSUME NEW i \in 1..n, NEW d \in D PROVE step(d, spec[i]) \in D
    OBVIOUS
  <2>1. d \o spec[i].quotas \in D
    BY <1>1, ConcatProperties
  <2> QED BY <2>1
<1>3. GetRequirements(spec, attributes, results) = (CHOOSE g : P(g))[DOMAIN spec]
  BY DEF GetRequirements, FoldLeft, MapThenFoldSet
<1> HIDE DEF step, n, D
<1>4. \E g : P(g)
  <2>1. \A i \in 1..n, d \in D : F[i][d] \in D
    BY <1>2
  <2>0. results \in D
    BY DEF D
  <2> HIDE DEF F
  <2>2. PICK g : WalksOver(g, n, results, F) /\ \A x \in SUBSET (1..n) : g[x] \in D
    BY <1>1, <2>0, <2>1, WalkTyped
  <2> DEFINE h == [x \in SUBSET (DOMAIN spec) |-> IF x = {} THEN results
                                   ELSE step(g[x \ {Max(x)}], spec[Max(x)])]
  <2>3. ASSUME NEW x \in SUBSET (1..n) PROVE g[x] = h[x]
    <3>1. CASE x = {}
      BY <1>1, <2>2, <3>1 DEF WalksOver
    <3>2. CASE x # {}
      <4>1. Max(x) \in 1..n /\ x \ {Max(x)} \in SUBSET (1..n)
        BY <1>1, <3>2, MaxOf
      <4>2. g[x] = F[Max(x)][g[x \ {Max(x)}]]
        BY <2>2, <3>2 DEF WalksOver
      <4>3. g[x \ {Max(x)}] \in D
        BY <2>2, <4>1
      <4> QED BY <1>1, <3>2, <4>1, <4>2, <4>3 DEF F
    <3> QED BY <3>1, <3>2
  <2>4. g = [x \in SUBSET (1..n) |-> g[x]] /\ h = [x \in SUBSET (1..n) |-> h[x]]
    BY <1>1, <2>2 DEF WalksOver
  <2>5. g = h
    <3> HIDE DEF h
    <3> QED BY <2>3, <2>4
  <2> QED BY <2>5
<1> DEFINE it == CHOOSE g : P(g)
<1>5. P(it)
  <2> HIDE DEF P
  <2> QED BY <1>4
<1> HIDE DEF it
<1>6. ASSUME NEW i \in 1..n PROVE it[1..i] = step(it[1..(i - 1)], spec[i])
  <2>1. /\ Max(1..i) = i /\ (1..i) \ {Max(1..i)} = 1..(i - 1)
        /\ 1..i \in SUBSET (1..n) /\ 1..i # {}
    BY <1>1, MaxInterval
  <2>2. it[1..i] = step(it[(1..i) \ {Max(1..i)}], spec[Max(1..i)])
    BY <1>1, <1>5, <2>1
  <2> QED BY <2>1, <2>2
<1>7. 1..0 = {} /\ it[{}] = results
  BY <1>5
<1> DEFINE w == [i \in 0..n |-> it[1..i]]
<1>8. w[0] = results /\ w[n] = GetRequirements(spec, attributes, results)
  BY <1>1, <1>3, <1>7 DEF it
<1>9. ASSUME NEW i \in 1..n PROVE w[i] = step(w[i - 1], spec[i])
  <2>1. i \in 0..n /\ i - 1 \in 0..n
    BY <1>1
  <2> QED BY <1>6, <2>1
<1>10. w = [i \in 0..n |-> w[i]]
  OBVIOUS
<1> HIDE DEF w
<1>11. \A i \in 0..n : w[i] \in D
  <2> DEFINE G == {i \in Nat : i <= n => w[i] \in D}
  <2>1. 0 \in G
    BY <1>8 DEF D
  <2>2. ASSUME NEW i \in G PROVE i + 1 \in G
    <3>1. i + 1 \in Nat
      OBVIOUS
    <3>2. ASSUME i + 1 <= n PROVE w[i + 1] \in D
      <4>1. i + 1 \in 1..n /\ i + 1 - 1 = i /\ i <= n
        BY <1>1, <3>2
      <4>2. w[i] \in D /\ w[i + 1] = step(w[i], spec[i + 1])
        BY <1>9, <4>1
      <4> QED BY <1>2, <4>1, <4>2
    <3> QED BY <3>1, <3>2
  <2> HIDE DEF G
  <2>3. Nat \subseteq G
    BY <2>1, <2>2, NatInductionSet
  <2> QED BY <2>3 DEF G
<1>12. w \in [0..n -> D]
  BY <1>10, <1>11
<1> QED BY <1>8, <1>9, <1>12 DEF RuleWalk, step, n, D

\* GetRequirements returns quotas.
LEMMA RequirementsIn ==
  ASSUME NEW Q, NEW T, NEW spec \in Seq(T), \A r \in DOMAIN spec : spec[r].quotas \in Seq(Q),
         NEW attributes, NEW results \in Seq(Q)
  PROVE  GetRequirements(spec, attributes, results) \in Seq(Q)
<1>1. PICK w : RuleWalk(w, spec, attributes, results, Q)
  BY RuleSteps
<1>2. Len(spec) \in 0..Len(spec)
  BY LenProperties
<1> QED BY <1>1, <1>2 DEF RuleWalk

\* Specifications whose quotas are from Q.
AreSpecs(specs, Q) ==
  /\ specs \in Seq(ToSet(specs))
  /\ \A i \in DOMAIN specs :
       /\ specs[i] \in Seq(ToSet(specs[i]))
       /\ \A r \in DOMAIN specs[i] : specs[i][r].quotas \in Seq(Q)

\* w[i] is what the first i specifications have added to the results.
SpecWalk(w, specs, attributes, results, Q) ==
  /\ w \in [0..Len(specs) -> Seq(Q)]
  /\ w[0] = results /\ w[Len(specs)] = AddQuotas(specs, attributes, results)
  /\ \A i \in 1..Len(specs) :
       w[i] = GetRequirements(specs[i], attributes, w[i - 1])

\* AddQuotas goes through the specifications one by one.
LEMMA SpecSteps ==
  ASSUME NEW Q, NEW specs, AreSpecs(specs, Q),
         NEW attributes, NEW results \in Seq(Q)
  PROVE  \E w : SpecWalk(w, specs, attributes, results, Q)
<1> DEFINE n == Len(specs)
           D == Seq(Q)
           step(d, spec) == GetRequirements(spec, attributes, d)
           P(g) == g = [x \in SUBSET (DOMAIN specs) |-> IF x = {} THEN results
                                        ELSE step(g[x \ {Max(x)}], specs[Max(x)])]
           F == [i \in 1..n |-> [d \in D |-> step(d, specs[i])]]
<1>1. n \in Nat /\ DOMAIN specs = 1..n
  BY LenProperties DEF AreSpecs
<1>2. \A i \in 1..n, d \in D : step(d, specs[i]) \in D
  <2> SUFFICES ASSUME NEW i \in 1..n, NEW d \in D PROVE step(d, specs[i]) \in D
    OBVIOUS
  <2>1. /\ specs[i] \in Seq(ToSet(specs[i]))
        /\ \A r \in DOMAIN specs[i] : specs[i][r].quotas \in Seq(Q)
    BY <1>1 DEF AreSpecs
  <2> QED BY <2>1, RequirementsIn
<1>3. AddQuotas(specs, attributes, results) = (CHOOSE g : P(g))[DOMAIN specs]
  BY DEF AddQuotas, FoldLeft, MapThenFoldSet
<1> HIDE DEF step, n, D
<1>4. \E g : P(g)
  <2>1. \A i \in 1..n, d \in D : F[i][d] \in D
    BY <1>2
  <2>0. results \in D
    BY DEF D
  <2> HIDE DEF F
  <2>2. PICK g : WalksOver(g, n, results, F) /\ \A x \in SUBSET (1..n) : g[x] \in D
    BY <1>1, <2>0, <2>1, WalkTyped
  <2> DEFINE h == [x \in SUBSET (DOMAIN specs) |-> IF x = {} THEN results
                                   ELSE step(g[x \ {Max(x)}], specs[Max(x)])]
  <2>3. ASSUME NEW x \in SUBSET (1..n) PROVE g[x] = h[x]
    <3>1. CASE x = {}
      BY <1>1, <2>2, <3>1 DEF WalksOver
    <3>2. CASE x # {}
      <4>1. Max(x) \in 1..n /\ x \ {Max(x)} \in SUBSET (1..n)
        BY <1>1, <3>2, MaxOf
      <4>2. g[x] = F[Max(x)][g[x \ {Max(x)}]]
        BY <2>2, <3>2 DEF WalksOver
      <4>3. g[x \ {Max(x)}] \in D
        BY <2>2, <4>1
      <4> QED BY <1>1, <3>2, <4>1, <4>2, <4>3 DEF F
    <3> QED BY <3>1, <3>2
  <2>4. g = [x \in SUBSET (1..n) |-> g[x]] /\ h = [x \in SUBSET (1..n) |-> h[x]]
    BY <1>1, <2>2 DEF WalksOver
  <2>5. g = h
    <3> HIDE DEF h
    <3> QED BY <2>3, <2>4
  <2> QED BY <2>5
<1> DEFINE it == CHOOSE g : P(g)
<1>5. P(it)
  <2> HIDE DEF P
  <2> QED BY <1>4
<1> HIDE DEF it
<1>6. ASSUME NEW i \in 1..n PROVE it[1..i] = step(it[1..(i - 1)], specs[i])
  <2>1. /\ Max(1..i) = i /\ (1..i) \ {Max(1..i)} = 1..(i - 1)
        /\ 1..i \in SUBSET (1..n) /\ 1..i # {}
    BY <1>1, MaxInterval
  <2>2. it[1..i] = step(it[(1..i) \ {Max(1..i)}], specs[Max(1..i)])
    BY <1>1, <1>5, <2>1
  <2> QED BY <2>1, <2>2
<1>7. 1..0 = {} /\ it[{}] = results
  BY <1>5
<1> DEFINE w == [i \in 0..n |-> it[1..i]]
<1>8. w[0] = results /\ w[n] = AddQuotas(specs, attributes, results)
  BY <1>1, <1>3, <1>7 DEF it
<1>9. ASSUME NEW i \in 1..n PROVE w[i] = step(w[i - 1], specs[i])
  <2>1. i \in 0..n /\ i - 1 \in 0..n
    BY <1>1
  <2> QED BY <1>6, <2>1
<1>10. w = [i \in 0..n |-> w[i]]
  OBVIOUS
<1> HIDE DEF w
<1>11. \A i \in 0..n : w[i] \in D
  <2> DEFINE G == {i \in Nat : i <= n => w[i] \in D}
  <2>1. 0 \in G
    BY <1>8 DEF D
  <2>2. ASSUME NEW i \in G PROVE i + 1 \in G
    <3>1. i + 1 \in Nat
      OBVIOUS
    <3>2. ASSUME i + 1 <= n PROVE w[i + 1] \in D
      <4>1. i + 1 \in 1..n /\ i + 1 - 1 = i /\ i <= n
        BY <1>1, <3>2
      <4>2. w[i] \in D /\ w[i + 1] = step(w[i], specs[i + 1])
        BY <1>9, <4>1
      <4> QED BY <1>2, <4>1, <4>2
    <3> QED BY <3>1, <3>2
  <2> HIDE DEF G
  <2>3. Nat \subseteq G
    BY <2>1, <2>2, NatInductionSet
  <2> QED BY <2>3 DEF G
<1>12. w \in [0..n -> D]
  BY <1>10, <1>11
<1> QED BY <1>8, <1>9, <1>12 DEF SpecWalk, step, n, D

\* The quota at a place: specification, rule, position.
At(specs, p) == specs[p[1]][p[2]].quotas[p[3]]

\* f numbers the places P in the order of the quotas q.
Lists(f, q, P, specs) ==
  /\ f \in [1..Len(q) -> P] /\ IsInjective(f)
  /\ \A p \in P : \E k \in 1..Len(q) : f[k] = p
  /\ \A k \in 1..Len(q) : q[k] = At(specs, f[k])

Listed(q, P, specs) == \E f : Lists(f, q, P, specs)

\* The places of one rule.
PlacesOf(i, r, n) == {<<i, r, k>> : k \in 1..n}

\* The quotas of one rule more are numbered after those there are.
LEMMA ListedNext ==
  ASSUME NEW Q, NEW q \in Seq(Q), NEW P, NEW specs, Listed(q, P, specs), NEW i, NEW r,
         NEW s \in Seq(Q), s = specs[i][r].quotas,
         P \cap PlacesOf(i, r, Len(s)) = {}
  PROVE  Listed(q \o s, P \cup PlacesOf(i, r, Len(s)), specs)
<1> DEFINE m == Len(q)
           n == Len(s)
           R == PlacesOf(i, r, n)
           u == q \o s
           place(k) == <<i, r, k>>
<1>1. PICK f : Lists(f, q, P, specs)
  BY DEF Listed
<1>2. m \in Nat /\ n \in Nat
  BY LenProperties
<1>3. /\ Len(u) = m + n
      /\ \A k \in 1..m + n : u[k] = IF k <= m THEN q[k] ELSE s[k - m]
  BY ConcatProperties
<1> DEFINE g == [k \in 1..m + n |-> IF k <= m THEN f[k] ELSE place(k - m)]
<1>4. \A k \in 1..n : place(k) \in R /\ At(specs, place(k)) = s[k]
  BY DEF PlacesOf, At
<1>5. \A p \in R : \E k \in 1..n : p = place(k)
  BY DEF PlacesOf
<1>6. \A j, k \in 1..n : place(j) = place(k) => j = k
  OBVIOUS
<1> HIDE DEF m, n, R, u, place
<1>7. P \cap R = {}
  BY DEF R, n
<1>8. /\ f \in [1..m -> P] /\ IsInjective(f)
      /\ \A p \in P : \E k \in 1..m : f[k] = p
      /\ \A k \in 1..m : q[k] = At(specs, f[k])
  BY <1>1 DEF Lists, m
<1>9. ASSUME NEW k \in 1..m + n
      PROVE  \/ k \in 1..m /\ g[k] = f[k] /\ f[k] \in P
             \/ k \notin 1..m /\ k - m \in 1..n /\ g[k] = place(k - m) /\ place(k - m) \in R
  BY <1>2, <1>4, <1>8
<1>10. DOMAIN g = 1..m + n /\ g = [k \in 1..m + n |-> g[k]]
  OBVIOUS
<1>11. \A k \in 1..m : k \in 1..m + n
  BY <1>2
<1>12. ASSUME NEW k \in 1..n PROVE \E j \in 1..m + n : j \notin 1..m /\ j - m = k
  <2>1. m + k \in 1..m + n /\ m + k \notin 1..m /\ (m + k) - m = k
    BY <1>2
  <2> QED BY <1>2, <2>1
<1> HIDE DEF g
<1>13. g \in [1..m + n -> P \cup R]
  BY <1>9, <1>10
<1>14. IsInjective(g)
  <2> SUFFICES ASSUME NEW j \in 1..m + n, NEW k \in 1..m + n, g[j] = g[k] PROVE j = k
    BY <1>10 DEF IsInjective
  <2>1. CASE j \in 1..m
    <3>1. k \in 1..m /\ f[j] = f[k]
      BY <1>7, <1>9, <2>1
    <3> QED BY <1>8, <2>1, <3>1 DEF IsInjective
  <2>2. CASE j \notin 1..m
    <3>1. k \notin 1..m
      BY <1>7, <1>9, <2>2
    <3>2. j - m \in 1..n /\ k - m \in 1..n /\ place(j - m) = place(k - m)
      BY <1>9, <2>2, <3>1
    <3>3. j - m = k - m
      BY <1>6, <3>2
    <3> QED BY <1>2, <3>3
  <2> QED BY <2>1, <2>2
<1>15. ASSUME NEW p \in P \cup R PROVE \E k \in 1..m + n : g[k] = p
  <2>1. CASE p \in P
    <3>1. PICK k \in 1..m : f[k] = p
      BY <1>8, <2>1
    <3> QED BY <1>9, <1>11, <3>1
  <2>2. CASE p \in R
    <3>1. PICK k \in 1..n : p = place(k)
      BY <1>5, <2>2
    <3>2. PICK j \in 1..m + n : j \notin 1..m /\ j - m = k
      BY <1>12
    <3>3. g[j] = place(j - m)
      BY <1>9, <3>2
    <3>4. g[j] = p
      BY <3>1, <3>2, <3>3
    <3> QED BY <3>2, <3>4
  <2> QED BY <2>1, <2>2
<1>16. ASSUME NEW k \in 1..m + n PROVE u[k] = At(specs, g[k])
  <2>1. CASE k \in 1..m
    <3>1. g[k] = f[k] /\ u[k] = q[k]
      BY <1>2, <1>3, <1>9, <2>1
    <3> QED BY <1>8, <2>1, <3>1
  <2>2. CASE k \notin 1..m
    <3>1. k - m \in 1..n /\ g[k] = place(k - m) /\ u[k] = s[k - m]
      BY <1>2, <1>3, <1>9, <2>2
    <3> QED BY <1>4, <3>1
  <2> QED BY <2>1, <2>2
<1>17. Lists(g, u, P \cup R, specs)
  BY <1>3, <1>13, <1>14, <1>15, <1>16 DEF Lists
<1> QED BY <1>17 DEF Listed, u, R, n

\* How often a quota is in a row, and at how many of the places.
CountOf(q, quota) == Cardinality({k \in 1..Len(q) : q[k] = quota})
PlacesWith(P, specs, quota) == Cardinality({p \in P : At(specs, p) = quota})

\* Counting by the numbering.
LEMMA ListedCounts ==
  ASSUME NEW Q, NEW q \in Seq(Q), NEW P, NEW specs, Listed(q, P, specs)
  PROVE  /\ Len(q) = Cardinality(P)
         /\ \A quota : CountOf(q, quota) = PlacesWith(P, specs, quota)
<1>1. PICK f : Lists(f, q, P, specs)
  BY DEF Listed
<1>2. Len(q) \in Nat /\ IsFiniteSet(1..Len(q)) /\ Cardinality(1..Len(q)) = Len(q)
  <2>1. Len(q) \in Nat
    BY LenProperties
  <2> QED BY <2>1, FS_Interval
<1>3. Cardinality(P) = Len(q)
  <2>1. f \in Bijection(1..Len(q), P)
    BY <1>1 DEF Lists, Bijection, Injection, Surjection
  <2>2. ExistsBijection(1..Len(q), P)
    BY <2>1 DEF ExistsBijection
  <2> QED BY <1>2, <2>2, FS_Bijection
<1>4. ASSUME NEW quota
      PROVE  Cardinality({k \in 1..Len(q) : q[k] = quota}) = Cardinality({p \in P : At(specs, p) = quota})
  <2> DEFINE K == {k \in 1..Len(q) : q[k] = quota}
             R == {p \in P : At(specs, p) = quota}
             g == [k \in K |-> f[k]]
  <2>1. \A k \in K : k \in 1..Len(q) /\ f[k] \in R
    BY <1>1 DEF Lists
  <2>2. \A p \in R : \E k \in K : f[k] = p
    <3> SUFFICES ASSUME NEW p \in R PROVE \E k \in K : f[k] = p
      OBVIOUS
    <3>1. PICK k \in 1..Len(q) : f[k] = p
      BY <1>1 DEF Lists
    <3>2. q[k] = quota
      BY <1>1, <3>1 DEF Lists
    <3> QED BY <3>1, <3>2
  <2>3. IsFiniteSet(K)
    BY <1>2, FS_Subset
  <2> HIDE DEF K, R
  <2>4. g \in [K -> R] /\ \A k \in K : g[k] = f[k]
    BY <2>1
  <2>5. IsInjective(g)
    BY <1>1, <2>1, <2>4 DEF IsInjective, Lists
  <2> HIDE DEF g
  <2>6. g \in Bijection(K, R)
    BY <2>2, <2>4, <2>5 DEF Bijection, Injection, Surjection
  <2>7. ExistsBijection(K, R)
    BY <2>6 DEF ExistsBijection
  <2>8. Cardinality(R) = Cardinality(K)
    BY <2>3, <2>7, FS_Bijection
  <2> QED BY <2>8 DEF K, R
<1> QED BY <1>3, <1>4 DEF CountOf, PlacesWith

\* The places of the specifications before i, and of the first m rules of i.
Before(due, i, m) == {p \in due : p[1] < i \/ (p[1] = i /\ p[2] <= m)}

\* The places of the quotas that are due.
LEMMA DuePlaces ==
  ASSUME NEW Q, NEW specs, AreSpecs(specs, Q), NEW attributes
  PROVE  /\ \A p \in Due(specs, attributes) :
              /\ p = <<p[1], p[2], p[3]>>
              /\ p[1] \in 1..Len(specs) /\ p[2] \in 1..Len(specs[p[1]])
              /\ p[3] \in 1..Len(specs[p[1]][p[2]].quotas)
              /\ RuleApplies(specs[p[1]][p[2]], attributes)
         /\ \A i \in 1..Len(specs) : \A r \in 1..Len(specs[i]) :
              RuleApplies(specs[i][r], attributes) =>
                \A k \in 1..Len(specs[i][r].quotas) : <<i, r, k>> \in Due(specs, attributes)
<1>1. DOMAIN specs = 1..Len(specs)
  BY LenProperties DEF AreSpecs
<1>2. \A i \in DOMAIN specs : DOMAIN specs[i] = 1..Len(specs[i])
  BY LenProperties DEF AreSpecs
<1>3. \A i \in DOMAIN specs : \A r \in DOMAIN specs[i] :
        DOMAIN specs[i][r].quotas = 1..Len(specs[i][r].quotas)
  BY LenProperties DEF AreSpecs
<1>4. ASSUME NEW p \in Due(specs, attributes)
      PROVE  /\ p = <<p[1], p[2], p[3]>>
             /\ p[1] \in 1..Len(specs) /\ p[2] \in 1..Len(specs[p[1]])
             /\ p[3] \in 1..Len(specs[p[1]][p[2]].quotas)
             /\ RuleApplies(specs[p[1]][p[2]], attributes)
  <2>1. PICK i \in DOMAIN specs : \E r \in DOMAIN specs[i] : \E k \in DOMAIN specs[i][r].quotas :
          RuleApplies(specs[i][r], attributes) /\ p = <<i, r, k>>
    BY DEF Due
  <2>2. PICK r \in DOMAIN specs[i] : \E k \in DOMAIN specs[i][r].quotas :
          RuleApplies(specs[i][r], attributes) /\ p = <<i, r, k>>
    BY <2>1
  <2>3. PICK k \in DOMAIN specs[i][r].quotas :
          RuleApplies(specs[i][r], attributes) /\ p = <<i, r, k>>
    BY <2>2
  <2>4. p[1] = i /\ p[2] = r /\ p[3] = k /\ p = <<p[1], p[2], p[3]>>
    BY <2>3
  <2> QED BY <1>1, <1>2, <1>3, <2>3, <2>4
<1>5. ASSUME NEW i \in 1..Len(specs), NEW r \in 1..Len(specs[i]),
             RuleApplies(specs[i][r], attributes), NEW k \in 1..Len(specs[i][r].quotas)
      PROVE  <<i, r, k>> \in Due(specs, attributes)
  <2>1. i \in DOMAIN specs /\ r \in DOMAIN specs[i] /\ k \in DOMAIN specs[i][r].quotas
    BY <1>1, <1>2, <1>3
  <2> QED BY <1>5, <2>1 DEF Due
<1> QED BY <1>4, <1>5

\* From before to after a rule that applies adds its places, any other nothing.
Grows(before, after, places, applies) ==
  /\ after = IF applies THEN before \cup places ELSE before
  /\ before \cap places = {}

\* What one rule adds to the places.
LEMMA RuleDue ==
  ASSUME NEW Q, NEW specs, AreSpecs(specs, Q), NEW attributes,
         NEW i \in 1..Len(specs), NEW m \in 1..Len(specs[i]),
         NEW due, due = Due(specs, attributes)
  PROVE  Grows(Before(due, i, m - 1), Before(due, i, m),
               PlacesOf(i, m, Len(specs[i][m].quotas)), RuleApplies(specs[i][m], attributes))
<1> DEFINE before == Before(due, i, m - 1)
           after == Before(due, i, m)
           places == PlacesOf(i, m, Len(specs[i][m].quotas))
           n == Len(specs[i][m].quotas)
<1>1. \A p \in due : /\ p = <<p[1], p[2], p[3]>>
                     /\ p[1] \in 1..Len(specs) /\ p[2] \in 1..Len(specs[p[1]])
                     /\ p[3] \in 1..Len(specs[p[1]][p[2]].quotas)
                     /\ RuleApplies(specs[p[1]][p[2]], attributes)
  BY DuePlaces
<1>2. RuleApplies(specs[i][m], attributes) => \A k \in 1..n : <<i, m, k>> \in due
  BY DuePlaces
<1>3. \A p \in due : p[1] \in Int /\ p[2] \in Int
  <2> SUFFICES ASSUME NEW p \in due PROVE p[1] \in Int /\ p[2] \in Int
    OBVIOUS
  <2>1. p[1] \in 1..Len(specs) /\ p[2] \in 1..Len(specs[p[1]])
    BY <1>1
  <2> QED BY <2>1
<1>4. \A p \in places : p[1] = i /\ p[2] = m /\ \E k \in 1..n : p = <<i, m, k>>
  BY DEF PlacesOf
<1>5. \A k \in 1..n : <<i, m, k>> \in places
  BY DEF PlacesOf
<1> HIDE DEF n
<1>6. before = {p \in due : p[1] < i \/ (p[1] = i /\ p[2] <= m - 1)}
  BY DEF Before
<1>7. after = {p \in due : p[1] < i \/ (p[1] = i /\ p[2] <= m)}
  BY DEF Before
<1>8. i \in Int /\ m \in Int
  OBVIOUS
<1> HIDE DEF before, after, places
<1>9. before \cap places = {}
  BY <1>4, <1>6, <1>8
<1>10. before \subseteq after
  BY <1>3, <1>6, <1>7, <1>8
<1>11. \A p \in after : p \in before \/ (p[1] = i /\ p[2] = m)
  BY <1>3, <1>6, <1>7, <1>8
<1>12. CASE RuleApplies(specs[i][m], attributes)
  <2>1. places \subseteq after
    BY <1>2, <1>4, <1>7, <1>8, <1>12
  <2>2. ASSUME NEW p \in after, p \notin before PROVE p \in places
    <3>1. p[1] = i /\ p[2] = m /\ p \in due
      BY <1>7, <1>11, <2>2
    <3>2. p = <<i, m, p[3]>> /\ p[3] \in 1..n
      BY <1>1, <3>1 DEF n
    <3> QED BY <1>5, <3>2
  <2> QED BY <1>9, <1>10, <1>12, <2>1, <2>2 DEF Grows, before, after, places
<1>13. CASE ~RuleApplies(specs[i][m], attributes)
  <2>1. ASSUME NEW p \in after PROVE p \in before
    <3>1. p[1] = i /\ p[2] = m => RuleApplies(specs[i][m], attributes)
      BY <1>1, <1>7
    <3> QED BY <1>11, <1>13, <3>1
  <2> QED BY <1>9, <1>10, <1>13, <2>1 DEF Grows, before, after, places
<1> QED BY <1>12, <1>13 DEF Grows, before, after, places

\* The places go on from one specification to the next.
LEMMA SpecDue ==
  ASSUME NEW Q, NEW specs, AreSpecs(specs, Q), NEW attributes, NEW due,
         due = Due(specs, attributes)
  PROVE  /\ \A i \in 1..Len(specs) : Before(due, i, Len(specs[i])) = Before(due, i + 1, 0)
         /\ Before(due, 1, 0) = {} /\ Before(due, Len(specs) + 1, 0) = due
<1>1. \A p \in due : p[1] \in 1..Len(specs) /\ p[2] \in 1..Len(specs[p[1]])
  BY DuePlaces
<1>2. Len(specs) \in Nat /\ \A i \in 1..Len(specs) : Len(specs[i]) \in Nat
  BY LenProperties DEF AreSpecs
<1>3. ASSUME NEW i \in 1..Len(specs)
      PROVE  Before(due, i, Len(specs[i])) = Before(due, i + 1, 0)
  <2>1. ASSUME NEW p \in due
        PROVE  (p[1] < i \/ (p[1] = i /\ p[2] <= Len(specs[i])))
                 <=> (p[1] < i + 1 \/ (p[1] = i + 1 /\ p[2] <= 0))
    <3>1. p[1] \in 1..Len(specs) /\ p[2] \in 1..Len(specs[p[1]])
      BY <1>1
    <3>2. CASE p[1] = i
      BY <1>2, <3>1, <3>2
    <3>3. CASE p[1] # i
      BY <1>2, <3>1, <3>3
    <3> QED BY <3>2, <3>3
  <2> QED BY <2>1 DEF Before
<1>4. Before(due, 1, 0) = {}
  <2>1. ASSUME NEW p \in due PROVE ~(p[1] < 1 \/ (p[1] = 1 /\ p[2] <= 0))
    <3>1. p[1] \in 1..Len(specs) /\ p[2] \in 1..Len(specs[p[1]])
      BY <1>1
    <3> QED BY <1>2, <3>1
  <2> QED BY <2>1 DEF Before
<1>5. Before(due, Len(specs) + 1, 0) = due
  <2>1. ASSUME NEW p \in due PROVE p[1] < Len(specs) + 1
    <3>1. p[1] \in 1..Len(specs)
      BY <1>1
    <3> QED BY <1>2, <3>1
  <2> QED BY <2>1 DEF Before
<1> QED BY <1>3, <1>4, <1>5

\* GetRequirements lists what the rules of one specification demand.
LEMMA RulesListed ==
  ASSUME NEW Q, NEW specs, AreSpecs(specs, Q), NEW attributes, NEW i \in 1..Len(specs),
         NEW results \in Seq(Q), NEW due, due = Due(specs, attributes),
         Listed(results, Before(due, i, 0), specs)
  PROVE  Listed(GetRequirements(specs[i], attributes, results),
                Before(due, i, Len(specs[i])), specs)
<1>1. /\ specs[i] \in Seq(ToSet(specs[i])) /\ Len(specs[i]) \in Nat
      /\ \A r \in DOMAIN specs[i] : specs[i][r].quotas \in Seq(Q)
      /\ DOMAIN specs[i] = 1..Len(specs[i])
  BY LenProperties DEF AreSpecs
<1>2. PICK w : RuleWalk(w, specs[i], attributes, results, Q)
  BY <1>1, RuleSteps
<1> DEFINE n == Len(specs[i])
           G == {m \in Nat : m <= n => Listed(w[m], Before(due, i, m), specs)}
<1>3. 0 \in G
  BY <1>2 DEF RuleWalk
<1>4. ASSUME NEW m \in G PROVE m + 1 \in G
  <2>1. m + 1 \in Nat
    OBVIOUS
  <2>2. ASSUME m + 1 <= n PROVE Listed(w[m + 1], Before(due, i, m + 1), specs)
    <3>1. PICK j \in 1..n : j = m + 1 /\ j - 1 = m
      BY <1>1, <2>2
    <3>2. Listed(w[m], Before(due, i, m), specs)
      BY <1>1, <2>2
    <3>3. /\ m \in 0..n /\ j \in DOMAIN specs[i]
      BY <1>1, <3>1
    <3> DEFINE s == specs[i][j].quotas
               before == Before(due, i, j - 1)
               after == Before(due, i, j)
               places == PlacesOf(i, j, Len(s))
               q == w[m]
    <3>4. q \in Seq(Q) /\ s \in Seq(Q)
      BY <1>1, <1>2, <3>3 DEF RuleWalk
    <3>5. Grows(before, after, places, RuleApplies(specs[i][j], attributes))
      BY RuleDue
    <3>6. w[j] = IF RuleApplies(specs[i][j], attributes) THEN q \o s ELSE q
      BY <1>2, <3>1 DEF RuleWalk
    <3>7. Listed(q, before, specs)
      BY <3>1, <3>2
    <3>8. Listed(w[j], after, specs)
      <4>1. CASE RuleApplies(specs[i][j], attributes)
        <5>1. s = specs[i][j].quotas /\ places = PlacesOf(i, j, Len(s))
          OBVIOUS
        <5> HIDE DEF s, before, after, places, q
        <5>2. Listed(q \o s, before \cup places, specs)
          BY <3>4, <3>5, <3>7, <5>1, ListedNext DEF Grows
        <5> QED BY <3>5, <3>6, <4>1, <5>2 DEF Grows
      <4>2. CASE ~RuleApplies(specs[i][j], attributes)
        BY <3>5, <3>6, <3>7, <4>2 DEF Grows
      <4> QED BY <4>1, <4>2
    <3> QED BY <3>1, <3>8
  <2> QED BY <2>1, <2>2
<1> HIDE DEF G
<1>5. Nat \subseteq G
  BY <1>3, <1>4, NatInductionSet
<1>6. Listed(w[n], Before(due, i, n), specs)
  BY <1>1, <1>5 DEF G
<1> QED BY <1>2, <1>6 DEF RuleWalk

\* AddQuotas lists what is due, each place once.
LEMMA QuotasListed ==
  ASSUME NEW Q, NEW specs, AreSpecs(specs, Q), NEW attributes
  PROVE  /\ AddQuotas(specs, attributes, <<>>) \in Seq(Q)
         /\ Listed(AddQuotas(specs, attributes, <<>>), Due(specs, attributes), specs)
<1> DEFINE n == Len(specs)
           due == Due(specs, attributes)
<1>1. n \in Nat
  BY LenProperties DEF AreSpecs
<1>2. PICK w : SpecWalk(w, specs, attributes, <<>>, Q)
  <2>1. <<>> \in Seq(Q)
    OBVIOUS
  <2> QED BY <2>1, SpecSteps
<1>3. /\ \A i \in 1..n : Before(due, i, Len(specs[i])) = Before(due, i + 1, 0)
      /\ Before(due, 1, 0) = {} /\ Before(due, n + 1, 0) = due
  BY SpecDue
<1> DEFINE G == {i \in Nat : i <= n => Listed(w[i], Before(due, i + 1, 0), specs)}
<1>4. 0 \in G
  <2>1. w[0] = <<>> /\ Before(due, 0 + 1, 0) = {}
    BY <1>2, <1>3 DEF SpecWalk
  <2>2. Lists(<<>>, <<>>, {}, specs)
    BY DEF Lists, IsInjective
  <2> QED BY <2>1, <2>2 DEF Listed
<1>5. ASSUME NEW i \in G PROVE i + 1 \in G
  <2>1. i + 1 \in Nat
    OBVIOUS
  <2>2. ASSUME i + 1 <= n PROVE Listed(w[i + 1], Before(due, i + 1 + 1, 0), specs)
    <3>1. PICK j \in 1..n : j = i + 1 /\ j - 1 = i
      BY <1>1, <2>2
    <3>2. i \in 0..n
      BY <1>1, <3>1
    <3>3. Listed(w[i], Before(due, j, 0), specs) /\ w[i] \in Seq(Q)
      BY <1>1, <1>2, <2>2, <3>1, <3>2 DEF SpecWalk
    <3>4. w[j] = GetRequirements(specs[j], attributes, w[i])
      BY <1>2, <3>1 DEF SpecWalk
    <3> DEFINE q == w[i]
    <3>5. q = w[i] /\ due = Due(specs, attributes) /\ j \in 1..Len(specs)
      OBVIOUS
    <3> HIDE DEF q, due, G
    <3>6. Listed(GetRequirements(specs[j], attributes, q), Before(due, j, Len(specs[j])), specs)
      BY <3>3, <3>5, RulesListed
    <3> QED BY <1>3, <3>1, <3>4, <3>5, <3>6
  <2> QED BY <2>1, <2>2
<1> HIDE DEF G
<1>6. Nat \subseteq G
  BY <1>4, <1>5, NatInductionSet
<1>7. Listed(w[n], due, specs)
  BY <1>1, <1>3, <1>6 DEF G
<1>8. n \in 0..n /\ w[n] = AddQuotas(specs, attributes, <<>>) /\ w[n] \in Seq(Q)
  BY <1>1, <1>2 DEF SpecWalk
<1> QED BY <1>7, <1>8

\* The specifications' quotas are those of their rules.
LEMMA SpecsAre ==
  ASSUME NEW specs, AreQuotaSpecs(specs)
  PROVE  \E Q : AreSpecs(specs, Q)
<1> DEFINE Q == UNION {UNION {ToSet(specs[i][r].quotas) : r \in DOMAIN specs[i]} : i \in DOMAIN specs}
<1>1. specs \in Seq(ToSet(specs))
  BY DEF AreQuotaSpecs
<1>2. \A i \in DOMAIN specs : specs[i] \in ToSet(specs)
  BY DEF ToSet
<1>3. \A i \in DOMAIN specs : specs[i] \in Seq(ToSet(specs[i]))
  BY <1>2 DEF AreQuotaSpecs
<1>4. ASSUME NEW i \in DOMAIN specs, NEW r \in DOMAIN specs[i]
      PROVE  specs[i][r].quotas \in Seq(Q)
  <2> DEFINE s == specs[i][r].quotas
  <2>1. specs[i][r] \in ToSet(specs[i])
    BY DEF ToSet
  <2>2. s \in Seq(ToSet(s))
    BY <1>2, <2>1 DEF AreQuotaSpecs
  <2>3. ToSet(s) \subseteq Q
    OBVIOUS
  <2> HIDE DEF s, Q
  <2>4. Len(s) \in Nat /\ s \in [1..Len(s) -> ToSet(s)]
    BY <2>2, LenProperties
  <2>5. s \in [1..Len(s) -> Q]
    BY <2>3, <2>4
  <2>6. s \in Seq(Q)
    BY <2>4, <2>5, SeqDef
  <2> QED BY <2>6 DEF s
<1> HIDE DEF Q
<1>5. AreSpecs(specs, Q)
  BY <1>1, <1>3, <1>4 DEF AreSpecs
<1> QED BY <1>5

\* Hence the quotas of a check are the ones due for its attributes.
LEMMA DueQuotas ==
  ASSUME NEW specs, AreQuotaSpecs(specs), NEW check,
         check.quotas = AddQuotas(specs, check.attributes, <<>>)
  PROVE  QuotasDue(specs, check)
<1>1. PICK Q : AreSpecs(specs, Q)
  BY SpecsAre
<1> DEFINE q == check.quotas
           attributes == check.attributes
           due == Due(specs, attributes)
<1>2. q \in Seq(Q) /\ Listed(q, due, specs)
  <2>1. attributes = check.attributes
    OBVIOUS
  <2> HIDE DEF attributes
  <2>2. /\ AddQuotas(specs, attributes, <<>>) \in Seq(Q)
        /\ Listed(AddQuotas(specs, attributes, <<>>), Due(specs, attributes), specs)
    BY <1>1, QuotasListed
  <2> QED BY <2>1, <2>2
<1>3. DOMAIN q = 1..Len(q)
  BY <1>2, LenProperties
<1>4. due = Due(specs, check.attributes) /\ q = check.quotas
  OBVIOUS
<1> HIDE DEF due, q
<1>5. /\ Len(q) = Cardinality(due)
      /\ \A quota : CountOf(q, quota) = PlacesWith(due, specs, quota)
  BY <1>2, ListedCounts
<1> QED BY <1>3, <1>4, <1>5 DEF QuotasDue, At, CountOf, PlacesWith

\* A check has been sent for a configured service, with the quotas its rules
\* give for the attributes of the check.
AskedOk(it, config) ==
  \A check \in it.check :
    /\ config # {}
    /\ check.quotas = AddQuotas(The(config).quota_spec, check.attributes, <<>>)

\* A handler asks once, for the attributes it sends.
LEMMA AskedStep ==
  ASSUME NEW it, NEW new, Progress(it), NEW config, AskedOk(it, config), NEW data, NEW answer,
         NEW status,
         \/ ExtractedFrom(it, new, config, data)
         \/ CheckedFrom(it, new, config, data, answer)
         \/ AnsweredFrom(it, new, status)
         \/ ReportedFrom(it, new, data)
  PROVE  AskedOk(new, config)
<1>1. CASE ExtractedFrom(it, new, config, data)
  BY <1>1 DEF ExtractedFrom, SameBut, Fields, AskedOk
<1>2. CASE CheckedFrom(it, new, config, data, answer)
  <2>1. it.request.quotas = <<>>
    BY <1>2 DEF CheckedFrom, Progress
  <2>2. CASE NotSentFrom(it, new)
    BY <2>2 DEF NotSentFrom, SameBut, Fields, AskedOk
  <2>3. CASE SentFrom(it, new, config, data, answer)
    <3>1. \A check \in new.check : check.attributes = new.request.attributes
                                   /\ check.quotas = new.request.quotas
      BY <2>3 DEF SentFrom
    <3>2. config # {} /\ new.request.quotas
            = AddQuotas(The(config).quota_spec, new.request.attributes, <<>>)
      BY <2>1, <2>3 DEF SentFrom, enable_mixer_check
    <3> QED BY <3>1, <3>2 DEF AskedOk
  <2> QED BY <1>2, <2>2, <2>3 DEF CheckedFrom
<1>3. CASE AnsweredFrom(it, new, status)
  BY <1>3 DEF AnsweredFrom, SameBut, Fields, AskedOk
<1>4. CASE ReportedFrom(it, new, data)
  BY <1>4 DEF ReportedFrom, SameBut, Fields, AskedOk
<1> QED BY <1>1, <1>2, <1>3, <1>4

AskedInv == \A h \in Handlers : AskedOk(handler[h], ConfigOf(h))

\* So it is for every handler, after every step.
LEMMA AskedNext ==
  ASSUME HttpInv, AskedInv, [HttpNext]_http_vars
  PROVE  AskedInv'
<1> SUFFICES ASSUME NEW h \in Handlers PROVE AskedOk(handler'[h], (ConfigOf(h))')
  BY DEF AskedInv
<1>1. Moves(h) /\ Progress(handler[h])
  BY HandlerMoves DEF HttpInv, HandlerInv
<1>2. CASE handler[h].pc = "none"
  <2>1. handler'[h].check = {}
    <3>1. handler'[h] = handler[h] \/ \E route, context : CreatedFrom(handler[h], handler'[h], context, route)
      BY <1>1, <1>2 DEF Moves, ExtractedFrom, CheckedFrom, AnsweredFrom, ReportedFrom
    <3> QED BY <1>1, <1>2, <3>1 DEF CreatedFrom, SameBut, Fields, Progress
  <2> QED BY <2>1 DEF AskedOk
<1>3. CASE handler[h].pc # "none"
  <2>1. (ConfigOf(h))' = ConfigOf(h)
    BY <1>3, MovesKeep
  <2>2. AskedOk(handler[h], ConfigOf(h))
    BY DEF AskedInv
  <2>3. handler'[h] = handler[h] \/ AskedOk(handler'[h], ConfigOf(h))
    BY <1>1, <1>3, <2>2, AskedStep DEF Moves, CreatedFrom
  <2> QED BY <2>1, <2>2, <2>3
<1> QED BY <1>2, <1>3

\* What a request asks for is due.
LEMMA HttpQuotas ==
  ASSUME HttpInv, AskedInv, NEW h \in Handlers, NEW check \in handler[h].check
  PROVE  QuotasDue(The(ConfigOf(h)).quota_spec, check)
<1>1. handler[h].pc # "none"
  BY DEF HttpInv, HandlerInv, Progress
<1>2. ConfigOf(h) \in Contexts
  BY <1>1, ConfigIs
<1>3. /\ ConfigOf(h) # {}
      /\ check.quotas = AddQuotas(The(ConfigOf(h)).quota_spec, check.attributes, <<>>)
  BY DEF AskedInv, AskedOk
<1>4. PICK service \in ServiceConfigs : ConfigOf(h) = {service}
  BY <1>2, <1>3, ServiceOf
<1>5. The(ConfigOf(h)) = service
  BY <1>4, TheOne
<1>6. AreQuotaSpecs(service.quota_spec)
  BY HttpAssumption
<1> DEFINE specs == service.quota_spec
<1> HIDE DEF specs
<1>7. AreQuotaSpecs(specs) /\ check.quotas = AddQuotas(specs, check.attributes, <<>>)
  BY <1>3, <1>5, <1>6 DEF specs
<1>8. QuotasDue(specs, check)
  BY <1>7, DueQuotas
<1> QED BY <1>5, <1>8 DEF specs

\* What a connection asks for is due.
LEMMA TcpQuotas ==
  ASSUME TcpAnswers, NEW check \in tcp_log.check
  PROVE  QuotasDue(SetToSeq(tcp_config.connection_quota_spec), check)
<1> DEFINE specs == SetToSeq(tcp_config.connection_quota_spec)
<1>1. AreQuotaSpecs(specs)
  BY TcpAssumption DEF TcpAnswers, TcpProgress
<1>2. check.quotas = AddQuotas(specs, check.attributes, <<>>)
  BY DEF TcpAnswers, TcpAsked
<1> HIDE DEF specs
<1>3. QuotasDue(specs, check)
  BY <1>1, <1>2, DueQuotas
<1> QED BY <1>3 DEF specs

\* A check asks for the quotas that the rules of its service or connection demand
\* for the very attributes sent with it, each as often as it is demanded, for
\* every set of rules and every request.
THEOREM QuotasAreDue == Spec => []QuotasMatchSent
<1>1. HttpInit => AskedInv
  BY DEF HttpInit, NewHandler, AskedInv, AskedOk
<1>2. HttpInv /\ AskedInv /\ [Next]_vars => AskedInv'
  BY Steps, AskedNext
<1>3. Spec => []AskedInv
  BY <1>1, <1>2, Steps, HttpInvariant, PTL DEF Spec
<1>4. HttpInv /\ AskedInv /\ TcpAnswers => QuotasMatchSent
  BY HttpQuotas, TcpQuotas DEF QuotasMatchSent
<1> QED BY <1>3, <1>4, HttpInvariant, TcpAnswersInvariant, PTL

-----------------------------------------------------------------------------
(* The byte counts of a TCP connection *)

ByteCounts == [received_bytes : Nat, send_bytes : Nat]

TypeInv ==
  /\ info \in ByteCounts
  /\ last_report_info \in ByteCounts
  /\ reported \in [deltas : ByteCounts, totals : ByteCounts]
  /\ phase \in {"periodic", "final", "again"}

\* Until the final report last_report_info is where the deltas have got to.
UpToDate ==
  /\ reported.deltas = reported.totals
  /\ phase = "periodic" => last_report_info = reported.deltas
  /\ last_report_info.received_bytes <= info.received_bytes
  /\ last_report_info.send_bytes <= info.send_bytes

TcpInv == TypeInv /\ UpToDate

\* A report, periodic or final, keeps the sum of the deltas at the totals.
LEMMA ReportStep ==
  ASSUME TcpInv, NEW final \in BOOLEAN, NEW destination, TcpReport(final, destination)
  PROVE  TcpInv'
<1> USE DEF ByteCounts, TcpInv, TypeInv, UpToDate
<1>1. info' = info
  BY DEF TcpReport
<1>2. CASE tcp_config.disable_report_calls
  <2>1. last_report_info' = last_report_info /\ reported' = reported /\ phase' = phase
    BY <1>2 DEF TcpReport
  <2> QED BY <1>1, <2>1
<1>3. CASE ~tcp_config.disable_report_calls
  <2>1. /\ last_report_info' = IF final THEN last_report_info ELSE info
        /\ phase' = PhaseAfter(final)
        /\ reported' = IF phase' = "again" THEN reported ELSE
             [deltas |-> [received_bytes |-> reported.deltas.received_bytes
                            + (info.received_bytes - last_report_info.received_bytes),
                          send_bytes |-> reported.deltas.send_bytes
                            + (info.send_bytes - last_report_info.send_bytes)],
              totals |-> info]
    BY <1>3 DEF TcpReport, ReportedUpTo, Deltas
  <2>2. info = [received_bytes |-> info.received_bytes, send_bytes |-> info.send_bytes]
    OBVIOUS
  <2>3. phase' \in {"periodic", "final", "again"}
    BY <2>1 DEF PhaseAfter
  <2>4. CASE phase # "periodic"
    <3>1. phase' = "again" /\ reported' = reported
      BY <2>1, <2>4 DEF PhaseAfter
    <3> QED BY <1>1, <2>1, <3>1
  <2>5. CASE phase = "periodic"
    <3>1. phase' = IF final THEN "final" ELSE "periodic"
      BY <2>1, <2>5 DEF PhaseAfter
    <3>2. reported'.deltas = info /\ reported'.totals = info
      BY <1>1, <2>1, <2>2, <2>5, <3>1
    <3>3. reported' \in [deltas : ByteCounts, totals : ByteCounts]
      BY <2>1, <2>5, <3>1, <3>2
    <3>4. CASE final
      BY <1>1, <2>1, <2>3, <3>1, <3>2, <3>3, <3>4
    <3>5. CASE ~final
      BY <1>1, <2>1, <2>3, <3>1, <3>2, <3>3, <3>5
    <3> QED BY <3>4, <3>5
  <2> QED BY <2>4, <2>5
<1> QED BY <1>2, <1>3

\* Moving data only raises the counts of the connection.
LEMMA MoveStep ==
  ASSUME TcpInv, NEW received \in Nat, NEW sent \in Nat, Move(received, sent)
  PROVE  TcpInv'
BY DEF Move, TcpInv, TypeInv, UpToDate, ByteCounts

\* The inductive invariant: Init establishes it and every step keeps it.
THEOREM TcpInvariant == TcpSpec => []TcpInv
<1>1. TcpInit => TcpInv
  <2> SUFFICES ASSUME TcpInit PROVE TcpInv
    OBVIOUS
  <2>1. info = NoBytes /\ last_report_info = NoBytes /\ phase = "periodic"
    BY DEF TcpInit
  <2>2. reported = [deltas |-> NoBytes, totals |-> NoBytes]
    BY DEF TcpInit
  <2>3. NoBytes \in ByteCounts
    BY DEF NoBytes, ByteCounts
  <2>4. TypeInv
    BY <2>1, <2>2, <2>3 DEF TypeInv
  <2>5. UpToDate
    BY <2>1, <2>2, <2>3 DEF UpToDate, ByteCounts
  <2> QED BY <2>4, <2>5 DEF TcpInv
<1>2. TcpInv /\ [TcpNext]_tcp_vars => TcpInv'
  <2> SUFFICES ASSUME TcpInv, [TcpNext]_tcp_vars PROVE TcpInv'
    OBVIOUS
  <2>1. ASSUME UNCHANGED <<info, last_report_info, reported, phase>> PROVE TcpInv'
    BY <2>1 DEF TcpInv, TypeInv, UpToDate
  <2>2. CASE \E data \in TcpCheckData, answer \in {{}} \cup {{s} : s \in TcpStatuses} :
               TcpCheck(data, answer)
    BY <2>1, <2>2 DEF TcpCheck
  <2>3. CASE \E status \in TcpStatuses : TcpAnswer(status)
    BY <2>1, <2>3 DEF TcpAnswer
  <2>4. CASE \E final \in BOOLEAN, data \in TcpCheckData : TcpReport(final, data.source)
    BY <2>4, ReportStep
  <2>5. CASE \E received, sent \in 0 .. MaxBytes : Move(received, sent)
    BY <2>5, MoveStep, TcpAssumption
  <2>6. CASE UNCHANGED tcp_vars
    BY <2>1, <2>6 DEF tcp_vars
  <2> QED BY <2>2, <2>3, <2>4, <2>5, <2>6 DEF TcpNext
<1> QED BY <1>1, <1>2, PTL DEF TcpSpec

\* The deltas of a TCP connection's reports add up to the last totals, and none
\* is negative, for every configuration and any number of bytes.
THEOREM TcpDeltas == Spec => []DeltasAddUp
<1>1. TcpInv => DeltasAddUp
  BY DEF TcpInv, TypeInv, UpToDate, ByteCounts, DeltasAddUp, Deltas
<1>2. Spec => TcpSpec
  BY Steps, PTL DEF Spec, TcpSpec
<1> QED BY <1>1, <1>2, TcpInvariant, PTL
=============================================================================
