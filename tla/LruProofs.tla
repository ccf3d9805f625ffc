----------------------------- MODULE LruProofs -----------------------------
(* What the two operations that change a cache preserve. *)
EXTENDS Lru, SequenceTheorems, TLAPS

LruType(cache, keys, blobs) ==
  cache \in [blob : [keys -> blobs \cup {NoBlob}], order : Seq(keys)]

\* A key in front of a list.
LEMMA ConsProperties ==
  ASSUME NEW K, NEW u \in Seq(K), NEW k \in K
  PROVE  /\ <<k>> \o u \in Seq(K)
         /\ Len(<<k>> \o u) = Len(u) + 1
         /\ \A n \in 1 .. Len(u) + 1 : (<<k>> \o u)[n] = IF n = 1 THEN k ELSE u[n - 1]
<1> DEFINE one == <<k>>
<1>1. one \in Seq(K) /\ Len(one) = 1 /\ one[1] = k
  OBVIOUS
<1> HIDE DEF one
<1>2. /\ one \o u \in Seq(K) /\ Len(one \o u) = Len(one) + Len(u)
      /\ \A n \in 1 .. Len(one) + Len(u) :
           (one \o u)[n] = IF n <= Len(one) THEN one[n] ELSE u[n - Len(one)]
  BY <1>1, ConcatProperties
<1>3. Len(u) \in Nat
  BY LenProperties
<1>4. /\ one \o u \in Seq(K)
      /\ Len(one \o u) = Len(u) + 1
      /\ \A n \in 1 .. Len(u) + 1 : (one \o u)[n] = IF n = 1 THEN k ELSE u[n - 1]
  BY <1>1, <1>2, <1>3
<1> QED BY <1>4 DEF one

\* A key of the list moved to its front: the same keys, each still once.
LEMMA MovedToFrontKeys ==
  ASSUME NEW K, NEW s \in Seq(K), NEW k \in K,
         \E n \in 1 .. Len(s) : s[n] = k,
         \A m, n \in 1 .. Len(s) : s[m] = s[n] => m = n
  PROVE  LET t == MovedToFront(s, k)
         IN /\ t \in Seq(K)
            /\ Len(t) = Len(s)
            /\ \A c \in K : (\E n \in 1 .. Len(t) : t[n] = c) <=> (\E n \in 1 .. Len(s) : s[n] = c)
            /\ \A m, n \in 1 .. Len(t) : t[m] = t[n] => m = n
<1> DEFINE p == Position(s, k)
           f == SubSeq(s, 1, p - 1)
           g == SubSeq(s, p + 1, Len(s))
           t == <<k>> \o (f \o g)
<1>1. p \in 1 .. Len(s) /\ s[p] = k
  BY DEF Position
<1>2. MovedToFront(s, k) = t
  BY DEF MovedToFront, RemoveAt
<1>3. /\ f \in Seq(K) /\ Len(f) = p - 1
      /\ \A n \in 1 .. p - 1 : f[n] = s[n]
  <2>1. \A n \in 1 .. p - 1 : s[n] \in K
    BY <1>1, ElementOfSeq
  <2> QED BY <2>1, <1>1, SubSeqProperties
<1>4. /\ g \in Seq(K) /\ Len(g) = Len(s) - p
      /\ \A n \in 1 .. Len(s) - p : g[n] = s[n + p]
  <2>1. \A n \in p + 1 .. Len(s) : s[n] \in K
    BY <1>1, ElementOfSeq
  <2> QED BY <2>1, <1>1, SubSeqProperties
<1>5. /\ f \o g \in Seq(K) /\ Len(f \o g) = Len(s) - 1
      /\ \A n \in 1 .. Len(s) - 1 : (f \o g)[n] = IF n < p THEN s[n] ELSE s[n + 1]
  <2>1. /\ f \o g \in Seq(K) /\ Len(f \o g) = Len(f) + Len(g)
        /\ \A n \in 1 .. Len(f) + Len(g) :
             (f \o g)[n] = IF n <= Len(f) THEN f[n] ELSE g[n - Len(f)]
    <3> HIDE DEF f, g
    <3> QED BY <1>3, <1>4, ConcatProperties
  <2> HIDE DEF f, g, p
  <2> QED BY <2>1, <1>1, <1>3, <1>4
<1>6. /\ t \in Seq(K) /\ Len(t) = Len(s)
      /\ \A n \in 1 .. Len(s) : t[n] = IF n = 1 THEN k ELSE IF n <= p THEN s[n - 1] ELSE s[n]
  <2> DEFINE u == f \o g
  <2>1. u \in Seq(K) /\ Len(u) = Len(s) - 1
    BY <1>5
  <2>2. \A n \in 1 .. Len(s) - 1 : u[n] = IF n < p THEN s[n] ELSE s[n + 1]
    BY <1>5
  <2> HIDE DEF u, p
  <2>3. /\ <<k>> \o u \in Seq(K)
        /\ Len(<<k>> \o u) = Len(u) + 1
        /\ \A n \in 1 .. Len(u) + 1 : (<<k>> \o u)[n] = IF n = 1 THEN k ELSE u[n - 1]
    BY <2>1, ConsProperties
  <2>4. Len(s) \in Nat
    BY LenProperties
  <2>5. \A n \in 1 .. Len(s) : (<<k>> \o u)[n] = IF n = 1 THEN k ELSE IF n <= p THEN s[n - 1] ELSE s[n]
    BY <2>1, <2>2, <2>3, <2>4, <1>1
  <2>6. <<k>> \o u \in Seq(K) /\ Len(<<k>> \o u) = Len(s)
    BY <2>1, <2>3, <2>4
  <2> QED BY <2>5, <2>6 DEF u
<1> HIDE DEF t, f, g, p
<1>7. \A c \in K : (\E n \in 1 .. Len(t) : t[n] = c) <=> (\E n \in 1 .. Len(s) : s[n] = c)
  <2> SUFFICES ASSUME NEW c \in K
               PROVE  (\E n \in 1 .. Len(t) : t[n] = c) <=> (\E n \in 1 .. Len(s) : s[n] = c)
    OBVIOUS
  <2>1. ASSUME NEW n \in 1 .. Len(t), t[n] = c PROVE \E m \in 1 .. Len(s) : s[m] = c
    BY <2>1, <1>1, <1>6
  <2>2. ASSUME NEW n \in 1 .. Len(s), s[n] = c PROVE \E m \in 1 .. Len(t) : t[m] = c
    <3>1. CASE n = p
      <4>1. 1 \in 1 .. Len(t) /\ t[1] = c
        BY <3>1, <2>2, <1>1, <1>6
      <4> QED BY <4>1
    <3>2. CASE n < p
      <4>1. n + 1 \in 1 .. Len(t) /\ t[n + 1] = c
        BY <3>2, <2>2, <1>1, <1>6
      <4> QED BY <4>1
    <3>3. CASE n > p
      <4>1. n \in 1 .. Len(t) /\ t[n] = c
        BY <3>3, <2>2, <1>1, <1>6
      <4> QED BY <4>1
    <3> QED BY <3>1, <3>2, <3>3, <1>1
  <2> QED BY <2>1, <2>2
<1>8. \A m, n \in 1 .. Len(t) : t[m] = t[n] => m = n
  <2> DEFINE from(n) == IF n = 1 THEN p ELSE IF n <= p THEN n - 1 ELSE n
  <2> HIDE DEF p, f, g, t
  <2>1. \A n \in 1 .. Len(t) : from(n) \in 1 .. Len(s) /\ t[n] = s[from(n)]
    BY <1>1, <1>6
  <2>2. \A m, n \in 1 .. Len(t) : from(m) = from(n) => m = n
    BY <1>1, <1>6
  <2> HIDE DEF from
  <2> QED BY <2>1, <2>2
<1> QED BY <1>2, <1>6, <1>7, <1>8

\* get leaves the map alone and the cache in order.
LEMMA TouchedOK ==
  ASSUME NEW Keys, NEW Blobs, NEW cache, NEW k \in Keys,
         LruType(cache, Keys, Blobs), Bounded(cache, Keys), contains(cache, k)
  PROVE  /\ LruType(Touched(cache, k), Keys, Blobs)
         /\ Bounded(Touched(cache, k), Keys)
         /\ Touched(cache, k).blob = cache.blob
<1> DEFINE t == MovedToFront(cache.order, k)
<1>1. /\ t \in Seq(Keys)
      /\ Len(t) = Len(cache.order)
      /\ \A c \in Keys : (\E n \in 1 .. Len(t) : t[n] = c)
                            <=> (\E n \in 1 .. Len(cache.order) : cache.order[n] = c)
      /\ \A m, n \in 1 .. Len(t) : t[m] = t[n] => m = n
  BY MovedToFrontKeys DEF LruType, Bounded
<1>2. Touched(cache, k) = [blob |-> cache.blob, order |-> t]
  BY DEF Touched, LruType
<1> HIDE DEF t
<1>3. Touched(cache, k).blob = cache.blob /\ Touched(cache, k).order = t
  BY <1>2
<1>4. LruType(Touched(cache, k), Keys, Blobs)
  BY <1>1, <1>2 DEF LruType
<1>5. Bounded(Touched(cache, k), Keys)
  BY <1>1, <1>3 DEF Bounded, contains
<1> QED BY <1>3, <1>4, <1>5

\* put stores the blob, may drop one other key and keeps the cache in order.
LEMMA PutOK ==
  ASSUME NEW Keys, NEW Blobs, NEW cache, NEW k \in Keys, NEW b \in Blobs,
         NoBlob \notin Blobs,
         LruType(cache, Keys, Blobs), Bounded(cache, Keys)
  PROVE  LET after == Put(cache, k, b)
         IN /\ LruType(after, Keys, Blobs)
            /\ Bounded(after, Keys)
            /\ after.blob[k] = b
            /\ \A c \in Keys \ {k} : after.blob[c] \in {cache.blob[c], NoBlob}
<1> DEFINE s == cache.order
           after == Put(cache, k, b)
           Goal == /\ LruType(after, Keys, Blobs)
                   /\ Bounded(after, Keys)
                   /\ after.blob[k] = b
                   /\ \A c \in Keys \ {k} : after.blob[c] \in {cache.blob[c], NoBlob}
<1>0. s \in Seq(Keys) /\ cache.blob \in [Keys -> Blobs \cup {NoBlob}] /\ Len(s) \in Nat
  BY LenProperties DEF LruType
<1>b. /\ Len(s) <= CacheSize
      /\ \A c \in Keys : contains(cache, c) <=> \E n \in 1 .. Len(s) : s[n] = c
      /\ \A i, j \in 1 .. Len(s) : s[i] = s[j] => i = j
  BY DEF Bounded
<1>c. after = IF contains(cache, k)
                THEN [blob |-> [cache.blob EXCEPT ![k] = b], order |-> MovedToFront(s, k)]
                ELSE IF Len(s) < CacheSize
                  THEN [blob |-> [cache.blob EXCEPT ![k] = b], order |-> <<k>> \o s]
                  ELSE [blob |-> [cache.blob EXCEPT ![s[Len(s)]] = NoBlob, ![k] = b],
                        order |-> <<k>> \o SubSeq(s, 1, Len(s) - 1)]
  BY DEF Put, Front, Last
<1> HIDE DEF s, after
<1>1. ASSUME contains(cache, k) PROVE Goal
  <2> DEFINE t == MovedToFront(s, k)
             m == [cache.blob EXCEPT ![k] = b]
  <2>1. /\ t \in Seq(Keys)
        /\ Len(t) = Len(s)
        /\ \A c \in Keys : (\E n \in 1 .. Len(t) : t[n] = c) <=> (\E n \in 1 .. Len(s) : s[n] = c)
        /\ \A i, j \in 1 .. Len(t) : t[i] = t[j] => i = j
    BY <1>0, <1>1, <1>b, MovedToFrontKeys
  <2>2. after = [blob |-> m, order |-> t]
    BY <1>1, <1>c
  <2>3. /\ m \in [Keys -> Blobs \cup {NoBlob}] /\ m[k] = b /\ b # NoBlob
        /\ \A c \in Keys \ {k} : m[c] = cache.blob[c]
    BY <1>0
  <2> HIDE DEF t, m
  <2>4. Bounded(after, Keys)
    <3>1. Len(after.order) <= CacheSize
      BY <1>b, <2>1, <2>2
    <3>2. ASSUME NEW c \in Keys
          PROVE  contains(after, c) <=> \E n \in 1 .. Len(after.order) : after.order[n] = c
      <4>1. (\E n \in 1 .. Len(t) : t[n] = c) <=> contains(cache, c)
        BY <1>b, <2>1
      <4> QED BY <4>1, <1>1, <2>2, <2>3 DEF contains
    <3> QED BY <3>1, <3>2, <2>1, <2>2 DEF Bounded
  <2> QED BY <2>1, <2>2, <2>3, <2>4 DEF LruType
<1>2. ASSUME ~ contains(cache, k) /\ Len(s) < CacheSize PROVE Goal
  <2> DEFINE t == <<k>> \o s
             m == [cache.blob EXCEPT ![k] = b]
  <2>1. /\ t \in Seq(Keys)
        /\ Len(t) = Len(s) + 1
        /\ \A n \in 1 .. Len(s) + 1 : t[n] = IF n = 1 THEN k ELSE s[n - 1]
    BY <1>0, ConsProperties
  <2>2. after = [blob |-> m, order |-> t]
    BY <1>2, <1>c
  <2>3. /\ m \in [Keys -> Blobs \cup {NoBlob}] /\ m[k] = b /\ b # NoBlob
        /\ \A c \in Keys \ {k} : m[c] = cache.blob[c]
    BY <1>0
  <2> HIDE DEF t, m
  <2>4. \A n \in 1 .. Len(s) : s[n] # k
    BY <1>0, <1>2, <1>b
  <2>5. \A c \in Keys \ {k} : (\E n \in 1 .. Len(t) : t[n] = c) <=> (\E n \in 1 .. Len(s) : s[n] = c)
    <3>1. ASSUME NEW c \in Keys \ {k}, NEW n \in 1 .. Len(s), s[n] = c
          PROVE  \E j \in 1 .. Len(t) : t[j] = c
      <4>1. n + 1 \in 1 .. Len(t) /\ t[n + 1] = c
        BY <3>1, <2>1, <1>0
      <4> QED BY <4>1
    <3>2. ASSUME NEW c \in Keys \ {k}, NEW n \in 1 .. Len(t), t[n] = c
          PROVE  \E j \in 1 .. Len(s) : s[j] = c
      <4>1. n - 1 \in 1 .. Len(s) /\ s[n - 1] = c
        BY <3>2, <2>1, <1>0
      <4> QED BY <4>1
    <3> QED BY <3>1, <3>2
  <2>6. \E n \in 1 .. Len(t) : t[n] = k
    BY <2>1, <1>0
  <2>7. \A i, j \in 1 .. Len(t) : t[i] = t[j] => i = j
    <3>1. \A i \in 1 .. Len(t) : (i = 1 /\ t[i] = k) \/ (i - 1 \in 1 .. Len(s) /\ t[i] = s[i - 1])
      <4> SUFFICES ASSUME NEW i \in 1 .. Len(t)
                   PROVE  (i = 1 /\ t[i] = k) \/ (i - 1 \in 1 .. Len(s) /\ t[i] = s[i - 1])
        OBVIOUS
      <4>0. i \in 1 .. Len(s) + 1 /\ t[i] = IF i = 1 THEN k ELSE s[i - 1]
        BY <2>1
      <4>1. CASE i = 1
        BY <4>0, <4>1
      <4>2. CASE i # 1
        BY <1>0, <4>0, <4>2
      <4> QED BY <4>1, <4>2
    <3> SUFFICES ASSUME NEW i \in 1 .. Len(t), NEW j \in 1 .. Len(t), t[i] = t[j]
                 PROVE  i = j
      OBVIOUS
    <3>2. CASE t[i] = k
      BY <2>4, <3>1, <3>2
    <3>3. CASE t[i] # k
      <4>1. i - 1 \in 1 .. Len(s) /\ j - 1 \in 1 .. Len(s) /\ s[i - 1] = s[j - 1]
        BY <3>1, <3>3
      <4>2. i - 1 = j - 1
        BY <1>b, <4>1
      <4> QED BY <4>2
    <3> QED BY <3>2, <3>3
  <2>8. Len(t) <= CacheSize
    BY <1>0, <1>2, <2>1, CacheAssumption
  <2>9. Bounded(after, Keys)
    <3>1. ASSUME NEW c \in Keys
          PROVE  contains(after, c) <=> \E n \in 1 .. Len(after.order) : after.order[n] = c
      BY <1>b, <2>2, <2>3, <2>5, <2>6 DEF contains
    <3> QED BY <3>1, <2>2, <2>7, <2>8 DEF Bounded
  <2> QED BY <2>1, <2>2, <2>3, <2>9 DEF LruType
<1>3. ASSUME ~ contains(cache, k) /\ ~ (Len(s) < CacheSize) PROVE Goal
  <2> DEFINE q == Len(s)
             old == s[q]
             f == SubSeq(s, 1, q - 1)
             t == <<k>> \o f
             m == [cache.blob EXCEPT ![old] = NoBlob, ![k] = b]
  <2>1. q \in Nat \ {0} /\ q = CacheSize /\ old \in Keys
    BY <1>0, <1>3, <1>b, CacheAssumption, ElementOfSeq
  <2>2. f \in Seq(Keys) /\ Len(f) = q - 1 /\ \A n \in 1 .. q - 1 : f[n] = s[n]
    <3>1. \A n \in 1 .. q - 1 : s[n] \in Keys
      BY <1>0, <2>1, ElementOfSeq
    <3> QED BY <3>1, <2>1, SubSeqProperties
  <2>3. after = [blob |-> m, order |-> t]
    BY <1>3, <1>c
  <2>4. \A n \in 1 .. q : s[n] # k
    BY <1>0, <1>3, <1>b
  <2>5. /\ m \in [Keys -> Blobs \cup {NoBlob}] /\ m[k] = b /\ b # NoBlob
        /\ old # k /\ m[old] = NoBlob
        /\ \A c \in Keys \ {k, old} : m[c] = cache.blob[c]
    BY <1>0, <2>1, <2>4
  <2> HIDE DEF f, m
  <2>6. /\ t \in Seq(Keys)
        /\ Len(t) = q
        /\ \A n \in 1 .. q : t[n] = IF n = 1 THEN k ELSE s[n - 1]
    <3>1. /\ t \in Seq(Keys)
          /\ Len(t) = Len(f) + 1
          /\ \A n \in 1 .. Len(f) + 1 : t[n] = IF n = 1 THEN k ELSE f[n - 1]
      BY <2>2, ConsProperties
    <3> HIDE DEF t
    <3> QED BY <3>1, <2>1, <2>2
  <2> HIDE DEF t
  <2>7. \A c \in Keys \ {k, old} : (\E n \in 1 .. Len(t) : t[n] = c) <=> (\E n \in 1 .. Len(s) : s[n] = c)
    <3>1. ASSUME NEW c \in Keys \ {k, old}, NEW n \in 1 .. Len(s), s[n] = c
          PROVE  \E j \in 1 .. Len(t) : t[j] = c
      <4>1. n + 1 \in 1 .. Len(t) /\ t[n + 1] = c
        BY <3>1, <2>1, <2>6
      <4> QED BY <4>1
    <3>2. ASSUME NEW c \in Keys \ {k, old}, NEW n \in 1 .. Len(t), t[n] = c
          PROVE  \E j \in 1 .. Len(s) : s[j] = c
      <4>1. n - 1 \in 1 .. Len(s) /\ s[n - 1] = c
        BY <3>2, <2>1, <2>6
      <4> QED BY <4>1
    <3> QED BY <3>1, <3>2
  <2>8. \E n \in 1 .. Len(t) : t[n] = k
    BY <2>1, <2>6
  <2>9. \A n \in 1 .. Len(t) : t[n] # old
    BY <1>0, <1>b, <2>1, <2>5, <2>6
  <2>10. \A i, j \in 1 .. Len(t) : t[i] = t[j] => i = j
    BY <1>0, <1>b, <2>1, <2>4, <2>6
  <2> HIDE DEF old
  <2>11. Bounded(after, Keys)
    <3>1. Len(after.order) <= CacheSize
      BY <2>1, <2>3, <2>6
    <3>2. ASSUME NEW c \in Keys
          PROVE  contains(after, c) <=> \E n \in 1 .. Len(after.order) : after.order[n] = c
      BY <1>b, <2>3, <2>5, <2>7, <2>8, <2>9 DEF contains
    <3> QED BY <3>1, <3>2, <2>3, <2>10 DEF Bounded
  <2> QED BY <2>3, <2>5, <2>6, <2>11 DEF LruType
<1>4. Goal
  BY <1>1, <1>2, <1>3
<1> QED BY <1>4 DEF after
=============================================================================
