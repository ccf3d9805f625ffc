-------------------------------- MODULE Lru --------------------------------
(***************************************************************************)
(* The lru crate's LruCache as virtual_file.rs uses it: every operation    *)
(* runs under the cache's mutex, so each is one step.  A cache is the      *)
(* function from chunks to blobs and the order of its keys, the most       *)
(* recently used first.                                                    *)
(***************************************************************************)
EXTENDS SequencesExt, Integers

CONSTANTS
  CacheSize,  \* capacity
  NoBlob      \* what a chunk that is not cached maps to

ASSUME CacheAssumption == CacheSize \in Nat \ {0}

EmptyCache(keys) == [blob |-> [k \in keys |-> NoBlob], order |-> <<>>]

contains(cache, k) == cache.blob[k] # NoBlob

Position(order, k) == CHOOSE i \in 1 .. Len(order) : order[i] = k

MovedToFront(order, k) == <<k>> \o RemoveAt(order, Position(order, k))

\* get promotes the key it finds; contains does not.
Touched(cache, k) ==
  [blob |-> cache.blob, order |-> MovedToFront(cache.order, k)]

\* Mutant: nothing is ever evicted.
UnboundedPut(cache, k, b) ==
  [blob |-> [cache.blob EXCEPT ![k] = b],
   order |-> IF contains(cache, k) THEN MovedToFront(cache.order, k)
             ELSE <<k>> \o cache.order]

\* put replaces and promotes a key that is there; otherwise it evicts the
\* least recently used key first when the cache is full.
Put(cache, k, b) ==
  IF contains(cache, k)
    THEN [blob |-> [cache.blob EXCEPT ![k] = b],
          order |-> MovedToFront(cache.order, k)]
    ELSE IF Len(cache.order) < CacheSize
      THEN [blob |-> [cache.blob EXCEPT ![k] = b],
            order |-> <<k>> \o cache.order]
      ELSE [blob |-> [cache.blob EXCEPT ![Last(cache.order)] = NoBlob, ![k] = b],
            order |-> <<k>> \o Front(cache.order)]

\* The recency list and the map hold the same keys, each once, never more
\* than the capacity.
Bounded(cache, keys) ==
  /\ Len(cache.order) <= CacheSize
  /\ \A k \in keys : contains(cache, k) <=> \E n \in 1 .. Len(cache.order) : cache.order[n] = k
  /\ \A m, n \in 1 .. Len(cache.order) : cache.order[m] = cache.order[n] => m = n
=============================================================================
