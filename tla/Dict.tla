-------------------------------- MODULE Dict --------------------------------
(* Dictionaries of the C runtime: a fixed number of buckets, each a list of
   entries, newest first.  The bucket of a string key comes from all its bytes
   (xt_hash_value goes by length), equality of keys from strcmp, which stops at
   a NUL; so a key with a NUL inside equals another in a bucket it may not be in.
   Absence and a NULL value look alike to every reader. *)
EXTENDS Integers, Sequences, FiniteSets, SequencesExt

CONSTANTS
  KeySet,       \* values used as keys
  BucketOf,   \* per key: hash % capacity
  SeenAs,     \* per key: what xt_compare sees of it
  WithNul,    \* the strings with a NUL inside
  Vals, NoVal \* values, and XT_NULL

ASSUME DictAssumption ==
  /\ BucketOf \in [KeySet -> Nat] /\ DOMAIN SeenAs = KeySet /\ WithNul \subseteq KeySet /\ NoVal \in Vals
  /\ \A k, l \in KeySet \ WithNul : SeenAs[k] = SeenAs[l] => k = l
  /\ IsFiniteSet({BucketOf[k] : k \in KeySet})

Buckets == {BucketOf[k] : k \in KeySet}

VARIABLES
  buckets,   \* per bucket: its entries
  dictSize,  \* size
  meant,     \* the map the program means: per key it has set, the value
  nulUsed    \* a key with a NUL inside was set or removed

dictVars == <<buckets, dictSize, meant, nulUsed>>

DictInit == buckets = [b \in Buckets |-> <<>>] /\ dictSize = 0 /\ meant = <<>> /\ nulUsed = FALSE

Eq(k, l) == SeenAs[k] = SeenAs[l]
Found(k) == {i \in DOMAIN buckets[BucketOf[k]] : Eq(buckets[BucketOf[k]][i].key, k)}
First(k) == CHOOSE i \in Found(k) : \A j \in Found(k) : i <= j

DictGet(k) == IF Found(k) = {} THEN NoVal ELSE buckets[BucketOf[k]][First(k)].value
DictContains(k) == DictGet(k) # NoVal

BadStored(k, v) == [buckets EXCEPT ![BucketOf[k]] = <<[key |-> k, value |-> v]>> \o @]
Stored(k, v) ==
  IF Found(k) # {} THEN [buckets EXCEPT ![BucketOf[k]][First(k)].value = v]
  ELSE [buckets EXCEPT ![BucketOf[k]] = <<[key |-> k, value |-> v]>> \o @]
DictStore(k, v) ==   \* xt_dict_set
  /\ buckets' = Stored(k, v) /\ dictSize' = IF Found(k) = {} THEN dictSize + 1 ELSE dictSize
  /\ meant' = [l \in DOMAIN meant \cup {k} |-> IF l = k THEN v ELSE meant[l]]
  /\ nulUsed' = (nulUsed \/ k \in WithNul)

DictDelete(k) ==     \* xt_dict_remove
  /\ IF Found(k) = {} THEN UNCHANGED <<buckets, dictSize>>
     ELSE buckets' = [buckets EXCEPT ![BucketOf[k]] = RemoveAt(@, First(k))] /\ dictSize' = dictSize - 1
  /\ meant' = [l \in DOMAIN meant \ {k} |-> meant[l]] /\ nulUsed' = (nulUsed \/ k \in WithNul)

(* xt_dict_keys and xt_dict_values list the buckets in order.                *)
DictEntries == FlattenSeq(SetToSeq({buckets[b] : b \in Buckets}))
Listed(field) == [i \in DOMAIN DictEntries |-> DictEntries[i][field]]

DictNext == \E k \in KeySet : DictDelete(k) \/ \E v \in Vals : DictStore(k, v)
DictSpec == DictInit /\ [][DictNext]_dictVars

(* The dictionary is the map the program means: it finds what was set last and
   nothing that was removed, lists every key once, and contains what has a value
   that is not NULL; unless a key with a NUL inside was used.                *)
DictIsMap == ~nulUsed =>
  /\ \A k \in KeySet \ WithNul : DictGet(k) = IF k \in DOMAIN meant THEN meant[k] ELSE NoVal
  /\ \A k \in KeySet \ WithNul : DictContains(k) <=> k \in DOMAIN meant /\ meant[k] # NoVal
  /\ dictSize = Cardinality(DOMAIN meant) /\ IsInjective(Listed("key")) /\ ToSet(Listed("key")) = DOMAIN meant
  /\ Len(Listed("value")) = dictSize
=============================================================================
