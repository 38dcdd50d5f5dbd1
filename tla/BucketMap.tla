------------------------------ MODULE BucketMap ------------------------------
(***************************************************************************)
(* The keys of a BPF hash map as the system calls and the programs see     *)
(* them.  The kernel visits buckets in order and each bucket from the      *)
(* newest element to the oldest.  bpf_map_update_elem links a new element  *)
(* even when the key is present, so a replaced key moves to the head of    *)
(* its bucket; a store through a looked up pointer moves nothing.          *)
(***************************************************************************)
EXTENDS Integers, FiniteSets, Sequences

CONSTANTS
  Keys,
  Hash,       \* the bucket of each key
  NoKey       \* a nil cursor going in, ErrKeyNotExist coming out

ASSUME BucketAssumption ==
  /\ IsFiniteSet(Keys) /\ NoKey \notin Keys
  /\ Hash \in [Keys -> Nat]

VARIABLE map  \* the keys in the order in which the kernel visits them

Present == {map[i] : i \in DOMAIN map}

Place(k) == CHOOSE i \in DOMAIN map : map[i] = k

Without(k) ==
  IF k \in Present
  THEN SubSeq(map, 1, Place(k) - 1) \o SubSeq(map, Place(k) + 1, Len(map))
  ELSE map

(* Where the bucket of k begins, or would begin, in a sequence of keys. *)
BucketStart(keys, k) ==
  CHOOSE i \in 1..(Len(keys) + 1) :
    /\ \A j \in 1..(i - 1) : Hash[keys[j]] < Hash[k]
    /\ i <= Len(keys) => Hash[keys[i]] >= Hash[k]

(* bpf_map_update_elem *)
Linked(k) ==
  LET others == Without(k)
      start == BucketStart(others, k)
  IN  SubSeq(others, 1, start - 1) \o <<k>>
        \o SubSeq(others, start, Len(others))

(* BPF_MAP_GET_NEXT_KEY: from the start if there is no such key. *)
NextKey(k) ==
  IF k \in Present
  THEN IF Place(k) = Len(map) THEN NoKey ELSE map[Place(k) + 1]
  ELSE IF map = <<>> THEN NoKey ELSE Head(map)

(* The orders in which the kernel may have linked some of the keys. *)
Orders ==
  {m \in UNION {[1..n -> Keys] : n \in 0..Cardinality(Keys)} :
     \A i, j \in DOMAIN m :
       i < j => m[i] # m[j] /\ Hash[m[i]] <= Hash[m[j]]}
==============================================================================
