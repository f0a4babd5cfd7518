-------------------------------- MODULE Khash --------------------------------
(***************************************************************************)
(* The hash table of nadam/c/khash.h behind nadam's two maps: open         *)
(* addressing with triangular probing, deleted buckets that are reused,    *)
(* and a rehash that works in the arrays it rehashes.                      *)
(*                                                                         *)
(* flags, keys and vals are one array here: a bucket is empty, deleted or  *)
(* an entry <<key, value>>.  Resizing takes it apart again, because the    *)
(* old and the new table share the arrays of keys and values.              *)
(*                                                                         *)
(* A failing malloc or growing realloc leaves the table as it is.  The     *)
(* reallocs that shrink keys and vals are not checked: should one return   *)
(* NULL, it is stored and the next use is undefined, which is not          *)
(* modelled; shrinking succeeds here.                                      *)
(***************************************************************************)
EXTENDS Naturals, FiniteSets, FiniteSetsExt

CONSTANTS
    Keys, Values,
    Hash,             \* __hash_func
    Empty, Deleted,   \* flags of a bucket without an entry
    Nothing,          \* no entry is being moved
    Absent,           \* kh_get returned kh_end
    Requests,         \* arguments of kh_resize
    MaxBuckets        \* bound: malloc fails for more buckets

ASSUME TableAssumption ==
    /\ Hash \in [Keys -> Nat] /\ Requests \subseteq Nat /\ MaxBuckets \in Nat
    /\ {Empty, Deleted, Nothing} \cap (Keys \X Values) = {} /\ Empty # Deleted /\ Absent \notin Values

VARIABLES
    bucket,       \* flags, keys, vals; the domain is 0..n_buckets - 1
    size,         \* size
    n_occupied,   \* n_occupied
    answer        \* ret of the last kh_put, or the value found by the last kh_get

vars == <<bucket, size, n_occupied, answer>>

\* kh_init; nothing is allocated before the first put.
Init == bucket = <<>> /\ size = 0 /\ n_occupied = 0 /\ answer = Absent

Buckets(b) == Cardinality(DOMAIN b)

Used(b) == {i \in DOMAIN b : b[i] \notin {Empty, Deleted}}

\* Mutant: the last bucket may be filled too.
UpperBoundAll(n) == n

\* (khint_t)(n * __ac_HASH_UPPER + 0.5)
UpperBound(n) == (77 * n + 50) \div 100

\* All divisors but 1 are even.
PowerOfTwo(p) == \A d, e \in 1..p : d * e = p => d = 1 \/ d % 2 = 0

\* kroundup32, and at least 4.
RoundUp(n) == CHOOSE p \in 4..2 * n + 4 : PowerOfTwo(p) /\ n <= p /\ (p = 4 \/ p < 2 * n)

\* Bucket i after k steps of a probe: ++step is added each time.
Probe(key, k, n) == (Hash[key] + (k * (k + 1)) \div 2) % n

-----------------------------------------------------------------------------
(* kh_resize                                                                *)

\* Mutant: an entry that is in the way is overwritten.
KickedOverwrites(t, old, i) == Nothing

\* The entry that must make room: one of the old table that has not been moved.
Kicked(t, old, i) == IF i \in old THEN t.mem[i] ELSE Nothing

\* One turn of the kick-out loop.  old: used buckets still to be moved; new: buckets
\* taken in the new table; carried: the entry kicked out in the turn before, if any.
Turn(t, n) ==
    LET first == Min(t.old)
        entry == IF t.carried # Nothing THEN t.carried ELSE t.mem[first]
        old   == IF t.carried # Nothing THEN t.old ELSE t.old \ {first}
        i     == Probe(entry[1], Min({k \in 0..n - 1 : Probe(entry[1], k, n) \notin t.new}), n)
    IN  [mem |-> [t.mem EXCEPT ![i] = entry], new |-> t.new \cup {i},
         old |-> old \ {i}, carried |-> Kicked(t, old, i)]

\* Before the first turn: room for both tables.
Unmoved(n) ==
    [mem |-> [i \in (0..n - 1) \cup DOMAIN bucket |-> IF i \in DOMAIN bucket THEN bucket[i] ELSE Empty],
     old |-> Used(bucket), new |-> {}, carried |-> Nothing]

Moved(t, n) == IF t.old = {} /\ t.carried = Nothing THEN t ELSE Turn(t, n)

\* One turn for each entry.
Turns(n) ==
    LET turns[k \in 0..size] == IF k = 0 THEN Unmoved(n) ELSE Moved(turns[k - 1], n)
    IN  turns

Rehashed(n) ==
    LET moved == Turns(n)[size]
    IN  [i \in 0..n - 1 |-> IF i \in moved.new THEN moved.mem[i] ELSE Empty]

\* The table after kh_resize(h, request); a size too small for the entries is ignored.
Resized(request) ==
    LET n == RoundUp(request)
    IN  IF size >= UpperBound(n) THEN [bucket |-> bucket, n_occupied |-> n_occupied]
                                 ELSE [bucket |-> Rehashed(n), n_occupied |-> size]

Resize(request) ==
    /\ RoundUp(request) <= MaxBuckets
    /\ bucket' = Resized(request).bucket
    /\ n_occupied' = Resized(request).n_occupied
    /\ UNCHANGED <<size, answer>>

-----------------------------------------------------------------------------
(* kh_put, kh_get, kh_del, kh_clear                                         *)

Holds(b, i, key) == b[i] \notin {Empty, Deleted} /\ b[i][1] = key

\* Steps of the probe for key: to its bucket, to an empty one, or all the way round.
Steps(b, key) ==
    LET n == Buckets(b)
    IN  Min({k \in 0..2 * n - 1 : \/ b[Probe(key, k, n)] = Empty
                                  \/ Holds(b, Probe(key, k, n), key)
                                  \/ k = 2 * n - 1})

\* x of kh_put: where key is, or the last deleted bucket on the way, or an empty one.
Site(b, key) ==
    LET At(k)   == Probe(key, k, Buckets(b))
        deleted == {k \in 0..Steps(b, key) : b[At(k)] = Deleted}
    IN  IF deleted # {} /\ ~Holds(b, At(Steps(b, key)), key) THEN At(Max(deleted))
                                                            ELSE At(Steps(b, key))

\* The size kh_put asks for: the same again where enough buckets are deleted, or the double.
Wanted == IF Buckets(bucket) > 2 * size THEN Buckets(bucket) - 1 ELSE Buckets(bucket) + 1

Full == n_occupied >= UpperBound(Buckets(bucket))

\* kh_put, and the caller's assignment to kh_val.
Put(key, v) ==
    LET t == IF Full THEN Resized(Wanted) ELSE [bucket |-> bucket, n_occupied |-> n_occupied]
        x == Site(t.bucket, key)
        present == x \in Used(t.bucket)
    IN  /\ Full => RoundUp(Wanted) <= MaxBuckets
        /\ bucket' = [t.bucket EXCEPT ![x] = <<IF present THEN @[1] ELSE key, v>>]
        /\ size' = IF present THEN size ELSE size + 1
        /\ n_occupied' = IF t.bucket[x] = Empty THEN t.n_occupied + 1 ELSE t.n_occupied
        /\ answer' = IF present THEN "present" ELSE "new"

\* malloc or realloc fails: ret is -1.
PutFails ==
    /\ Full
    /\ answer' = "failed"
    /\ UNCHANGED <<bucket, size, n_occupied>>

Found(key) ==
    IF bucket = <<>> THEN {} ELSE
    {i \in {Probe(key, Steps(bucket, key), Buckets(bucket))} : Holds(bucket, i, key)}

Get(key) ==
    /\ answer' = IF Found(key) = {} THEN Absent ELSE bucket[CHOOSE i \in Found(key) : TRUE][2]
    /\ UNCHANGED <<bucket, size, n_occupied>>

\* kh_del of what kh_get found.
Del(key) ==
    /\ Found(key) # {}
    /\ bucket' = [i \in DOMAIN bucket |-> IF i \in Found(key) THEN Deleted ELSE bucket[i]]
    /\ size' = size - 1
    /\ UNCHANGED <<n_occupied, answer>>

Clear ==
    /\ bucket # <<>>
    /\ bucket' = [i \in DOMAIN bucket |-> Empty]
    /\ size' = 0 /\ n_occupied' = 0
    /\ UNCHANGED answer

Next ==
    \/ PutFails \/ Clear
    \/ \E key \in Keys : Get(key) \/ Del(key) \/ \E v \in Values : Put(key, v)
    \/ \E request \in Requests : Resize(request)

Spec == Init /\ [][Next]_vars
-----------------------------------------------------------------------------
(* Properties.                                                              *)

\* The counters agree with the flags, also after deletions, reuse and rehashing, and an
\* empty bucket is always left: it is what ends the probes of kh_resize, which look for
\* nothing else.
CountsAgree ==
    LET empty == {i \in DOMAIN bucket : bucket[i] = Empty} IN
    /\ bucket \in [0..Buckets(bucket) - 1 -> {Empty, Deleted} \cup Keys \X Values]
    /\ size = Cardinality(Used(bucket))
    /\ n_occupied = Buckets(bucket) - Cardinality(empty)
    /\ bucket # <<>> => empty # {}

Contents(b) ==
    [k \in {b[i][1] : i \in Used(b)} |-> b[CHOOSE i \in Used(b) : b[i][1] = k][2]]

\* The table is a map: a lookup finds what was put last, wherever collisions, deleted
\* buckets, and entries kicked out by a rehash have put it.
Map == INSTANCE KeyMap WITH map <- Contents(bucket)
ImplementsMap == Map!Spec
=============================================================================
