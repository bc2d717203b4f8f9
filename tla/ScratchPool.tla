----------------------------- MODULE ScratchPool -----------------------------
(***************************************************************************)
(* The process-global pool of transient F128 buffers                       *)
(* (flock-core/src/scratch.rs).  Provers on any thread take buffers,       *)
(* give them back, prewarm the pool for a problem size, or clear it; every *)
(* pool access is one critical section of the POOL mutex, so each is one   *)
(* step here, and prewarm_prover is the only operation of several steps.   *)
(*                                                                         *)
(* A buffer is an identity (its allocation) with a capacity and a length;  *)
(* what it stores is left out, since the pool never looks at it.           *)
(***************************************************************************)
EXTENDS Naturals, Sequences, FiniteSets, SequencesExt

CONSTANTS
    Threads,      \* threads that call the pool
    MAX_HELD,     \* bound: most buffers a thread owns outside prewarm_prover
    Small, Large, \* the two size classes of one prove cycle
    NSmall, NLarge, \* how many of each prewarm_prover takes
    MAX_POOLED    \* most buffers the pool retains (24 in the code)

ASSUME SizesAssumption == Small \in Nat \ {0} /\ Large \in Nat /\ Small < Large
ASSUME WarmSetAssumption ==
    /\ NSmall \in Nat /\ NLarge \in Nat /\ MAX_POOLED \in Nat
    /\ NSmall + NLarge <= MAX_POOLED
ASSUME BoundAssumption == IsFiniteSet(Threads) /\ MAX_HELD \in Nat

(* Enough identities that the allocator never runs out: one for each buffer *)
(* the pool, the threads and the prewarms can own at once.                  *)
Buffers ==
    1..(MAX_POOLED + 1 + Cardinality(Threads) * (MAX_HELD + NSmall + NLarge))

VARIABLES
    cap,    \* cap[b]: capacity of the allocation b, 0 when b is not allocated
    len,    \* len[b]: length of the Vec over b, which it keeps in the pool
    pool,   \* POOL: the pooled buffers in Vec order
    held,   \* held[t]: buffers the thread t owns outside prewarm_prover
    todo,   \* todo[t]: sizes prewarm_prover has still to take
    bufs,   \* bufs[t]: prewarm_prover's local vector of taken buffers
    quiet   \* history: quiet[t] holds while t prewarms and no other thread
            \* has touched the pool since it began

vars == <<cap, len, pool, held, todo, bufs, quiet>>

Sizes == {Small, Large}

Init ==
    /\ cap = [b \in Buffers |-> 0]
    /\ len = [b \in Buffers |-> 0]
    /\ pool = <<>>
    /\ held = [t \in Threads |-> {}]
    /\ todo = [t \in Threads |-> <<>>]
    /\ bufs = [t \in Threads |-> <<>>]
    /\ quiet = [t \in Threads |-> FALSE]

-----------------------------------------------------------------------------
(* Vec::swap_remove moves the element i out; the last element fills the hole. *)
SwapRemove(s, i) ==
    [out  |-> s[i],
     rest |-> IF i = Len(s) THEN Front(s) ELSE [Front(s) EXCEPT ![i] = Last(s)]]

(* Mutant: any pooled buffer will do, whatever its capacity. *)
MutFitting(p, n) == DOMAIN p

(* Indices of the pooled buffers a request for n elements can reuse. *)
Fitting(p, n) == {i \in DOMAIN p : cap[p[i]] >= n}

(* Mutant: first fit instead of best fit. *)
MutFirstFit(p, n) == CHOOSE i \in Fitting(p, n) : \A j \in Fitting(p, n) : i <= j

(* The pool scan of try_take_f128: the first smallest capacity >= n. *)
BestFit(p, n) ==
    CHOOSE i \in Fitting(p, n) :
        \A j \in Fitting(p, n) :
            \/ cap[p[i]] < cap[p[j]]
            \/ cap[p[i]] = cap[p[j]] /\ i <= j

(* Mutant: the oldest buffer is evicted. *)
MutOldest(p) == 1

(* The eviction victim of give_f128: min_by_key returns the first minimum. *)
Smallest(p) ==
    CHOOSE i \in DOMAIN p :
        \A j \in DOMAIN p :
            \/ cap[p[i]] < cap[p[j]]
            \/ cap[p[i]] = cap[p[j]] /\ i <= j

(* t is not inside prewarm_prover. *)
Idle(t) == todo[t] = <<>> /\ bufs[t] = <<>>

(* alloc_uninit_vec: some allocation nobody owns. *)
Fresh == CHOOSE b \in Buffers : cap[b] = 0

Disturbs(t) == quiet' = [u \in Threads |-> u = t /\ quiet[u] /\ ~Idle(t)]

(* The scan and removal of try_take_f128 for a request of n elements. *)
Reused(n) == SwapRemove(pool, BestFit(pool, n))

(* The buffer take_f128 returns: a pooled one when one fits, else a fresh one. *)
Taken(n) == IF Fitting(pool, n) # {} THEN Reused(n).out ELSE Fresh

(* take_f128.  A recycled buffer keeps its capacity: clear and the unchecked   *)
(* set_len give it the length n; alloc_uninit_vec sets both.                   *)
TakeFrom(t, n) ==
    /\ Disturbs(t)
    /\ len' = [len EXCEPT ![Taken(n)] = n]
    /\ IF Fitting(pool, n) # {}
       THEN pool' = Reused(n).rest /\ UNCHANGED cap
       ELSE /\ \E b \in Buffers : cap[b] = 0     \* bound: there is always an identity left
            /\ cap' = [cap EXCEPT ![Fresh] = n] /\ UNCHANGED pool

(* give_f128: push, then evict the smallest when the pool overflows. *)
GiveTo(t, b) ==
    LET p == Append(pool, b)
        evicted == SwapRemove(p, Smallest(p))
    IN  /\ Disturbs(t)
        /\ IF Len(p) > MAX_POOLED
           THEN /\ pool' = evicted.rest
                /\ cap' = [cap EXCEPT ![evicted.out] = 0]
                /\ len' = [len EXCEPT ![evicted.out] = 0]
           ELSE pool' = p /\ UNCHANGED <<cap, len>>

Take(t) ==
    /\ Idle(t)
    /\ Cardinality(held[t]) < MAX_HELD
    /\ \E n \in Sizes :
        /\ TakeFrom(t, n)
        /\ held' = [held EXCEPT ![t] = @ \cup {Taken(n)}]
    /\ UNCHANGED <<todo, bufs>>

(* try_take_f128 on a cold pool is None and changes nothing: no step.  On a  *)
(* warm pool it does what Take does.                                         *)

Give(t) ==
    /\ Idle(t)
    /\ \E b \in held[t] :
        /\ GiveTo(t, b)
        /\ held' = [held EXCEPT ![t] = @ \ {b}]
    /\ UNCHANGED <<todo, bufs>>

(* A holder that panics or returns early drops its buffer past the pool. *)
Discard(t) ==
    /\ Idle(t)
    /\ \E b \in held[t] :
        /\ cap' = [cap EXCEPT ![b] = 0]
        /\ len' = [len EXCEPT ![b] = 0]
        /\ held' = [held EXCEPT ![t] = @ \ {b}]
    /\ UNCHANGED <<pool, todo, bufs, quiet>>

Clear(t) ==
    /\ Idle(t)
    /\ cap' = [b \in Buffers |-> IF b \in Range(pool) THEN 0 ELSE cap[b]]
    /\ len' = [b \in Buffers |-> IF b \in Range(pool) THEN 0 ELSE len[b]]
    /\ pool' = <<>>
    /\ Disturbs(t)
    /\ UNCHANGED <<held, todo, bufs>>

(* prewarm_prover: take the whole set, touch it, then give it all back.  The *)
(* Setup constructors call it, before their thread owns any buffer.          *)
WarmSet == [i \in 1..(NLarge + NSmall) |-> IF i <= NLarge THEN Large ELSE Small]

PrewarmStart(t) ==
    /\ Idle(t) /\ held[t] = {}
    /\ todo' = [todo EXCEPT ![t] = WarmSet]
    /\ quiet' = [quiet EXCEPT ![t] = TRUE]
    /\ UNCHANGED <<cap, len, pool, held, bufs>>

PrewarmTake(t) ==
    /\ todo[t] # <<>>
    /\ TakeFrom(t, Head(todo[t]))
    /\ bufs' = [bufs EXCEPT ![t] = Append(@, Taken(Head(todo[t])))]
    /\ todo' = [todo EXCEPT ![t] = Tail(@)]
    /\ UNCHANGED held

(* Touching the pages in between is local to the thread: no step. *)
PrewarmGive(t) ==
    /\ todo[t] = <<>> /\ bufs[t] # <<>>
    /\ GiveTo(t, Head(bufs[t]))
    /\ bufs' = [bufs EXCEPT ![t] = Tail(@)]
    /\ UNCHANGED <<held, todo>>

ThreadNext(t) ==
    \/ Take(t) \/ Give(t) \/ Discard(t) \/ Clear(t)
    \/ PrewarmStart(t) \/ PrewarmTake(t) \/ PrewarmGive(t)

Next == \E t \in Threads : ThreadNext(t)

Spec == Init /\ [][Next]_vars

-----------------------------------------------------------------------------
(* The buffers the thread t owns, in prewarm_prover and outside it. *)
Holds(t) == held[t] \cup Range(bufs[t])

(* No buffer a thread holds is longer than its allocation: the precondition of  *)
(* the unsafe set_len (scratch.rs 71-74), for a buffer recycled from a give of   *)
(* any thread and any size.  It stays allocated for as long as it is held, over  *)
(* every eviction and clear of the others, and the pool keeps to its bound.      *)
LengthsFit ==
    /\ Len(pool) <= MAX_POOLED
    /\ \A t \in Threads : \A b \in Holds(t) : 0 < len[b] /\ len[b] <= cap[b]

(* Returning a buffer never costs the pool a buffer larger than one it keeps: *)
(* "big buffers [must not] get crowded out by stale small ones" (scratch.rs   *)
(* 83-86), under every order of gives of all threads.                         *)
LargeBuffersSurvive ==
    [][\A b \in Buffers :
        cap[b] # 0 /\ cap'[b] = 0 /\ (\E t \in Threads : Give(t) \/ PrewarmGive(t))
            => \A i \in DOMAIN pool' : cap[b] <= cap'[pool'[i]]]_vars

(* The pool left by taking n from p; Miss when that had to allocate. *)
Miss == <<0>>

Serve(p, n) ==
    IF p # Miss /\ Fitting(p, n) # {} THEN SwapRemove(p, BestFit(p, n)).rest
    ELSE Miss

(* Every order in which a prove cycle can ask for the prewarmed set. *)
Orders == {o \in [1..(NLarge + NSmall) -> Sizes] :
              Cardinality({i \in DOMAIN o : o[i] = Large}) = NLarge}

Serves(p, o) == FoldLeft(Serve, p, o) # Miss

(* When prewarm_prover returns and no other thread touched the pool meanwhile, *)
(* the pool can serve a whole prove cycle, in whatever order it asks, without  *)
(* a fresh allocation, whatever the pool held before (scratch.rs 104-117).     *)
PrewarmServesProve ==
    [][\A t \in Threads :
        quiet[t] /\ Len(bufs[t]) = 1 /\ bufs'[t] = <<>>
            => (\A o \in Orders : Serves(pool, o))']_vars

\* Threads are interchangeable.
Symmetry == Permutations(Threads)
=============================================================================
