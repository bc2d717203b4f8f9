------------------------------- MODULE ZkMasks -------------------------------
(* Where the masks come from and where they live: the tree of random streams     *)
(* forked from one seed, and the layout of the randomizer rows of a block.       *)
(* A stream's word is the pair of its key and its position; a key is the seed    *)
(* and the forks that lead to it, which the keyed hash keeps apart.              *)
EXTENDS Naturals, Sequences, FiniteSets

from_seed(key) == [key |-> key, forks |-> 0, at |-> 0]

MutFork(rng, label) ==
  [child |-> from_seed(Append(rng.key, <<0, label>>)), rng |-> [rng EXCEPT !.forks = @ + 1]]

\* The child's key binds the parent's key, its fork counter and the label.
fork(rng, label) ==
  [child |-> from_seed(Append(rng.key, <<rng.forks, label>>)),
   rng |-> [rng EXCEPT !.forks = @ + 1]]

fill_u64s(rng, n) ==
  [out |-> [i \in 1 .. n |-> <<rng.key, rng.at + i - 1>>], rng |-> [rng EXCEPT !.at = @ + n]]

\* An element takes two words; the low one first.
fill_f128(rng, n) ==
  LET drawn == fill_u64s(rng, 2 * n)
  IN  [out |-> [i \in 1 .. n |-> <<drawn.out[2 * i - 1], drawn.out[2 * i]>>], rng |-> drawn.rng]
next_u64(rng) == LET drawn == fill_u64s(rng, 1) IN [out |-> drawn.out[1], rng |-> drawn.rng]

-----------------------------------------------------------------------------
(* How many chunks of 128 randomizer bits a block carries.                       *)

DivCeil(a, b) == (a + b - 1) \div b
NextMultiple(a, b) == DivCeil(a, b) * b

VFree(m, k_log, chain) ==
  LET n_log == m - k_log
  IN  128 + 2 * (m - 6) + 2 + 2 * (k_log - 6) + 64
        + (IF chain THEN 2 * (n_log + 1) + 2 ELSE 0) + 256 + 64
sized_for(m, k_log, chain) ==
  LET perBlock == DivCeil(128 * VFree(m, k_log, chain), 2 ^ (m - k_log))
      chunks == DivCeil(perBlock, 128)
  IN  [rand_chunks_a |-> IF chunks = 0 THEN 1 ELSE chunks, rand_chunks_b |-> 1, chain_mask |-> chain]

\* The sections one after the other: chunks of A, chunks of B, and the pair of slots of
\* 2^region bits at a multiple of its size. The code panics when they do not fit.
NewLayout(k_log, useful, region, cfg) ==
  LET base == NextMultiple(useful, 128)
      end == base + 128 * cfg.rand_chunks_a + 128 * cfg.rand_chunks_b
      pair == NextMultiple(end, 2 ^ (region + 1))
      last == IF cfg.chain_mask THEN pair + 2 ^ (region + 1) ELSE end
  IN  [fits |-> last <= 2 ^ k_log, rand_bit_base |-> base, chunks_a |-> cfg.rand_chunks_a,
       chunks_b |-> cfg.rand_chunks_b,
       mask_pair_bit_base |-> IF cfg.chain_mask THEN <<pair>> ELSE <<>>,
       mask_region_log |-> IF cfg.chain_mask THEN region ELSE 0, useful_bits_zk |-> last]

a_bits(l) ==
  (l.rand_bit_base .. l.rand_bit_base + 128 * l.chunks_a - 1) \cup
  UNION {l.mask_pair_bit_base[i] .. l.mask_pair_bit_base[i] + 2 ^ (l.mask_region_log + 1) - 1
         : i \in DOMAIN l.mask_pair_bit_base}
b_bits(l) ==
  LET start == l.rand_bit_base + 128 * l.chunks_a IN start .. start + 128 * l.chunks_b - 1
rand_bits_per_block(l) ==
  128 * (l.chunks_a + l.chunks_b) +
  (IF l.mask_pair_bit_base # <<>> THEN 2 ^ (l.mask_region_log + 1) ELSE 0)

\* What a statement's hash reads of a layout; the optional base has a tag of its own.
absorb_into(l) ==
  <<l.rand_bit_base, l.chunks_a, l.chunks_b, Len(l.mask_pair_bit_base)>> \o l.mask_pair_bit_base
    \o <<l.mask_region_log, l.useful_bits_zk>>
=============================================================================
