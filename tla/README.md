# TLA+ models of veiled-flock

veiled-flock proves in zero knowledge that a hash preimage is known.  FLOCK is
the outer argument (zerocheck, lincheck, a Ligerito polynomial commitment),
VEIL makes it zero-knowledge: every prover message is padded with a one-time
mask, and an inner proof shows that the unmasked transcript would have been
accepted.  This directory holds models of the parts of the program where the
order of steps, sharing and failure decide correctness, the TLC runs that check
them on small instances, and the TLAPS proofs that carry the main results to
every size.

Contents: [the system](#the-system), [modules](#modules-and-the-code),
[runs and bounds](#runs), [fairness](#fairness), [proofs](#proofs),
[divergences found](#divergences-between-code-and-comments),
[what is not modelled](#not-modelled), [plan](#plan).

Each module parses with `tlasany M.tla`; `tlc -config X.cfg M` runs a
configuration, `tlapm M_proofs.tla` checks the proofs.  `PROJECT.json` maps every
definition to the lines it translates.

## The system

`crates/flock-core` has the outer argument and its building blocks,
`crates/veil-f128` the inner proof, `crates/flock-prover` the provers, verifiers,
simulator and programs.

| component (main file) | state | operations | hard behaviour | correct when |
|---|---|---|---|---|
| scratch pool (`scratch.rs`) | one global `Mutex<Vec>` of buffers | take, try_take, give, prewarm, clear | any thread between any two calls; eviction when full | a recycled buffer is long enough for its request; large buffers survive; a warmed pool serves a prove |
| programmable oracle (`sim_oracle.rs`) | programmed table, digests of queries, saturating counters | answer, program_fresh, checkpoint, audit | every transcript on one `Arc<Mutex>`; freshness tested by one party, used later | an answer never changes; it is a lazily sampled function |
| vector squeeze (`OracleChallenger`) | transcript, a copy of it | program_next_vec, sample_f128_vec | the lock is dropped between blocks; odd lengths read half a block | the squeeze gives the vector; the half that is not read stays uniform |
| simulator (`blake3_preimage.rs`, `succinct_veil.rs`) | nonce, planned challenges, transcript, checkpoint | simulate, audit; the verifier replays | concurrent simulations; refusal half way; work of others since the checkpoint | challenges as planned; the proof replays; the audit counts the simulation's own points |
| VEIL protocol (`succinct_veil.rs`, `zerocheck.rs`, `lincheck.rs`, `challenger.rs`) | two transcripts, mask cursor, proof, grinds, forks | prove, verify, circuit walk | five walks of one transcript in different functions; rejection loops; parallel branches; corrupted proofs | both sides see the same challenges; each mask is used once; every field is bound |
| proof of work (`challenger.rs`) | nonce / block | sequential and parallel search | threads finish in any order; end of the word | both find the least hit |
| Merkle trees (`merkle.rs`, `veil-f128/commitment.rs`) | flat array in uninitialised memory | build, open, verify | tasks of a level in any order; index arithmetic; openings altered on the way | every node from finished children; only the honest opening accepted |
| proof files (`proof_io.rs`) | temporary and target name | write, read | crash, failure, concurrent reader or writer | the target is always whole |
| Ligerito opening (`pcs/ligerito.rs`) | levels, basis, queries | commit, open, induce, fold, verify | recursion on both sides, query sampling | both sides agree on every index |
| ring switching, shielded PCS (`pcs.rs`, `pcs/ring_switch.rs`, `pcs/tensor_algebra.rs`) | packed witness, blinds, claims on bits and on elements | open and verify a batch | dense, split, sparse and padded folds of one sum; a first message added up while the weights still change | every fold is the sum of its definition; the two sides reduce a batch to one true inner product |
| inner proofs (`dot_product.rs`, `hadamard.rs`, `constraints.rs`) | committed matrices, masks, two phases of constraints | commit, prove, verify | openings of several proofs at one set of rows; masks and dummy products that must not be reused | an honest proof is accepted, another one only at roots of the challenges; what is opened says nothing of the inputs |
| codes and NTTs (`ntt/`, `veil-f128/ntt.rs`, `veil-f128/code.rs`) | twiddle tables | transform, encode, extend | six schedules of one transform; sub-transforms with offsets; fused layers | every schedule evaluates the polynomial |
| commitment and extractor (`pcs/commit.rs`, `preimage_extractor.rs`, `ligerito_decode.rs`) | packed words, recorded leaves | commit, collect, decode | leaves recorded in any order, by several trees | the preimage of what was committed comes back, or an error |
| mask randomness (`zk.rs`) | fork counters, block sections | fork, fill | forks of forks, alignment | streams distinct, sections disjoint |
| public digests (`digest_bind.rs`) | statement: digests, a padding rule | hash, draw, claim | padding instances, word order, a batch that is no power of two | statements with one hash say the same; the claim is off by what the witness says otherwise |
| zerocheck (`zerocheck/`) | tables folded in place, univariate first message | prove, verify, with and without mask | three kernels of the first message, redraws, an equality factor taken out of the rounds | true statements accepted, false ones and changed proofs only at roots; the mask is taken off exactly |
| lincheck, R1CS (`lincheck.rs`, `lincheck/kernels/`, `r1cs.rs`) | stripes of packed bits, matrices by rows and by columns | pack, fold, prove, verify | five kernels chosen by host and by number of workers; two layouts of the address | every kernel is the fold; the claims reduce to one claim on the witness at the right point |
| hash circuits (`r1cs_hashes/blake3.rs`, `sha2.rs`, `keccak*.rs`) | slots of a block | witness builders, matrices, folds of their transpose | the same bits written by scalar, packed and batch-major builders; pins and randomizers | the witness satisfies the matrices and holds the hash |
| field kernels (`field/`) | two words of 64 bits | multiply, square, reduce, invert, fold | portable and two vector forms; reduction of what the reduction spills | each is the product of the field |
| chains, Merkle paths (`chain.rs`, `merkle_path.rs`, `r1cs_hashes/*_common.rs`) | folded input and output slots of every block | prove, verify | a shift by one row at both ends and between paths; the leaf's row; two word orders | blocks that follow from each other are accepted, others at roots; the claim handed over is true |
| permutation, jagged table (`permutation.rs`, `pcs/jagged.rs`) | tree of products; column sums | prove, verify | indices packed in one vector; inverses by chunks; empty columns; a branching program against a table | what is accepted is a permutation, or the table's value |
| symbolic audits, programs, Lean development | | | | tests, I/O |

How they meet: prover and verifier share no memory, only the proof bundle; each
drives a *challenger* (absorb, squeeze, grind).  `FsChallenger` hashes,
`OracleChallenger` asks the programmable oracle, under its lock, so a simulator
can fix answers.  The provers take buffers from the scratch pool and commit
with Merkle trees.  The terminal step forks one challenger into two labelled
clones that run in parallel under `rayon::join`.  `PROJECT.json` lists
the hazards this gives rise to, at their lines, with the properties that watch
them.

## Modules and the code

Conventions: definitions keep the names of the source; a definition called
`Mut...` stands before the one it changes and is a plausible slip there, which
the property named for it must catch; history variables, which the code does
not have, are marked `history`.

**ScratchPool** (`scratch.rs`).  A buffer is an identity with a capacity and the
length `set_len` gave it, since the pool never reads what a buffer stores.  `pool` is the `Vec` in
its order; `SwapRemove` is what `Vec::swap_remove` does, one operator for the element it moves out and
the rest it leaves, since ownership is the compiler's to check and not the pool's.  `held` what the threads own, `todo` and `bufs` the
locals of `prewarm_prover`.  One critical section of the mutex is one action:
`Take`, `Give` (with the eviction, which the code does under the same lock),
`Clear`, and `PrewarmStart`, `PrewarmTake`, `PrewarmGive`, between which other
threads move.  `Discard` is a holder that panics.  An allocation
finds a free identity always: the model has more of them than its bounds can use.

**RandomOracle, ProgrammableOracle** (`sim_oracle.rs`).  `RandomOracle` is the
promise: a partial function that only grows.  `ProgrammableOracle` has the
programmed `table`, `seen` (digests, as the code stores them, so `was_queried`
may say yes too often), the saturating counters, and the history `asked`.  It
implements `RandomOracle` with `assigned <- Assigned`: a point has its value once it
was asked or programmed.  `Hash` is any function, collisions included.

**ProgramVec** (`program_next_vec`, `sample_f128_vec`).  Extends
`ProgrammableOracle`.  `ProgramBlock` and `SampleBlock` are one lock each; `Other`
is any other holder between them.  A block holds two field elements; the last
block of an odd vector fixes only the first (`Planned`, `Suffix`, `Take`).

**SimulatorGame** (`simulate_with_rng`, `RomZerocheckSimulator::emit`,
`sample_eq_point`, `audit_programming`).  Composes any number of simulations with
the oracle, a verifier of each finished proof and anybody else who asks.  Every lock is
a step.  A transcript is the sequence of what it absorbed and is itself the next
point.  The statement and the roots are common to all and left out; messages are
arbitrary, because the masks make them so.

**VeilFlock** (`prove_succinct_veil_r1cs`, `verify_succinct_veil_r1cs`,
`shifted_verifier_circuit`, `MaskingChallenger`, `mask_proofs`, `mask_ring_claims`,
`grind_pow`, `verify_pow`, `sample_nonzero`).  Six threads: prover and verifier, the
second circuit walk of each, the two terminal branches.  Field elements are opaque: a
message is the coordinate it stands for, its mask, the challenge it was computed
with, and whether it arrived intact.  Of the opening, `pcs_body` is what verify reads in any case,
`fold_nonces` are its fold nonces, which are counted, and `surplus` its query nonces past the last query
phase, which prove does not make and verify never counts (its own query nonces are 0, since the
accepted schedules grind no query phase, and belong to `pcs_body`).  The oracle answers a point with a fresh
element of class good or bad (bad: the loop that drew it draws again).  The
prover walks `ProverBlocks`, the replays `CircuitBlocks`: they are written down separately
because the code writes them separately.  The circuit is *satisfied* when each element is
unmasked by its own mask.  `Deliver` brings the proof as it is, or
with any element, root or nonce changed, any vector cut, or one or two more fold or query nonces.

**Ligerito** (`recursive_prover_with_basis_impl`,
`recursive_verifier_with_basis_succinct_impl`, `sample_distinct_queries`,
`fold_round_grind_bits`, `verify_pow`).  The opening that VeilFlock takes as one
opaque step.  Each side interprets a script of operations (`Say`, `Grind`, `Draw`,
`Queries`, `Open`); the prover's and the verifier's scripts are written down
separately, from their functions, level by level.  The verifier reads
the flat lists of the proof by its running indices `idx`.  `claim` and `quad` say
whether `t_r` and `running_quad` are what they should be: an equation
holds when its ingredients are intact and belong to the challenges drawn (no
accidental solutions).  A level opens when the positions are those
the rows were opened at and the root is intact, which is what MerkleTree and
MultiProof show of the real check.  `recursive_verifier_with_basis`, the dense verifier the
tests use, has the same transcript; the older paths without a basis are left out.

**Grinding** (`grind_pow`).  The two searches on one set of hits; `Test` is one thread
hashing one nonce of the block; a search by `find_first` is over when nothing before its hit is
untested.

**MerkleTree** (`merkle_tree_framed`).  The flat array over uninitialised
memory, one action per task of a level (`HashLeaves`, `HashNodes`) and one at
its end.  A digest *is* the point that was hashed: role, level, index, payload; there are
no collisions.

**MultiProof** (`MerkleMatrix::open`, `merkle_multi_proof`,
`MerkleMatrixOpening::verify`, `verify_merkle_multi_proof_framed`).  Prover's and
verifier's walk node by node; what arrives is the honest opening, an altered one, or an
arbitrary one.  The row and the salt of leaf p are p itself: only which is which matters.

**MerkleMatrix** (`veil-f128/commitment.rs`).  Composes the three: the pool builds the tree, a
nonce is ground by both searches, and sets of its rows are opened, delivered and verified.

**ProofFile** (`write_bytes_to_file`, `read_bytes_from_file`).  Files have
identities apart from their names, handles keep their own offset, `create`
truncates, `rename` is atomic (POSIX).  A bundle is a few system calls.
`Stop` is a failure or a crash at any of them.  The code keeps no two writers of one target apart:
`TakeTurns` names what its callers have to, and `Overlap` lets an instance do without.

### The arithmetic

These modules are pure: the system is a caller.  **Calls** has its protocol: `Call` takes one
element of a set of inputs, the operation it names is an action that assigns `result`, and for an
interactive argument `Call` opens a session that goes on message by message, prover and verifier
on one tape of challenges (`Send`, `Challenge`, `Receive`).  Vectors are functions on `0 .. n - 1`.
Worker threads that add up shares are the sum, since addition in the field has no order; the
*shares* themselves - which indices a worker, a tile, a stripe or a layer handles - are kept,
because that is where such code goes wrong.  Fields are small: the code's operators are
written over any field given by its tables (**SmallField**), and **MCField** computes those of
GF(16) and of an extension of 256 elements.

**GhashField, FieldCalls** (`field/*`).  The only
modules about real words: an element is two words of bits, a product four, every kernel is the
sequence of carryless products, shifts and exclusive ors of the source, at 64 bits and at 3.

**AdditiveNtt, CosetNtt, InnerCode, CodeCalls** (`ntt/`, `veil-f128/ntt.rs`, `veil-f128/code.rs`).  The
transforms as recursion over blocks, each schedule with its own order and fused layers, the tables
the prover extends polynomials with, and the inner code with its randomizers.

**ZkMasks** (`zk.rs`).  A stream is its path in the tree of forks; a block is its sections.

**PcsCommit** (`pcs/commit.rs`, `pcs/pack.rs`, `preimage_extractor.rs`, `ligerito_decode.rs`).
Packing, the masked word and its rows; the recorder's leaves of any trees in any order, sorted by
an unstable sort and deduplicated by index, so that `leaf_queries` is the set of the vectors it may
return and a run goes on from each; decoding and the digest of the preimage.  The decoder drops the
coefficients past the message and measures the distance, it corrects nothing: what
`CommittedIsRecovered` promises of two trees that were recorded together is that no mixture of their
leaves is taken for a third witness, not that either is recovered.

**UnivariateSkip, Multilinear, Zerocheck** (`zerocheck/`).  The first message by the
definition and by each kernel, bytes of witness bits at a time; folds and round messages;
the argument with its redraws, its mask and what the verifier recomputes.

**Lincheck** (`lincheck.rs`, `lincheck/kernels/*`, `r1cs.rs`).  Packing by stripes, every
kernel over the blocks with the tiling, column blocks and worker counts that choose it,
matrices folded by rows and gathered by columns, the argument, and the points of both layouts.

**BitCircuit, Blake3, Sha2, Keccak, HashCircuits** (`r1cs_hashes/`).  Words of few bits and few
rounds, with the real permutations, rotations scaled, and the slots, carries, pins and randomizers
of the source.  A builder of a witness is a walk that writes slots; a matrix is its rows, or, for
Keccak, the fold of its transpose from the last round to the first.

**PcsOpening** (`pcs/ring_switch.rs`, `pcs/tensor_algebra.rs`, `pcs.rs`).  From claims on
bits to claims on packed elements, by every fold; the batch, its combined weights and its first
message with their later corrections; plain, blinded and preblinded openings, and the verifier's
evaluation of the weights at a point, prefix by prefix.

**BlockLinks** (`digest_bind.rs`, `chain.rs`, `merkle_path.rs`, `r1cs_hashes/chain_common.rs`,
`r1cs_hashes/merkle_path_common.rs`, `permutation.rs`, `pcs/jagged.rs`).  What a block's slot has
at a random position, for every instance, in either word order; the sumchecks over shifted rows, which
bind the highest variable first; the permutation's tree of products and its five openings; the
jagged table's column walk and the verifier's program over bits.  A proof reaches the verifier
as it was made, or with one message altered or the last one missing (`Delivered`).  Input and output
slots are the first two of a chain's block, the slots of a path among its first four,
as in every layout the program defines.  A commitment to the products stands for them, and the
hash proof before and the opening after a link are the modules above.  Two preconditions that the
code leaves to its callers are kept as such: the bound on a jagged column's height is at most twice the
vector's length (the verifier reads the row's coordinates up to m only), and neither side of a permutation draws
again when a fraction has no value or a challenge is one; with such challenges the
verifier rejects or decides nothing, and the property says which.

**InnerProofs** (`veil-f128/`).  Circuits, the committed inner product and product arguments and the
compiler of two phases.  A commitment stands for its matrix, since MerkleMatrix shows that only
its rows can be opened.  Cheats put another witness or other products behind the same
transcript.

## Runs

| run | states | bounds | shows |
|---|---|---|---|
| scratch_pool | 19,689 | 2 threads, a pool of 3, 2 sizes, a warm set of 2 | `LengthsFit`, `LargeBuffersSurvive`, `PrewarmServesProve` |
| program_vec | 238,800 | vectors of 1 and 3 elements, a stray point that shares a digest | `OracleTypeOK`, `SqueezeGivesValues`, `NothingElseChanges`, and `ImplementsRandomOracle`: the oracle refines `RandomOracle` |
| game | 407,758 | 2 simulations, 2 nonces, 2 challenges, 2 rounds, 1 foreign query; overlapping and one after the other | `ChallengesAsPlanned`, `SimulatedProofsVerify`, `AuditCertifiesOwn`, `AnswersNeverChange` |
| veilflock | 85,070 | one round of each kind, one slice per claim, one fold grind of at most 2, nonce bounds of 2, 2 bad answers | `Completeness`, `CorruptionCaught`, `BindingOrder`, `MasksPadOnce`, `Decides` |
| ligerito | 483,154 | 4 shapes (out-of-domain samples and a hiding level; two recursive levels with taper; a level opened everywhere; too few positions), positions 0 to 2, 1 repeat or miss | `Completeness`, `AcceptsOnlyTheMade`, `BindingOrder`, `Decides` |
| prooffile | 10,106 | 2 writers (2 and 1 chunks), 2 calls each, 1 reader | `PathIsWhole`, `ReadersSeeWhole`, `OkMeansPublished` |
| merkle | 327,640 | 1, 2, 4, 8 rows, 2 nodes per task; 8 nonces, blocks of 3; sets of up to 3 positions, arbitrary openings to depth 2 | `WellFormed`, `WrittenOnce`, `OpensTheSet`, `AcceptsOnlyHonest`, `LeastHit`, `SearchesEnd` |
| algebra | 5,909 | GF(16), GF(256) for inner proofs; words of 3 and 64 bits; vectors to 16; circuits of 1 to 4 inputs, 0 to 2 gates, 1 and 2 queries; up to 4 linked instances of 2 paths, columns of heights 0 to 3 | `KernelsAreTheField`, `TransformsEvaluate`, `CodesHideAndMultiply`, `CommittedIsRecovered`, `RandomizersApart`, `OpeningsHold`, `BlocksAreLinked`, `ConstraintsHideAndBind` |
| arguments | 2,738 | bytes of 2 bits, skip of 2 variables, words of 4 bits, lanes of 8, 2 rounds of each hash, blocks of 4 to 16 bits, 2 to 16 blocks, 3 architectures with 1 to 3 workers | `SumchecksReduce`, `CircuitsCompute`, `LincheckReduces` |

The runs game_shared, program_vec_refused and prooffile_overlap check one
sentence of a comment each and find it violated: see below.

Why the bounds are enough, where a proof does not settle it:

- *scratch_pool*: the pool holds one buffer more than the warm set, so that it
  overflows, evicts both sizes and has a stranger in it when a prewarm begins; two
  threads reach every pair of critical sections.
- *game*: two rounds put a foreign step between programming and sampling, and
  between rounds; one nonce draws a one in its equality point and the other does
  not; `MAX_COUNT` and `MAX_ORACLE_QUERIES` let the counters and the budget be
  met exactly.  The foreign queries are those that hit a simulation's own points.
- *veilflock*: with one item of each kind every field occurs once and its
  neighbours are all different fields, which is where order and offset errors show; two
  bad answers put a redraw, a missed nonce, a nonce at and a nonce beyond the bound in
  the same behaviour.  `MAX_LIGERITO_GRIND_SITES` is one above the
  fold grinds, so that an opening with a fold nonce too many comes to be counted in one case and exceeds
  the bound in the other.  `ConstPin` is on; without it a challenge is absent on both sides.
- *ligerito*: one extra level is enough for every index to be used at a first, a middle
  and a last level; the alterations are any one element changed, cut,
  doubled or exchanged with its neighbour; two positions from three make order, repetition and
  chance agreement of positions possible.
- *prooffile*: a short bundle over a longer one is what a missing truncation needs.
- *merkle*: eight rows have levels of several tasks, of one, and
  of part of one, and positions 1 and 2, which are neighbours but no siblings; 8 nonces are
  not a multiple of 3, so the last block is cut off by the saturation.
- *algebra*, *arguments*: an operation is compared with the definition of what it computes,
  for all unit vectors or a spread of dense ones; the operations are linear in each argument, so
  that a wrong index, offset or share shows on a unit vector.  Sizes are such that every branch on a
  size is taken: a vector shorter than a tile, a share that is not whole, a padded end inside a
  chunk, a transform below and above its cut-over.  An argument is run with true and false statements and
  with every message of the proof changed; a false one may be accepted only if the drawn
  challenges are roots, which the properties compute, and some tapes hit one.  Bytes, words and
  rounds are scaled down together, which keeps the slot arithmetic of the source.

`CHECK_DEADLOCK FALSE` stands where the system may stop: a finished search, a finished
game, writers that have used up their attempts.

## Fairness

- *VeilFlock*: `WF_vars(Step)`.  Prover, verifier and branches run on until they
  return; rayon's join runs both branches.  The grinds and rejection loops end
  because an answer is bad at most `MAX_BAD` times, which stands for the geometric
  distribution of the real loops.
- *Ligerito*: `WF_vars(Next)`: a walk runs on until it returns.  Positions repeat and
  nonces miss at most `MAX_BAD` times, again for a geometric distribution.
- *MerkleMatrix*: weak fairness of building, of the sequential loop, of the end of a block and of
  *some* thread hashing some nonce (Grinding's fairness): the pool goes on while the block is not
  done, no particular thread has to.
- The other specifications have no fairness and no liveness property: their callers may
  stop at any time.

## Proofs

| module | theorem | argument |
|---|---|---|
| ScratchPool_proofs | `HeldBuffersFit`, `EvictionSparesTheLarge` | what `take_f128` is given fits the request, so `set_len` stays inside the allocation; nobody else frees a buffer that is held, for which: a buffer lives exactly while something owns it, no vector has one twice, no two collections share one; lemmas: `swap_remove` takes out one element and no other, best fit and eviction choose an element there is |
| ProgrammableOracle_proofs | `OracleTypeCorrect`, `AnswersAreFinal`, `OracleImplementsLazySampling`; for ProgramVec `VectorIsSqueezed`, `NothingElseIsFixed` | the type invariant with *every asked point has its digest in* `seen`: so `program_fresh` never overwrites an answer given; a squeezed vector: *blocks before this one are set as planned* while programming, *all are set and* `out` *is the beginning of the vector* while sampling; another holder cannot change a set block; for the second, a point nobody else touched is in the table only as an earlier block, and `seen` has only others' digests until the squeeze |
| SimulatorGame_proofs | `SimulationSamplesItsPlan`, `SimulationsVerify`, `GameAnswersAreFinal`, `CertificatesAreOwn`, `AuditsAlonePass` | `GameInv`: lengths of the logs at each place, every entry of a log was asked and is what the oracle answers, between the two locks of a round the next point is programmed as planned, the verifier has not run off the log; `OwnInv` for the audits: a simulation has as many points of its own since its checkpoint as rounds it has come to, and while it runs alone all new points are its own |
| ProofFile_proofs | `WritesAreAtomic`, `ReadsAreWhole`, `OkIsPublished` | in a behaviour whose writers take turns: what it has written is the beginning of its bundle; what is at the target is whole and nobody has it open for writing; what a reader has got is a beginning of the file it opened |
| MerkleMatrix_proofs | `SearchesAgree`, `TreeIsWellFormed`, `NodesAreWrittenOnce`, and for the composed module `MatrixIsWellFormed`, `MatrixIsWrittenOnce`, `MatrixGrindIsLeast`, `RowsAreOpened`, `OnlyTheRowsPass` | grinding: `Swept`: no hit below the nonce or the block, `best` is the least hit tested; the tree: where each level lies in the array, `readStart + 2 * readLen = 2 * numLeaves`, which tasks have written, and that levels below are complete; a step of MerkleMatrix is a step of one of the parts or leaves its variables alone; the openings: see below |
| MultiProof_proofs | the lemmas `InitIInv`, `NextIInv` and `IInvSays` that the last two of these rest on | the walk up the tree, for both sides: see below |
| VeilFlock_proofs | `MasksAreUsedOnce`, `CorruptionIsCaught`, `HonestProofsPass`, `ChallengesComeLate` | `PadInv`, `TraceInv`, `Regular` and `Finished`: see below |
| Ligerito_proofs | `AcceptedOpeningsAreMade`, `PositionsComeLate`, `OpeningsComplete` | the scripts of both sides keep one ledger; each answer of the oracle stands for all its point tells of the proof; the challenge the folded message was made with is the same for both; the prover leaves a trail that the verifier follows: see below |

`RowsAreOpened` and `OnlyTheRowsPass` are about any number of rows, any request (in any order, with
repetitions) and anything the verifier is shown.  MultiProof_proofs has no theorem of its own, since MultiProof is run
as a part of MerkleMatrix.  `Ascending` lists a set in order, so on a level the sibling of a position is either the
next one of the list or not in the set; the prover's cursor therefore stands
for a set that is settled and one still to be climbed from (`Climb`), and what it has emitted is the siblings
missing on the levels below and on this one up to the cursor (`Emits`).  The verifier meets the same sets
whatever it was shown, since it goes by positions alone; the digests it collects (`Collects`) are
those of the tree at exactly the nodes under which all rows, salts and siblings it took are honest, and at the root these
are all there are.  That direction needs that a digest *is* its point, level and index included, as it
is in MerkleTree.  `MatrixInv` joins this invariant, instanced as `Batch`, to `TreeInv` and to `Hashed`, that
a finished node of the pool's array is the digest of the committed tree; it adds to the assumptions that the sizes
are powers of two, which `commit` asserts, and that the bounds on requests are natural numbers.

`MasksAreUsedOnce` rests on three groups of lemmas.  *Layout*: the blocks of the transcript,
written out for every number of rounds (`BlocksAre`), and the closed form `Base` of the mask
before each field, so that the mask of element i of field f is `Base[f] + i` and no two pairs
share one (`MasksAreDisjoint`).  *Cursor*: at block k of the prover's walk the cursor is
`CursorAt(k)`, which is why what `MaskingChallenger` puts on a message is what `mask_proofs`
puts on it again (`BlockIsPadded`); the lincheck's constant start is one of these
values.  *Transcripts*: an oracle point, and so everything ever asked, is made of items that carry
a private element only with its own mask (`SayableItem`).  `PadInv` adds where each thread
may be and that what the verifier holds are the prover's elements, changed, cut or extended by nonces but never padded anew.

`CorruptionIsCaught` adds `TraceInv`: every thread's transcript, challenges and links are a
function of the proof its side works with (`WalkAt`, `LinkAt`, `OpeningAt`, `Proved`), and each
redraw loop is a chain of bad answers in the oracle (`Chain`, `Drawn`).  A point absorbs a whole transcript, so
a challenge is drawn from one point only (`DrawnFromOne`).  When the verifier accepts, what
it attests and what the prover attested are one transcript with one set of answers, and equal points have equal
parts: roots, statement, the direct blinds and both wires are the prover's; `proof_nonce` is in the point of
the first challenge and `blind_nonce` in that of the blinding challenge; the fold nonces follow backwards from
the last draw (`FoldsAgree`); the lengths from the shape checks, and that of the
fold nonces from the count of the opening's verifier.  One field is left out of the conclusion, `surplus`,
since nothing reads it.  Nothing is assumed of the
hash: two points may have one answer.

`HonestProofsPass` adds `Finished`, what is known of a proof once it is made, to `TraceInv`.  Two walks
over one proof draw the same challenges (`ChallengesAgree`: the oracle answers a point
once, and a redraw ends at one point), so a verifier that holds what was sent meets the
prover's own transcript: the same hit for each nonce (`HitAgain`), the same fold chain, the
same claims, and masks that satisfy the circuit the prover built (`CircuitIsSatisfied`).

`ChallengesComeLate` needs the geometry of the prover's proof (`Regular`) besides `TraceInv`.
The recursion by which the property collects what a challenge depends on has a solution
because a point follows earlier points only (`HistoryFollows`); a challenge then remembers all that its
point absorbed however often it was redrawn (`DrawingRemembers`), and so on along the
walk, the link, and the fold chain (`WalkBinds`, `LinkBinds`, `AttestBinds`).

`AcceptedOpeningsAreMade` has no bound on the levels, folds, samples and queries of an opening, so the
two scripts are concatenations of unknown length.  `Ledger` says how many elements of each list the
operations before a place take, and composes (`LedgerJoins`); from it `Planned` derives what the rest of the proof uses of a
script (`Itinerary`): at every place where either side is before the folded message, it has been through the
same counts, and at most one sumcheck message lies between the last draw and the folded message.  The
invariant `Walked` adds the histories: `T[a]` is what the point of challenge `a`
tells of a proof, list by list (`Recalls`), the transcript of a side tells the part of its proof it is through with
(`Making`, `Reading`), and a delivered list is, where it is intact, a list that was made
(`Formed`, `Left`).  The folded message carries the challenge
it was made with.  When the verifier has met it with the same challenge, `T` of that challenge is both a beginning of the
proof made and a beginning of the proof sent (`AcceptedIsMade`), which leaves the salts of the
openings and the first claim, which are compared, and the counts, which the shape checks compare.
Assumed are `ConfigAssumption` (a `ProverConfig` is well formed: two levels or more, what is folded away fits, a query in each level)
and `MessageAssumption`; nothing of the hash.

`PositionsComeLate` counts what a transcript depends on along the points it is chained to, so it needs that
the count is the number of elements read.  `Past` collects exactly what the histories tell (`PastTold`), and
no element occurs twice where it is read: the prover numbers what it makes, and of the alterations only
one repeats an element, after the last one the verifier reads (`AlteredUnlike`, `ReadIsBound`).  The ledger then says what has been
read where a level is opened (`Bound`), and that a position is drawn before the weights (`GotSome`).

`OpeningsComplete` has two halves.  *No honest opening is rejected*: while the prover walks, the invariant (`FollowInv`) keeps
its trail, the sequence of places it was at, each with the transcript, the challenge and the positions it had there, so that two
neighbours are one operation of its script over the answers of the oracle and the proof made (`Trail`); both only grow, so a
trail stays one (`TrailStays`).  The verifier's script is the prover's but for the two checks of counts and shape before the folded message, and the
weights, glue and last check at the end (`Alike`, `PlaceOfAct`).  A verifier that holds what was made starts at the
first place of the trail, and each of its steps is the next step there (`Follows`): the point it asks is in the oracle already,
and only once (`OneEach`), so it gets the challenge, position or hit that the prover got; the element it reads by its
index is the one the ledger puts there.  After the last opening it draws challenges of its own, and no check is left but the sum.
*Every basis fits the residual*, whatever arrives: going down the verifier's script, the fold challenges drawn and the dimension
of the level reached add up to `logN` (`LevelAt`, `ScriptRises`), so a basis of dimension `cols` is noted when `logN - cols` were drawn (`Fits`),
and at the residual all were that lead down to the dimension of yr.

TLC has checked these invariants on an instance before they were proved, but for the trail, which quantifies over sequences of places;
for it TLC has checked what it is for, `Completeness`.

Assumptions are those of the modules: the hash is a function (no randomness, no
injectivity); the theorems of ProofFile_proofs are about behaviours in which writers take turns
(`[]TakeTurns`, a hypothesis of each), which the code does *not* enforce; sizes of trees are closed under halving, as powers of
two are; any number of threads, rounds, parties, blocks and chunks.

Only model-checked: liveness (`Decides`, `SearchesEnd`), which the prover cannot treat; `PrewarmServesProve`;
of `AuditCertifiesOwn` that the query budget is kept and that a refusal needs another's nonce, which rest on the
size of the budget and on a hash without collisions; and all of the
arithmetic.  What those modules compute is a statement by induction over vectors, and the
transforms and circuits are written with RECURSIVE operators (AdditiveNtt, CosetNtt, BitCircuit,
Keccak, HashCircuits): both are outside TLAPS as it is installed, and the runs compare them with their
definitions on every input of a small set instead.

## Divergences between code and comments

1. `sim_oracle.rs:84-85` says a checkpoint lets the audit "attribute programming and
   oracle work to one proof while several adaptive proofs share the same oracle
   table".  When two simulations overlap, each audit counts the other's points and fails
   (game_shared); one after the other they are fine (`AuditCertifiesOwn` of game).
2. `sim_oracle.rs:428,431`: `program_next_vec` has the "Same contract" as the scalar
   form, "Returns `None` - having programmed nothing".  Refused at a later block, it
   leaves the earlier ones programmed (program_vec_refused).
3. `proof_io.rs:264` says "Atomically write".  Two overlapping calls for one target share
   the temporary file, and the first rename publishes what the second has truncated
   (prooffile_overlap).

Noticed, without a finding: verify does not count the query nonces of a Ligerito opening, and
its last sumcheck message enters no equation, so that a surplus nonce is accepted always and another
last message or last nonce where it leads to the same positions (`AcceptsOnlyTheMade` says
what is excepted; in VeilFlock a surplus query nonce is the one exception of `CorruptionCaught`, the last query
nonce has to be 0, and another last message is a changed `pcs_body`, which leads to other positions because
the oracle's answers are fresh); the parallel `grind_pow` never hashes `u64::MAX` and does not
end if that is the only hit, while the sequential loop does (`SearchesEnd` leaves that
nonce out); `JaggedParams::from_heights` accepts a height bound of more than `2^(m+1)`, for
which the verifier leaves out the last row coordinates and refuses an honest proof; `docs/ARCHITECTURE.md`, "VEIL Linkage", lists the public digest functional
among what the shifted circuit checks, but the code binds it in the opening instead.

## Not modelled

Of the arithmetic: values of 128 bits except in GhashField; loads, stores, shuffles and prefetches
of the vector kernels, which move bytes and decide nothing; the probabilities of the soundness
argument and the floating-point certificate that adds them up (InnerProofs takes the number
of queries it arrives at as `MIN_QUERIES`).  The models say instead which challenges let a
false statement pass, and check that no other does.

Of the components: the dense path of Ligerito without a basis, which tests use; the encoding of proof
bundles, the header of a bundle and its decoding; the folds of scattered regions that only tests and
an example call, and the passes of jagged and permutation that fold and sum at once; the programs under `bin/`, which parse arguments around the
modelled calls; the symbolic coverage certificates, linear algebra run by tests; the Lean
development, which is not code that runs.  `PROJECT.json` gives the reason component by component.

## Plan

1. An abstract proof system (*accept exactly what was proved*) that VeilFlock
   implements, and an abstract opening that Ligerito implements.
2. `Contexts`: the three roles of `examples/src/ctx.rs` walk one protocol.
3. Proofs: that the detailed modules implement the abstract ones of 1.
