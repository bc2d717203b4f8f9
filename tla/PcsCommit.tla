------------------------------ MODULE PcsCommit ------------------------------
(* The commitment of the outer scheme: packed bits, the replicated message, its  *)
(* interleaved encoding with a mask and a blinder beside it, and the rows that   *)
(* are the leaves of the tree; and the extractor that reads the rows back from   *)
(* the recorded leaf queries and decodes them. Roots are left to MerkleTree.     *)
EXTENDS AdditiveNtt, Sequences
LOCAL INSTANCE SequencesExt

CONSTANTS LOG_PACKING,   \* log of the bits of an element: 7 in the code
          ProfileRate,   \* profile -> log of its inverse rate
          Schedule,      \* how the machine splits a transform
          COPY_CHUNK,    \* elements a thread copies at a time
          Digest(_)      \* the hash of a message

pack_witness(z) ==
  [r \in 0 .. (Size(z) \div 2 ^ LOG_PACKING) - 1 |->
     LET at[b \in 0 .. 2 ^ LOG_PACKING] ==
           IF b = 0 THEN 0 ELSE at[b - 1] + 2 ^ (b - 1) * z[r * 2 ^ LOG_PACKING + b - 1]
     IN  at[2 ^ LOG_PACKING]]
unpack_witness(packed) ==
  [i \in 0 .. Size(packed) * 2 ^ LOG_PACKING - 1 |->
     Bit(packed[i \div 2 ^ LOG_PACKING], i % 2 ^ LOG_PACKING)]

-----------------------------------------------------------------------------
(* Parameters.                                                                   *)

One(b) == IF b THEN 1 ELSE 0
witness_log_msg_len(p) == p.m - LOG_PACKING
log_msg_len(p) == witness_log_msg_len(p) + One(p.zk)
log_lanes_committed(p) == p.log_batch_size + One(p.zk)
log_dim(p) == log_msg_len(p) - p.log_batch_size
k_code(p) == log_dim(p) + p.log_inv_rate
n_positions(p) == 2 ^ k_code(p)
num_ntts(p) == 2 ^ p.log_batch_size
codeword_len(p) == n_positions(p) * 2 ^ log_lanes_committed(p)
n_leaves(p) == codeword_len(p) \div 2 ^ log_lanes_committed(p)
profile_rate_matches(p) == p.log_inv_rate = ProfileRate[p.profile]

validate(p, zkFeature) ==
  IF p.m < LOG_PACKING \/ p.log_batch_size > p.m - LOG_PACKING THEN "InvalidDimensions"
  ELSE IF p.log_inv_rate = 0 THEN "InvalidLogInvRate"
  ELSE IF ~profile_rate_matches(p) THEN "ProfileRateMismatch"
  ELSE IF p.zk /\ ~zkFeature THEN "ZkFeatureDisabled"
  ELSE "Ok"
NewParams(m, batch, profile, zk) ==
  [m |-> m, log_inv_rate |-> ProfileRate[profile], log_batch_size |-> batch,
   profile |-> profile, zk |-> zk]

-----------------------------------------------------------------------------
(* The prover's side.                                                            *)

\* Copies of the message fill the buffer, chunk by chunk where it is long.
replicate_message_fill(n, msg) ==
  [i \in 0 .. n - 1 |->
     IF Size(msg) >= COPY_CHUNK
     THEN LET off == ((i \div COPY_CHUNK) * COPY_CHUNK) % Size(msg) IN msg[off + (i % COPY_CHUNK)]
     ELSE msg[i % Size(msg)]]

\* A row holds the lanes of mask or witness, then as many of the blinder.
replicate_message_fill_zk(n, mask, z, g, ntts) ==
  [i \in 0 .. n - 1 |->
     LET pos == (i \div (2 * ntts)) % (Size(g) \div ntts)
         lane == i % (2 * ntts)
         masks == Size(mask) \div ntts
     IN  IF lane >= ntts THEN g[pos * ntts + lane - ntts]
         ELSE IF pos < masks THEN mask[pos * ntts + lane] ELSE z[(pos - masks) * ntts + lane]]

finalize_commit(p, filled) ==
  interleaved_parallel_from_layer(Schedule, standard(k_code(p)), filled,
                                  2 ^ log_lanes_committed(p), p.log_inv_rate, FALSE)
commit(p, z) == finalize_commit(p, replicate_message_fill(codeword_len(p), z))

\* The mask, the blinder and the salts are drawn in this order from one stream.
commit_zk(p, z, stream) ==
  LET w == Size(z)
      mask == [i \in 0 .. w - 1 |-> stream[i]]
      blind == [i \in 0 .. 2 * w - 1 |-> stream[w + i]]
  IN  [zk_mask |-> mask, zk_blind |-> blind,
       salts |-> [i \in 0 .. n_leaves(p) - 1 |-> <<stream[3 * w + 2 * i], stream[3 * w + 2 * i + 1]>>],
       codeword |-> finalize_commit(p, replicate_message_fill_zk(codeword_len(p), mask, z, blind,
                                                                 num_ntts(p)))]

\* Row number pos of a codeword: the payload of leaf pos.
Row(p, codeword, pos) == Slice(codeword, pos * 2 ^ log_lanes_committed(p), 2 ^ log_lanes_committed(p))

-----------------------------------------------------------------------------
(* The extractor's side.                                                         *)

ByColumns(v, positions, lanes, f(_)) ==
  LET cols == [l \in 0 .. lanes - 1 |-> f([pos \in 0 .. positions - 1 |-> v[pos * lanes + l]])]
  IN  [i \in DOMAIN v |-> cols[i % lanes][i \div lanes]]

forward_columns(c, positions, lanes) ==
  ByColumns(c, positions, lanes,
            LAMBDA col : forward_transform_scalar(standard(Log2(positions)), col))

\* The coefficients past the message are dropped, the rest encoded again, and the word
\* accepted if no more rows differ than half of what the code can tell apart.
message_rows(p) == 2 * (2 ^ witness_log_msg_len(p) \div num_ntts(p))
inverse_columns(p, word) ==
  ByColumns(word, n_positions(p), 2 ^ log_lanes_committed(p),
            LAMBDA col : inverse_transform(standard(k_code(p)), col))
keep_message(p, c) ==
  [i \in DOMAIN c |-> IF i < message_rows(p) * 2 ^ log_lanes_committed(p) THEN c[i] ELSE 0]
row_distance(p, word, again) ==
  Cardinality({pos \in 0 .. n_positions(p) - 1 : Row(p, word, pos) # Row(p, again, pos)})
part(p, kept, from, first, n) ==
  [i \in 0 .. n * num_ntts(p) - 1 |->
     kept[(from + (i \div num_ntts(p))) * 2 ^ log_lanes_committed(p) + first + (i % num_ntts(p))]]

decoded_parts(p, kept, distance) ==
  LET masks == message_rows(p) \div 2
  IN  IF distance > (n_positions(p) - message_rows(p)) \div 2
      THEN [ok |-> FALSE, error |-> "OutsideUniqueRadius"]
      ELSE [ok |-> TRUE, mask |-> part(p, kept, 0, 0, masks),
            witness |-> part(p, kept, masks, 0, masks),
            blinder |-> part(p, kept, 0, num_ntts(p), 2 * masks), row_distance |-> distance]
decode_zk_codeword(p, word) ==
  IF ~p.zk \/ Size(word) # codeword_len(p) THEN [ok |-> FALSE, error |-> "BadShape"]
  ELSE Given(keep_message(p, inverse_columns(p, word)), LAMBDA kept :
         decoded_parts(p, kept, row_distance(p, word,
           forward_columns(kept, n_positions(p), 2 ^ log_lanes_committed(p)))))

\* Mutant: no deduplication.
MutLeafQueries(record) == {record}

\* The recorded leaves <<index, row>>, sorted by index, one of each index. The sort is
\* unstable, so the one that survives may be any recorded under the index: a set of vectors.
leaf_queries(record) ==
  LET indices == {record[i][1] : i \in DOMAIN record}
      sorted == [k \in 1 .. Cardinality(indices) |->
                   CHOOSE i \in indices : Cardinality({j \in indices : j <= i}) = k]
      recorded(index) == {leaf \in Range(record) : leaf[1] = index}
      survivors == FoldSet(LAMBDA index, kept : {k @@ (index :> leaf) : k \in kept, leaf \in recorded(index)},
                           {<<>>}, indices)
  IN  {[k \in DOMAIN sorted |-> kept[sorted[k]]] : kept \in survivors}

word_of_leaves(p, leaves) ==
  LET lanes == 2 ^ log_lanes_committed(p)
      rowOf(pos) == leaves[CHOOSE i \in DOMAIN leaves : leaves[i][1] = pos][2]
  IN  [i \in 0 .. codeword_len(p) - 1 |-> rowOf(i \div lanes)[i % lanes]]
recovered(decoded) ==
  IF ~decoded.ok THEN [ok |-> FALSE, error |-> "Decode"]
  ELSE [ok |-> TRUE, witness |-> decoded.witness]
recover_witness_from_leaf_queries(p, leaves) ==
  IF \/ ~p.zk \/ Len(leaves) # n_leaves(p)
     \/ {leaves[i][1] : i \in DOMAIN leaves} # 0 .. n_positions(p) - 1
     \/ \E i \in DOMAIN leaves : Size(leaves[i][2]) # 2 ^ log_lanes_committed(p)
  THEN [ok |-> FALSE, error |-> "BadLeafQueries"]
  ELSE recovered(decode_zk_codeword(p, word_of_leaves(p, leaves)))

\* The message of an instance: bits base .. base + n - 1 of its block of 2^log bits.
message_at(packed, instance, log, base, n) ==
  LET words == 2 ^ log \div 2 ^ LOG_PACKING
  IN  [b \in 0 .. n - 1 |->
         Bit(packed[instance * words + ((base + b) \div 2 ^ LOG_PACKING)], (base + b) % 2 ^ LOG_PACKING)]

\* The recovered messages, each compared with its digest outside of the circuit.
extract_preimages(packed, digests, slots, log, base, n) ==
  LET messages == [i \in DOMAIN digests |-> message_at(packed, i - 1, log, base, n)]
  IN  IF Size(packed) # slots * (2 ^ log \div 2 ^ LOG_PACKING) THEN [ok |-> FALSE, error |-> "BadShape"]
      ELSE IF \E i \in DOMAIN digests : Digest(messages[i]) # digests[i]
      THEN [ok |-> FALSE, error |-> "NotAPreimage"]
      ELSE [ok |-> TRUE, messages |-> messages]
=============================================================================
