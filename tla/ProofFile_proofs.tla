-------------------------- MODULE ProofFile_proofs --------------------------
(***************************************************************************)
(* In a behaviour in which no two calls of write_bytes_to_file for one      *)
(* target overlap, the target is always one writer's complete bundle, so is *)
(* what any reader gets, and a call that returns Ok has published its own.   *)
(* The code does not keep calls from overlapping: that is the hypothesis     *)
(* []TakeTurns of each theorem, and a behaviour without it is lost.          *)
(***************************************************************************)
EXTENDS ProofFile, TLAPS

Chunk == ({"hole"} \cup Writers) \X Nat
Beginning(w, n) == [k \in 1..n |-> <<w, k>>]

(* A writer at work holds the temporary file, which has the part of its bundle  *)
(* written so far.                                                              *)
Writing ==
    \A w \in Writers : wpc[w] = "write" =>
        tmp # NoFile /\ fd[w] = tmp /\ files[tmp] = Beginning(w, off[w])

(* A reader's file is complete and can no longer get the temporary name, so     *)
(* nobody truncates it; what it has read is a beginning of it.                  *)
ReadsOf(r, w) ==
    /\ files[rfd[r]] = Whole(w)
    /\ Len(got[r]) <= CHUNKS[w]
    /\ got[r] = Beginning(w, Len(got[r]))

Reading ==
    \A r \in Readers : rpc[r] = "read" =>
        /\ rfd[r] # NoFile /\ rfd[r] # tmp
        /\ \E w \in Writers : ReadsOf(r, w)

IInv == TypeOK /\ PathIsWhole /\ TakeTurns /\ Writing /\ Reading /\ ReadersSeeWhole

(* A chunk written after the first n makes the first n + 1. *)
LEMMA PutNext ==
    ASSUME NEW w \in Writers, NEW n \in Nat
    PROVE  PutAt(Beginning(w, n), n + 1, <<w, n + 1>>) = Beginning(w, n + 1)
<1>1. Len(Beginning(w, n)) = n
  BY DEF Beginning
<1>. QED
  BY <1>1 DEF PutAt, Beginning

(* Appending the next chunk to what was read so far. *)
LEMMA ReadNext ==
    ASSUME NEW w \in Writers, NEW n \in Nat
    PROVE  Append(Beginning(w, n), <<w, n + 1>>) = Beginning(w, n + 1)
  BY DEF Beginning

LEMMA InitInv == Init => IInv
<1>. SUFFICES ASSUME Init PROVE IInv
  OBVIOUS
<1>1. TypeOK
  BY FileAssumption DEF Init, TypeOK, NoFile
<1>2. PathIsWhole /\ TakeTurns /\ Writing /\ Reading /\ ReadersSeeWhole
  BY DEF Init, PathIsWhole, TakeTurns, Writing, Reading, ReadersSeeWhole, NoFile
<1>. QED
  BY <1>1, <1>2 DEF IInv

LEMMA CreateInv ==
    ASSUME IInv, TakeTurns', NEW w \in Writers, Create(w)
    PROVE  IInv'
<1>. USE DEF IInv, dirVars, writerVars, readerVars
<1>1. \A v \in Writers : wpc[v] # "write"
  <2>1. ASSUME NEW v \in Writers, wpc[v] = "write" PROVE FALSE
    <3>1. v # w /\ wpc'[v] = "write" /\ wpc'[w] = "write"
      BY <2>1 DEF Create, TypeOK
    <3>. QED
      BY <3>1 DEF TakeTurns
  <2>. QED
    BY <2>1
<1>2. /\ tmp' \in 1..Len(files')
      /\ files' \in Seq(Seq(Chunk))
      /\ Len(files') >= Len(files)
      /\ files'[tmp'] = <<>>
      /\ tmp' # path
      /\ \A i \in 1..Len(files) : i # tmp => files'[i] = files[i] /\ i # tmp'
  <2>0. files \in Seq(Seq(Chunk)) /\ tmp \in 0..Len(files) /\ path \in 0..Len(files)
        /\ <<>> \in Seq(Chunk) /\ Len(files) \in Nat
    BY DEF TypeOK, Chunk
  <2>1. CASE tmp = NoFile
    <3>1. files' = Append(files, <<>>) /\ tmp' = Len(files) + 1
      BY <2>1 DEF Create
    <3>. QED
      BY <2>0, <2>1, <3>1 DEF NoFile
  <2>2. CASE tmp # NoFile
    <3>1. files' = [files EXCEPT ![tmp] = <<>>] /\ tmp' = tmp /\ tmp # path
      BY <2>2 DEF Create, Truncated, TypeOK
    <3>. QED
      BY <2>0, <2>2, <3>1 DEF NoFile
  <2>. QED
    BY <2>1, <2>2
<1>0. /\ Len(files) \in Nat /\ Len(files') \in Nat /\ tmp' \in 0..Len(files')
      /\ path \in 0..Len(files) /\ path \in 0..Len(files') /\ path' = path
  BY <1>2 DEF Create, TypeOK
<1>3. TypeOK'
  <2>1. /\ fd' \in [Writers -> 0..Len(files')] /\ rfd' \in [Readers -> 0..Len(files')]
        /\ off' \in [Writers -> Nat] /\ \A v \in Writers : off'[v] <= CHUNKS[v]
    <3>1. \A i \in 0..Len(files) : i \in 0..Len(files')
      BY <1>0, <1>2
    <3>2. fd \in [Writers -> 0..Len(files')] /\ rfd \in [Readers -> 0..Len(files')]
      BY <3>1 DEF TypeOK
    <3>3. fd' = [fd EXCEPT ![w] = tmp'] /\ off' = [off EXCEPT ![w] = 0] /\ rfd' = rfd
      BY DEF Create
    <3>4. off \in [Writers -> Nat] /\ \A v \in Writers : off[v] <= CHUNKS[v] /\ CHUNKS[v] \in Nat
      BY FileAssumption DEF TypeOK
    <3>5. fd' \in [Writers -> 0..Len(files')] /\ rfd' \in [Readers -> 0..Len(files')]
      BY <1>0, <3>2, <3>3
    <3>. QED
      BY <3>3, <3>4, <3>5
  <2>2. /\ attempts' \in [Writers -> Nat]
        /\ wpc' \in [Writers -> {"idle", "write", "ok", "failed"}]
        /\ got' = got /\ rpc' = rpc
    BY DEF Create, TypeOK
  <2>. QED
    BY <1>0, <1>2, <2>1, <2>2 DEF TypeOK, Chunk
<1>4. PathIsWhole'
  <2>. SUFFICES ASSUME path # NoFile PROVE \E v \in Writers : files'[path] = Whole(v)
    BY <1>0 DEF PathIsWhole, Whole
  <2>1. path \in 1..Len(files) /\ path # tmp
    BY <1>0 DEF TypeOK, NoFile
  <2>. QED
    BY <1>2, <2>1 DEF PathIsWhole
<1>5. TakeTurns'
  BY <1>1 DEF Create, TypeOK, TakeTurns
<1>6. Writing'
  <2>. SUFFICES ASSUME NEW v \in Writers, wpc'[v] = "write"
                PROVE  tmp' # NoFile /\ fd'[v] = tmp' /\ files'[tmp'] = Beginning(v, off'[v])
    BY DEF Writing
  <2>1. v = w
    BY <1>1 DEF Create, TypeOK
  <2>2. fd'[w] = tmp' /\ off'[w] = 0
    BY DEF Create, TypeOK
  <2>3. Beginning(w, 0) = <<>>
    BY DEF Beginning
  <2>. QED
    BY <1>2, <2>1, <2>2, <2>3 DEF NoFile
<1>7. Reading'
  <2>. SUFFICES ASSUME NEW r \in Readers, rpc'[r] = "read"
                PROVE  rfd'[r] # NoFile /\ rfd'[r] # tmp' /\ \E v \in Writers : ReadsOf(r, v)'
    BY DEF Reading
  <2>1. rpc[r] = "read" /\ rfd' = rfd /\ got' = got
    BY DEF Create
  <2>2. rfd[r] \in 1..Len(files) /\ rfd[r] # tmp
    BY <2>1 DEF Reading, TypeOK, NoFile
  <2>3. files'[rfd[r]] = files[rfd[r]] /\ rfd[r] # tmp'
    BY <1>2, <2>2
  <2>4. PICK v \in Writers : ReadsOf(r, v)
    BY <2>1 DEF Reading
  <2>5. ReadsOf(r, v)'
    BY <2>1, <2>3, <2>4 DEF ReadsOf, Whole, Beginning
  <2>. QED
    BY <2>1, <2>2, <2>3, <2>5 DEF NoFile
<1>8. ReadersSeeWhole'
  BY DEF Create, ReadersSeeWhole, Whole
<1>. QED
  BY <1>3, <1>4, <1>5, <1>6, <1>7, <1>8

LEMMA WriteInv ==
    ASSUME IInv, NEW w \in Writers, WriteChunk(w)
    PROVE  IInv'
<1>. USE DEF IInv, dirVars, writerVars, readerVars
<1>0. /\ tmp \in 1..Len(files) /\ fd[w] = tmp /\ tmp # path
      /\ files[tmp] = Beginning(w, off[w])
      /\ off[w] \in Nat /\ off[w] + 1 \in 0..CHUNKS[w] /\ CHUNKS[w] \in Nat
  <2>1. wpc[w] = "write" /\ off[w] < CHUNKS[w]
    BY DEF WriteChunk
  <2>2. tmp # NoFile /\ fd[w] = tmp /\ files[tmp] = Beginning(w, off[w])
    BY <2>1 DEF Writing
  <2>3. tmp \in 1..Len(files) /\ tmp # path
    BY <2>2 DEF TypeOK, NoFile
  <2>4. off[w] \in Nat /\ CHUNKS[w] \in Nat
    BY FileAssumption DEF TypeOK
  <2>. QED
    BY <2>1, <2>2, <2>3, <2>4
<1>1. files' = [files EXCEPT ![tmp] = Beginning(w, off[w] + 1)]
  BY <1>0, PutNext DEF WriteChunk, TypeOK
<1>2. Beginning(w, off[w] + 1) \in Seq(Chunk)
  BY <1>0 DEF Beginning, Chunk
<1>3. /\ files' \in Seq(Seq(Chunk)) /\ Len(files') = Len(files)
      /\ files'[tmp] = Beginning(w, off[w] + 1)
      /\ \A i \in 1..Len(files) : i # tmp => files'[i] = files[i]
  BY <1>0, <1>1, <1>2 DEF TypeOK, Chunk
<1>4. TypeOK'
  <2>1. off' \in [Writers -> Nat] /\ \A v \in Writers : off'[v] <= CHUNKS[v]
    BY <1>0 DEF WriteChunk, TypeOK
  <2>. QED
    BY <1>3, <2>1 DEF WriteChunk, TypeOK, Chunk
<1>5. PathIsWhole'
  <2>. SUFFICES ASSUME path # NoFile PROVE \E v \in Writers : files'[path] = Whole(v)
    BY DEF WriteChunk, PathIsWhole, Whole
  <2>1. path \in 1..Len(files)
    BY DEF TypeOK, NoFile
  <2>. QED
    BY <1>0, <1>3, <2>1 DEF PathIsWhole
<1>6. TakeTurns'
  BY DEF WriteChunk, TakeTurns
<1>7. Writing'
  <2>. SUFFICES ASSUME NEW v \in Writers, wpc'[v] = "write"
                PROVE  tmp' # NoFile /\ fd'[v] = tmp' /\ files'[tmp'] = Beginning(v, off'[v])
    BY DEF Writing
  <2>1. v = w
    BY DEF WriteChunk, TakeTurns
  <2>2. off'[w] = off[w] + 1 /\ fd' = fd /\ tmp' = tmp
    BY <1>0 DEF WriteChunk, TypeOK
  <2>. QED
    BY <1>0, <1>3, <2>1, <2>2 DEF NoFile
<1>8. Reading'
  <2>. SUFFICES ASSUME NEW r \in Readers, rpc'[r] = "read"
                PROVE  rfd'[r] # NoFile /\ rfd'[r] # tmp' /\ \E v \in Writers : ReadsOf(r, v)'
    BY DEF Reading
  <2>1. rpc[r] = "read" /\ rfd' = rfd /\ got' = got /\ tmp' = tmp
    BY DEF WriteChunk
  <2>2. rfd[r] \in 1..Len(files) /\ rfd[r] # tmp
    BY <2>1 DEF Reading, TypeOK, NoFile
  <2>3. PICK v \in Writers : ReadsOf(r, v)
    BY <2>1 DEF Reading
  <2>4. ReadsOf(r, v)'
    BY <1>3, <2>1, <2>2, <2>3 DEF ReadsOf, Whole, Beginning
  <2>. QED
    BY <2>1, <2>2, <2>4 DEF NoFile
<1>9. ReadersSeeWhole'
  BY DEF WriteChunk, ReadersSeeWhole, Whole
<1>. QED
  BY <1>4, <1>5, <1>6, <1>7, <1>8, <1>9

LEMMA RenameInv ==
    ASSUME IInv, NEW w \in Writers, Rename(w)
    PROVE  IInv'
<1>. USE DEF IInv, dirVars, writerVars, readerVars, Written, TmpAfterRename
<1>0. /\ tmp \in 1..Len(files) /\ tmp # NoFile
      /\ files[tmp] = Whole(w)
  BY DEF Rename, Writing, TypeOK, NoFile, Beginning, Whole
<1>1. path' = tmp /\ tmp' = NoFile /\ wpc' = [wpc EXCEPT ![w] = "ok"] /\ files' = files
  BY <1>0 DEF Rename
<1>2. TypeOK'
  BY <1>0, <1>1 DEF Rename, TypeOK, NoFile
<1>3. PathIsWhole'
  BY <1>0, <1>1 DEF PathIsWhole, Whole
<1>4. \A v \in Writers : wpc'[v] # "write"
  BY <1>1 DEF Rename, TakeTurns, TypeOK
<1>5. TakeTurns' /\ Writing'
  BY <1>4 DEF TakeTurns, Writing
<1>6. Reading'
  BY <1>1 DEF Rename, Reading, ReadsOf, Whole, Beginning, NoFile
<1>7. ReadersSeeWhole'
  BY DEF Rename, ReadersSeeWhole, Whole
<1>. QED
  BY <1>2, <1>3, <1>5, <1>6, <1>7

LEMMA StopInv ==
    ASSUME IInv, NEW w \in Writers, Stop(w) \/ Again(w)
    PROVE  IInv'
<1>. USE DEF IInv, dirVars, writerVars, readerVars
<1>1. /\ UNCHANGED <<dirVars, fd, off, attempts, readerVars>>
      /\ wpc' \in [Writers -> {"idle", "write", "ok", "failed"}]
      /\ \A v \in Writers : wpc'[v] = "write" => wpc[v] = "write"
  BY DEF Stop, Again, TypeOK
<1>2. TypeOK' /\ PathIsWhole'
  BY <1>1 DEF TypeOK, PathIsWhole, Whole
<1>3. TakeTurns' /\ Writing'
  BY <1>1 DEF TakeTurns, Writing, Beginning
<1>4. Reading' /\ ReadersSeeWhole'
  BY <1>1 DEF Reading, ReadsOf, ReadersSeeWhole, Whole, Beginning
<1>. QED
  BY <1>2, <1>3, <1>4

LEMMA OpenInv ==
    ASSUME IInv, NEW r \in Readers, Open(r)
    PROVE  IInv'
<1>. USE DEF IInv, dirVars, writerVars, readerVars
<1>1. TypeOK'
  BY DEF Open, TypeOK
<1>2. PathIsWhole' /\ TakeTurns' /\ Writing'
  BY DEF Open, PathIsWhole, TakeTurns, Writing, Whole, Beginning
<1>3. Reading'
  <2>. SUFFICES ASSUME NEW s \in Readers, rpc'[s] = "read"
                PROVE  rfd'[s] # NoFile /\ rfd'[s] # tmp' /\ \E v \in Writers : ReadsOf(s, v)'
    BY DEF Reading
  <2>1. CASE s = r
    <3>1. rfd'[s] = path /\ got'[s] = <<>> /\ files' = files /\ tmp' = tmp
      BY <2>1 DEF Open, TypeOK
    <3>2. path # NoFile /\ path # tmp
      BY DEF Open, TypeOK, NoFile
    <3>3. PICK v \in Writers : files[path] = Whole(v)
      BY <3>2 DEF PathIsWhole
    <3>4. Beginning(v, 0) = <<>> /\ CHUNKS[v] \in Nat /\ Len(<<>>) = 0
      BY FileAssumption DEF Beginning
    <3>5. ReadsOf(s, v)'
      BY <3>1, <3>3, <3>4 DEF ReadsOf, Whole, Beginning
    <3>. QED
      BY <3>1, <3>2, <3>5
  <2>2. CASE s # r
    <3>1. rpc[s] = "read" /\ rfd'[s] = rfd[s] /\ got'[s] = got[s] /\ files' = files /\ tmp' = tmp
      BY <2>2 DEF Open, TypeOK
    <3>2. PICK v \in Writers : ReadsOf(s, v)
      BY <3>1 DEF Reading
    <3>3. ReadsOf(s, v)'
      BY <3>1, <3>2 DEF ReadsOf, Whole, Beginning
    <3>. QED
      BY <3>1, <3>3 DEF Reading
  <2>. QED
    BY <2>1, <2>2
<1>4. ReadersSeeWhole'
  BY DEF Open, ReadersSeeWhole, TypeOK, Whole
<1>. QED
  BY <1>1, <1>2, <1>3, <1>4

LEMMA ReadInv ==
    ASSUME IInv, NEW r \in Readers, Read(r)
    PROVE  IInv'
<1>. USE DEF IInv, dirVars, writerVars, readerVars
<1>1. PICK w \in Writers : ReadsOf(r, w)
  BY DEF Read, Reading
<1>2. /\ Len(got[r]) \in Nat /\ CHUNKS[w] \in Nat
      /\ Len(files[rfd[r]]) = CHUNKS[w]
      /\ rfd[r] # NoFile /\ rfd[r] # tmp
  BY <1>1, FileAssumption DEF ReadsOf, Whole, TypeOK, Read, Reading
<1>3. CASE Len(got[r]) < CHUNKS[w]
  <2>1. /\ got' = [got EXCEPT ![r] = Append(@, files[rfd[r]][Len(@) + 1])]
        /\ rpc' = rpc /\ rfd' = rfd /\ files' = files /\ tmp' = tmp
    BY <1>2, <1>3 DEF Read
  <2>2. files[rfd[r]][Len(got[r]) + 1] = <<w, Len(got[r]) + 1>>
    BY <1>1, <1>2, <1>3 DEF ReadsOf, Whole
  <2>3. got'[r] = Beginning(w, Len(got[r]) + 1)
    BY <1>1, <1>2, <2>1, <2>2, ReadNext DEF ReadsOf, TypeOK
  <2>4. Len(got'[r]) = Len(got[r]) + 1 /\ got'[r] \in Seq(Chunk)
    BY <1>2, <2>3 DEF Beginning, Chunk
  <2>5. ReadsOf(r, w)'
    <3>1. files'[rfd'[r]] = Whole(w)
      BY <1>1, <2>1 DEF ReadsOf
    <3>2. Len(got'[r]) <= CHUNKS[w] /\ got'[r] = Beginning(w, Len(got'[r]))
      BY <1>2, <1>3, <2>3, <2>4
    <3>. QED
      BY <3>1, <3>2 DEF ReadsOf, Whole, Beginning
  <2>6. TypeOK'
    BY <2>1, <2>4 DEF Read, TypeOK, Chunk
  <2>7. PathIsWhole' /\ TakeTurns' /\ Writing'
    BY <2>1 DEF Read, PathIsWhole, TakeTurns, Writing, Whole, Beginning
  <2>8. Reading'
    <3>. SUFFICES ASSUME NEW s \in Readers, rpc'[s] = "read"
                  PROVE  rfd'[s] # NoFile /\ rfd'[s] # tmp' /\ \E v \in Writers : ReadsOf(s, v)'
      BY DEF Reading
    <3>1. CASE s = r
      BY <1>2, <2>1, <2>5, <3>1
    <3>2. CASE s # r
      <4>1. got'[s] = got[s] /\ rpc[s] = "read"
        BY <2>1, <3>2 DEF TypeOK
      <4>2. PICK v \in Writers : ReadsOf(s, v)
        BY <4>1 DEF Reading
      <4>3. ReadsOf(s, v)'
        BY <2>1, <4>1, <4>2 DEF ReadsOf, Whole, Beginning
      <4>. QED
        BY <2>1, <4>1, <4>3 DEF Reading
    <3>. QED
      BY <3>1, <3>2
  <2>9. ReadersSeeWhole'
    BY <2>1 DEF Read, ReadersSeeWhole, TypeOK, Whole
  <2>. QED
    BY <2>6, <2>7, <2>8, <2>9
<1>4. CASE ~(Len(got[r]) < CHUNKS[w])
  <2>1. rpc' = [rpc EXCEPT ![r] = "done"] /\ UNCHANGED <<got, rfd, files, tmp, path, wpc, fd, off, attempts>>
    BY <1>2, <1>4 DEF Read
  <2>2. got[r] = Whole(w)
    <3>1. Len(got[r]) = CHUNKS[w]
      BY <1>1, <1>2, <1>4 DEF ReadsOf
    <3>2. Beginning(w, CHUNKS[w]) = Whole(w)
      BY DEF Beginning, Whole
    <3>. QED
      BY <1>1, <3>1, <3>2 DEF ReadsOf
  <2>3. TypeOK'
    BY <2>1 DEF TypeOK
  <2>4. PathIsWhole' /\ TakeTurns' /\ Writing'
    BY <2>1 DEF PathIsWhole, TakeTurns, Writing, Whole, Beginning
  <2>5. Reading'
    BY <2>1 DEF Reading, ReadsOf, TypeOK, Whole, Beginning
  <2>6. ReadersSeeWhole'
    BY <2>1, <2>2 DEF ReadersSeeWhole, TypeOK, Whole
  <2>. QED
    BY <2>3, <2>4, <2>5, <2>6
<1>. QED
  BY <1>3, <1>4

LEMMA Stutter == ASSUME IInv, UNCHANGED vars PROVE IInv'
<1>. USE DEF IInv, vars, dirVars, writerVars, readerVars
<1>1. TypeOK' /\ PathIsWhole' /\ TakeTurns'
  BY DEF TypeOK, PathIsWhole, TakeTurns, Whole
<1>2. Writing' /\ Reading' /\ ReadersSeeWhole'
  BY DEF Writing, Reading, ReadsOf, ReadersSeeWhole, Whole, Beginning
<1>. QED
  BY <1>1, <1>2

LEMMA NextInv ==
    ASSUME IInv, TakeTurns', [Next]_vars
    PROVE  IInv'
  BY CreateInv, WriteInv, RenameInv, StopInv, OpenInv, ReadInv, Stutter DEF Next

LEMMA Invariance == Spec /\ []TakeTurns => []IInv
  BY InitInv, NextInv, PTL DEF Spec

(* As long as no two writes of one target overlap, write_bytes_to_file is atomic:  *)
(* the target is never a partial or a mixed bundle (proof_io.rs 264), whichever     *)
(* writers fail or die, and whenever.                                               *)
THEOREM WritesAreAtomic == Spec /\ []TakeTurns => []PathIsWhole
<1>1. IInv => PathIsWhole
  BY DEF IInv
<1>. QED
  BY <1>1, Invariance, PTL

(* As long as no two writes of one target overlap, read_bytes_from_file returns one *)
(* complete bundle, though a writer may replace the target, or fail or die, while   *)
(* it reads.                                                                        *)
THEOREM ReadsAreWhole == Spec /\ []TakeTurns => []ReadersSeeWhole
<1>1. IInv => ReadersSeeWhole
  BY DEF IInv
<1>. QED
  BY <1>1, Invariance, PTL

(* As long as no two writes of one target overlap, a write that returns Ok leaves   *)
(* its own bundle at the target, whatever an earlier one left under the temporary    *)
(* name.                                                                             *)
THEOREM OkIsPublished == Spec /\ []TakeTurns => OkMeansPublished
<1>1. ASSUME IInv, [Next]_vars, NEW w \in Writers, wpc[w] = "write", wpc'[w] = "ok"
      PROVE  files'[path'] = Whole(w)
  <2>1. Rename(w)
    BY <1>1 DEF Next, Create, WriteChunk, Rename, Stop, Again, Open, Read, vars, dirVars, writerVars,
                readerVars, IInv, TypeOK
  <2>2. tmp # NoFile /\ files[tmp] = Whole(w)
    BY <1>1, <2>1 DEF Rename, Written, IInv, Writing, Beginning, Whole
  <2>. QED
    BY <2>1, <2>2 DEF Rename
<1>2. IInv /\ [Next]_vars =>
        [\A w \in Writers : wpc[w] = "write" /\ wpc'[w] = "ok" => files'[path'] = Whole(w)]_vars
  BY <1>1 DEF Whole
<1>. QED
  BY <1>2, Invariance, PTL DEF Spec, OkMeansPublished
=============================================================================
