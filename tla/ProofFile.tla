----------------------------- MODULE ProofFile -----------------------------
(***************************************************************************)
(* Proof bundles on disk (flock-prover/src/proof_io.rs): write_bytes_to_file *)
(* writes a hidden sibling of the target and renames it, while others read  *)
(* the target or write it too, and a writer may fail or die at any point.   *)
(*                                                                         *)
(* The file system is the POSIX one the code relies on: create truncates    *)
(* the file of that name, an open file goes on living when its name moves,  *)
(* every handle writes at its own offset, and rename is atomic.  A bundle   *)
(* is a number of chunks, one system call each.                             *)
(***************************************************************************)
EXTENDS Naturals, Sequences

CONSTANTS
    Writers,      \* calls of write_bytes_to_file for one target
    Readers,      \* calls of read_bytes_from_file for that target
    CHUNKS,       \* CHUNKS[w]: system calls it takes to write w's bundle
    Overlap,      \* the calls may overlap
    MAX_ATTEMPTS  \* bound: calls of one writer

ASSUME FileAssumption ==
    /\ CHUNKS \in [Writers -> Nat \ {0}]
    /\ Overlap \in BOOLEAN
    /\ MAX_ATTEMPTS \in Nat

VARIABLES
    files,     \* the contents of every file there ever was
    tmp,       \* the file named .<name>.tmp, or NoFile
    path,      \* the file named <name>, or NoFile
    wpc, fd, off, attempts,  \* a writer: place, open file, chunks written, calls
    rpc, rfd, got            \* a reader: place, open file, chunks read

dirVars == <<files, tmp, path>>
writerVars == <<wpc, fd, off, attempts>>
readerVars == <<rpc, rfd, got>>
vars == <<dirVars, writerVars, readerVars>>

NoFile == 0
Hole == <<"hole", 0>>
Whole(w) == [k \in 1..CHUNKS[w] |-> <<w, k>>]

Init ==
    /\ files = <<>> /\ tmp = NoFile /\ path = NoFile
    /\ wpc = [w \in Writers |-> "idle"]
    /\ fd = [w \in Writers |-> NoFile]
    /\ off = [w \in Writers |-> 0]
    /\ attempts = [w \in Writers |-> 0]
    /\ rpc = [r \in Readers |-> "idle"]
    /\ rfd = [r \in Readers |-> NoFile]
    /\ got = [r \in Readers |-> <<>>]

(* The content of a file after v is written as its k-th chunk. *)
PutAt(f, k, v) ==
    [i \in 1..(IF k > Len(f) THEN k ELSE Len(f)) |->
        IF i = k THEN v ELSE IF i <= Len(f) THEN f[i] ELSE Hole]

-----------------------------------------------------------------------------
(* Mutant: the file under the temporary name is opened as it is. *)
MutTruncated == files

(* What create leaves of the file that has the temporary name. *)
Truncated == [files EXCEPT ![tmp] = <<>>]

(* fs::write opens the temporary name: created, or truncated. *)
Create(w) ==
    /\ wpc[w] = "idle" /\ attempts[w] < MAX_ATTEMPTS
    /\ Overlap \/ \A v \in Writers : wpc[v] # "write"
    /\ IF tmp = NoFile
       THEN /\ files' = Append(files, <<>>)
            /\ tmp' = Len(files) + 1
       ELSE files' = Truncated /\ UNCHANGED tmp
    /\ fd' = [fd EXCEPT ![w] = tmp']
    /\ off' = [off EXCEPT ![w] = 0]
    /\ wpc' = [wpc EXCEPT ![w] = "write"]
    /\ attempts' = [attempts EXCEPT ![w] = @ + 1]
    /\ UNCHANGED <<path, readerVars>>

WriteChunk(w) ==
    /\ wpc[w] = "write" /\ off[w] < CHUNKS[w]
    /\ files' = [files EXCEPT ![fd[w]] = PutAt(@, off[w] + 1, <<w, off[w] + 1>>)]
    /\ off' = [off EXCEPT ![w] = @ + 1]
    /\ UNCHANGED <<tmp, path, wpc, fd, attempts, readerVars>>

(* Mutant: the rename happens however much has been written. *)
MutWritten(w) == TRUE

(* fs::write has returned Ok. *)
Written(w) == off[w] = CHUNKS[w]

(* Mutant: the file is copied, the temporary name stays. *)
MutTmpAfterRename == tmp

TmpAfterRename == NoFile

(* fs::rename, which fails when the temporary name is gone. *)
Rename(w) ==
    /\ wpc[w] = "write" /\ Written(w)
    /\ IF tmp = NoFile
       THEN wpc' = [wpc EXCEPT ![w] = "failed"] /\ UNCHANGED <<tmp, path>>
       ELSE /\ path' = tmp /\ tmp' = TmpAfterRename
            /\ wpc' = [wpc EXCEPT ![w] = "ok"]
    /\ UNCHANGED <<files, fd, off, attempts, readerVars>>

(* A system call fails, or the process dies: the temporary file stays behind. *)
Stop(w) ==
    /\ wpc[w] = "write"
    /\ wpc' = [wpc EXCEPT ![w] = "failed"]
    /\ UNCHANGED <<dirVars, fd, off, attempts, readerVars>>

(* The caller writes again. *)
Again(w) ==
    /\ wpc[w] \in {"ok", "failed"}
    /\ wpc' = [wpc EXCEPT ![w] = "idle"]
    /\ UNCHANGED <<dirVars, fd, off, attempts, readerVars>>

(* read_bytes_from_file: open, then read to the end of the file. *)
Open(r) ==
    /\ rpc[r] = "idle" /\ path # NoFile
    /\ rfd' = [rfd EXCEPT ![r] = path]
    /\ got' = [got EXCEPT ![r] = <<>>]
    /\ rpc' = [rpc EXCEPT ![r] = "read"]
    /\ UNCHANGED <<dirVars, writerVars>>

Read(r) ==
    LET f == files[rfd[r]]
    IN  /\ rpc[r] = "read"
        /\ IF Len(got[r]) < Len(f)
           THEN got' = [got EXCEPT ![r] = Append(@, f[Len(@) + 1])] /\ UNCHANGED rpc
           ELSE rpc' = [rpc EXCEPT ![r] = "done"] /\ UNCHANGED got
        /\ UNCHANGED <<dirVars, writerVars, rfd>>

Next ==
    \/ \E w \in Writers : Create(w) \/ WriteChunk(w) \/ Rename(w) \/ Stop(w) \/ Again(w)
    \/ \E r \in Readers : Open(r) \/ Read(r)

Spec == Init /\ [][Next]_vars

-----------------------------------------------------------------------------
(* The state is well-formed, and the two names never stand for one file. *)
TypeOK ==
    /\ files \in Seq(Seq(({"hole"} \cup Writers) \X Nat))
    /\ {tmp, path} \subseteq 0..Len(files)
    /\ tmp = path => tmp = NoFile
    /\ wpc \in [Writers -> {"idle", "write", "ok", "failed"}]
    /\ fd \in [Writers -> 0..Len(files)]
    /\ off \in [Writers -> Nat] /\ \A w \in Writers : off[w] <= CHUNKS[w]
    /\ attempts \in [Writers -> Nat]
    /\ rpc \in [Readers -> {"idle", "read", "done"}]
    /\ rfd \in [Readers -> 0..Len(files)]
    /\ got \in [Readers -> Seq(({"hole"} \cup Writers) \X Nat)]

(* No two writes are under way at once: what the code leaves to its callers, and *)
(* what Overlap = FALSE makes the writers of a checked instance keep to.          *)
TakeTurns == \A v, w \in Writers : wpc[v] = "write" /\ wpc[w] = "write" => v = w

(* "Atomically write" (proof_io.rs 264): whatever writers die and whenever, the  *)
(* target is never there with anything but one writer's complete bundle, as long *)
(* as the writers take turns.                                                     *)
PathIsWhole == path # NoFile => \E w \in Writers : files[path] = Whole(w)

(* A reader that has read to the end has one writer's complete bundle, also when  *)
(* the target was replaced, or a later writer died, while it was reading, as long *)
(* as the writers take turns.                                                     *)
ReadersSeeWhole ==
    \A r \in Readers : rpc[r] = "done" => \E w \in Writers : got[r] = Whole(w)

(* A write that returns Ok, of writers that take turns, has put its own bundle at *)
(* the target.                                                                     *)
OkMeansPublished ==
    [][\A w \in Writers : wpc[w] = "write" /\ wpc'[w] = "ok" => files'[path'] = Whole(w)]_vars

-----------------------------------------------------------------------------
(* The sizes that are model-checked: a longer and a shorter bundle. *)
Sizes == [w \in Writers |-> IF w = "w1" THEN 2 ELSE 1]
=============================================================================
