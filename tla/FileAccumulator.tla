-------------------------- MODULE FileAccumulator ---------------------------
(***************************************************************************)
(* services/file_accumulator.go: puts a file together from the responses   *)
(* of a download, and announces it when its SHA-256 is the expected one.   *)
(* A chunk is <<file, number>>; the sum of a file is the sequence of its   *)
(* chunks, so that two sums agree exactly when the contents agree.         *)
(***************************************************************************)
EXTENDS Integers, Sequences, Functions

CONSTANT
  Size     \* Size[f]: number of chunks of f

ASSUME AccumulatorAssumption == \A f \in DOMAIN Size : Size[f] \in Nat \ {0}

VARIABLES
  buffers,    \* buffers[f]: what was received of f; the map's keys are its domain
  announced   \* the <<file, content>> sent to tmpFileLocationChan

accumulatorVars == <<buffers, announced>>

Chunk(f, i) == <<f, i>>
Content(f) == [i \in 1 .. Size[f] |-> Chunk(f, i)]

Metadata(f) == [kind |-> "metadata", file |-> f, n |-> 0]
FileChunk(f, i) == [kind |-> "chunk", file |-> f, n |-> i]
Signature(f) == [kind |-> "signature", file |-> f, n |-> Size[f]]
FileError(f) == [kind |-> "error", file |-> f, n |-> 0]
Response ==
  [kind : {"metadata", "chunk", "signature", "error"}, file : DOMAIN Size, n : Nat]

AccumulatorInit == buffers = <<>> /\ announced = {}

\* os.Create and a new hash; an entry of the same name is replaced.
OpenBuffer(f) ==
  /\ buffers' = [g \in DOMAIN buffers \cup {f} |-> IF g = f THEN <<>> ELSE buffers[g]]
  /\ UNCHANGED announced

WriteChunk(f, c) ==
  /\ buffers' = [buffers EXCEPT ![f] = Append(@, c)]
  /\ UNCHANGED announced

\* Mutant: the sums are not compared.
VerifiedAnyway(f, sum) == f \in DOMAIN buffers

Verified(f, sum) == f \in DOMAIN buffers /\ buffers[f] = sum

\* finalize removes the entry whatever the outcome; send is FALSE when the
\* context ends the wait for tmpFileLocationChan.
Finalize(f, sum, send) ==
  /\ buffers' = Restrict(buffers, DOMAIN buffers \ {f})
  /\ announced' = announced \cup
       (IF send /\ Verified(f, sum) THEN {<<f, buffers[f]>>} ELSE {})

\* ProcessResponse with response r for the file the master asked for; disk is
\* FALSE when creating or writing the temporary file fails.
ProcessResponse(f, r, disk, send) ==
  CASE r.kind = "metadata" /\ disk -> OpenBuffer(f)
    [] r.kind = "chunk" /\ f \in DOMAIN buffers /\ disk -> WriteChunk(f, Chunk(r.file, r.n))
    [] r.kind = "signature" -> Finalize(f, Content(r.file), send)
    [] OTHER -> UNCHANGED accumulatorVars

\* It returns an error.
ProcessFails(f, r, disk, send) ==
  \/ r.kind \in {"metadata", "chunk"} /\ ~disk
  \/ r.kind = "chunk" /\ f \notin DOMAIN buffers
  \/ r.kind = "signature" /\ (~Verified(f, Content(r.file)) \/ ~send)

AccumulatorTypeOK ==
  /\ DOMAIN buffers \subseteq DOMAIN Size
  /\ \A f \in DOMAIN buffers : buffers[f] \in Seq((DOMAIN Size) \X Nat)
  /\ announced \subseteq (DOMAIN Size) \X Seq((DOMAIN Size) \X Nat)
=============================================================================
