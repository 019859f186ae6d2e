--------------------------- MODULE EvidenceStore ---------------------------
(***************************************************************************)
(* services/evidence/store.py: artifacts as files named by the digest of   *)
(* their content, and the hash chain of provenance records, used by the    *)
(* threads of the control plane as put_artifact, then append_provenance.   *)
(*                                                                         *)
(* A file is absent, truncated or complete.  SHA-256 is taken to be        *)
(* injective, so a digest stands for its content, and a record's hash for  *)
(* the record: hash n is that of the n-th record inserted, 0 the 64 zeros  *)
(* the chain starts from.  Writing a file is two steps, the open that      *)
(* truncates it and the write; the second may fail.                        *)
(***************************************************************************)
EXTENDS Naturals, Sequences

CONSTANTS Digest,      \* digests of the contents that are stored
          Writer,      \* threads
          MaxRecords,  \* bound on the chain
          MaxFaults    \* bound on process crashes and failed writes

ASSUME EvidenceAssumption == MaxRecords \in Nat /\ MaxFaults \in Nat

VARIABLES
    file,      \* artifacts/: "absent", "truncated" or "complete"
    chain,     \* provenance: a sequence of <<digest, previous_hash>>
    storing,   \* where a thread is in put_artifact or append_provenance
    content,   \* the digest it stores, in a set
    previous,  \* the previous_hash it read inside the transaction
    faults     \* crashes and failed writes so far

evidenceVars == <<file, chain, storing, content, previous, faults>>

EvidenceTypeOK ==
    /\ file \in [Digest -> {"absent", "truncated", "complete"}]
    /\ chain \in Seq(Digest \X (0..MaxRecords))
    /\ storing \in [Writer -> {"idle", "check", "open", "write", "append", "insert"}]
    /\ \A w \in Writer : content[w] \in (IF storing[w] = "idle" THEN {{}} ELSE {{d} : d \in Digest})
    /\ previous \in [Writer -> 0..MaxRecords]
    /\ faults \in 0..MaxFaults

EvidenceInit ==
    /\ file = [d \in Digest |-> "absent"]
    /\ chain = <<>>
    /\ storing = [w \in Writer |-> "idle"]
    /\ content = [w \in Writer |-> {}]
    /\ previous = [w \in Writer |-> 0]
    /\ faults = 0

-----------------------------------------------------------------------------
(* put_artifact *)

\* The first test: a file with other bytes is refused.
PutArtifact(w, d) ==
    /\ storing[w] = "idle"
    /\ file[d] # "truncated"
    /\ storing' = [storing EXCEPT ![w] = "check"]
    /\ content' = [content EXCEPT ![w] = {d}]
    /\ UNCHANGED <<file, chain, previous, faults>>

\* A store that records first and writes later.
PresentMutant(d) == TRUE

\* The second test, which does not look at the bytes again.
Present(d) == file[d] # "absent"

PutCheck(w, d) ==
    /\ storing[w] = "check"
    /\ storing' = [storing EXCEPT ![w] = IF Present(d) THEN "append" ELSE "open"]
    /\ UNCHANGED <<file, chain, content, previous, faults>>

\* write_bytes opens the file, which empties whatever another thread wrote.
PutOpen(w, d) ==
    /\ storing[w] = "open"
    /\ file' = [file EXCEPT ![d] = "truncated"]
    /\ storing' = [storing EXCEPT ![w] = "write"]
    /\ UNCHANGED <<chain, content, previous, faults>>

\* A write that stops short and is not noticed.
WrittenMutant == "truncated"

\* What write_bytes leaves when it returns.
Written == "complete"

PutWrite(w, d) ==
    /\ storing[w] = "write"
    /\ file' = [file EXCEPT ![d] = Written]
    /\ storing' = [storing EXCEPT ![w] = "append"]
    /\ UNCHANGED <<chain, content, previous, faults>>

\* A thread that goes on holding what it stored.
IdleMutant(w) ==
    /\ storing' = [storing EXCEPT ![w] = "idle"]
    /\ previous' = [previous EXCEPT ![w] = 0]
    /\ UNCHANGED content

\* The call returns or raises.
Idle(w) ==
    /\ storing' = [storing EXCEPT ![w] = "idle"]
    /\ content' = [content EXCEPT ![w] = {}]
    /\ previous' = [previous EXCEPT ![w] = 0]

\* write_bytes raises, on a full disk say.
PutFails(w) ==
    /\ storing[w] = "write"
    /\ faults < MaxFaults
    /\ faults' = faults + 1
    /\ Idle(w)
    /\ UNCHANGED <<file, chain>>

-----------------------------------------------------------------------------
(* append_provenance *)

\* A transaction that takes the lock only when it inserts.
UnlockedMutant == TRUE

\* BEGIN IMMEDIATE waits for whoever holds the write lock.
Unlocked == \A w \in Writer : storing[w] # "insert"

AppendBegin(w) ==
    /\ storing[w] = "append"
    /\ Unlocked
    /\ previous' = [previous EXCEPT ![w] = Len(chain)]
    /\ storing' = [storing EXCEPT ![w] = "insert"]
    /\ UNCHANGED <<file, chain, content, faults>>

AppendInsert(w, d) ==
    /\ storing[w] = "insert"
    /\ Len(chain) < MaxRecords
    /\ chain' = Append(chain, <<d, previous[w]>>)
    /\ Idle(w)
    /\ UNCHANGED <<file, faults>>

\* The process stops: the threads and their transactions are gone, the files
\* stay as they are.
EvidenceCrash ==
    /\ faults < MaxFaults
    /\ faults' = faults + 1
    /\ storing' = [w \in Writer |-> "idle"]
    /\ content' = [w \in Writer |-> {}]
    /\ previous' = [w \in Writer |-> 0]
    /\ UNCHANGED <<file, chain>>

EvidenceNext ==
    \/ \E w \in Writer, d \in Digest : PutArtifact(w, d)
    \/ \E w \in Writer : \E d \in content[w] :
          PutCheck(w, d) \/ PutOpen(w, d) \/ PutWrite(w, d) \/ AppendInsert(w, d)
    \/ \E w \in Writer : PutFails(w) \/ AppendBegin(w)
    \/ EvidenceCrash

-----------------------------------------------------------------------------
(* Properties *)

\* get_artifact returns the content.
Readable(d) == file[d] = "complete"

\* verify returns: every referenced artifact has its digest and the chain holds.
Verifies ==
    \A i \in 1..Len(chain) : Readable(chain[i][1]) /\ chain[i][2] = i - 1

\* Threads that append at the same time never give two records the same
\* predecessor, crashes included: the chain verify walks is unbroken
\* (append_provenance).
ChainIsUnbroken == \A i \in 1..Len(chain) : chain[i][2] = i - 1

\* No record names an artifact that was never written (put_artifact returns
\* the record before append_provenance can use it).
RecordsHaveArtifacts == \A i \in 1..Len(chain) : file[chain[i][1]] # "absent"

\* Two threads that store the same content may each empty the other's file
\* and may record it while it is empty; once no thread is inside write_bytes
\* every record verifies again, unless a write failed or a process died.
QuietStoreVerifies ==
    (faults = 0 /\ \A w \in Writer : storing[w] # "write") => Verifies

\* The chain is unbroken and names stored artifacts, and verify succeeds as soon
\* as no write is under way, in a well-typed store.
EvidenceInv == EvidenceTypeOK /\ ChainIsUnbroken /\ RecordsHaveArtifacts /\ QuietStoreVerifies
=============================================================================
