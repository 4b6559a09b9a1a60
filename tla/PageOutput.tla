------------------------------ MODULE PageOutput ------------------------------
(***************************************************************************)
(* How the text of a page gets to the output file: the content hash of     *)
(* _content_dedup_processor, the buffer of class AsyncJsonlWriter in       *)
(* storage/writer.py, the write in a thread of the executor, and the       *)
(* completion of the page.  These are separate commits: a worker may be    *)
(* cut off between any two, a write may fail, the process may die.         *)
(*                                                                         *)
(* A record is the content of its page.  Hashes are kept for HASH_MAX_AGE; *)
(* the model is of a crawl shorter than that.                              *)
(***************************************************************************)
EXTENDS Naturals, Sequences, FiniteSets

CONSTANTS
  Crew,         \* workers
  Leaf,         \* pages
  ContentOf,    \* the content of each
  Blank,        \* that of a page without text and fields, which is not hashed
  BufferSize,   \* buffer_size, in records
  MaxTroubles,  \* bound: cancellations, failed writes and crashes
  MaxStarts     \* bound: sessions

ASSUME OutputAssumption ==
  /\ IsFiniteSet(Leaf) /\ Leaf # {} /\ DOMAIN ContentOf = Leaf
  /\ Crew \cap {"flusher", "closer", "nobody", "free"} = {}
  /\ BufferSize \in Nat \ {0} /\ MaxTroubles \in Nat /\ MaxStarts \in Nat \ {0}

VARIABLES
  hashes,    \* content_hashes
  finished,  \* pages that are completed in urls
  where,     \* what each worker does: out, "hash", "record", "flush" or "complete"
  leaf,      \* with which page
  buffer,    \* _buffer
  writes,    \* what threads are writing, and for whom
  file,      \* records in the file
  torn,      \* the file ends in half a line
  mutex,     \* who holds _lock
  flusher,   \* _flush_task: asleep, flushing, at its last flush, or dead
  closer,    \* aclose: not called, waiting for the flusher, flushing, done; or the process died
  starts, troubles,
  missed,    \* history: contents whose record is lost
  broken     \* history: a write failed

tables == <<hashes, finished>>
crew == <<where, leaf>>
out == <<buffer, writes, file, torn, missed>>
bounds == <<starts, troubles, broken>>
output == <<tables, crew, out, mutex, flusher, closer, bounds>>

Content == {ContentOf[p] : p \in Leaf}
Holder == Crew \cup {"flusher", "closer"}

OutputTypeOK ==
  /\ hashes \subseteq Content /\ finished \subseteq Leaf
  /\ where \in [Crew -> {"out", "hash", "record", "flush", "complete"}] /\ leaf \in [Crew -> Leaf]
  /\ buffer \in Seq(Content) /\ Len(buffer) < BufferSize /\ file \in Seq(Content) /\ torn \in BOOLEAN
  /\ writes \subseteq [for : Holder \cup {"nobody"}, recs : Seq(Content)]
  /\ mutex \in Holder \cup {"free"}
  /\ flusher \in {"asleep", "flush", "last", "dead"} /\ closer \in {"off", "wait", "flush", "closed", "crashed"}
  /\ starts \in 1 .. MaxStarts /\ troubles \in 0 .. MaxTroubles /\ missed \subseteq Content /\ broken \in BOOLEAN

Trouble == troubles > 0 /\ troubles' = troubles - 1 /\ UNCHANGED <<starts, broken>>
GoOn(w, place) == where' = [where EXCEPT ![w] = place] /\ UNCHANGED leaf
TextOf(w) == ContentOf[leaf[w]]
Up == closer # "crashed"

SetOf(recs) == {recs[k] : k \in DOMAIN recs}

\* What a thread appends.  After half a line the first record is glued to it, and
\* nobody can read either.
Append2File(recs) ==
  /\ file' = file \o (IF torn THEN Tail(recs) ELSE recs)
  /\ missed' = (missed \cup IF torn THEN {Head(recs)} ELSE {})
  /\ torn' = FALSE

-----------------------------------------------------------------------------
(* A worker                                                                  *)

Start1(w, p) ==
  /\ Up /\ where[w] = "out" /\ p \notin finished /\ \A v \in Crew : where[v] = "out" \/ leaf[v] # p
  /\ where' = [where EXCEPT ![w] = "hash"] /\ leaf' = [leaf EXCEPT ![w] = p]
  /\ UNCHANGED <<tables, out, mutex, flusher, closer, bounds>>

\* add_content_hash answers whether the hash is new.
AddContentHash(w) ==
  /\ where[w] = "hash"
  /\ GoOn(w, IF TextOf(w) \in hashes THEN "complete" ELSE "record")
  /\ hashes' = hashes \cup ({TextOf(w)} \ {Blank})
  /\ UNCHANGED <<finished, out, mutex, flusher, closer, bounds>>

\* _do_flush: the buffer is emptied before its content is written.
Flush(owner, recs) ==
  /\ buffer' = <<>> /\ writes' = writes \cup {[for |-> owner, recs |-> recs]} /\ mutex' = owner
  /\ UNCHANGED <<file, torn, missed>>

\* Once the writer is closed it takes no record and says nothing.
WriteRecord(w) ==
  /\ where[w] = "record" /\ mutex = "free"
  /\ IF closer \in {"flush", "closed"}
     THEN GoOn(w, "complete") /\ missed' = missed \cup {TextOf(w)} /\ UNCHANGED <<buffer, writes, file, torn, mutex>>
     ELSE IF Len(buffer) + 1 >= BufferSize
     THEN GoOn(w, "flush") /\ Flush(w, Append(buffer, TextOf(w)))
     ELSE GoOn(w, "complete") /\ buffer' = Append(buffer, TextOf(w)) /\ UNCHANGED <<writes, file, torn, missed, mutex>>
  /\ UNCHANGED <<tables, flusher, closer, bounds>>

\* Mutant: the page is finished before its text is hashed and written.
MutComplete(w) ==
  /\ where[w] \in {"hash", "complete"} /\ GoOn(w, "out")
  /\ finished' = finished \cup {leaf[w]} /\ hashes' = hashes \cup ({TextOf(w)} \ {Blank})
  /\ UNCHANGED <<out, mutex, flusher, closer, bounds>>

Complete(w) ==
  /\ where[w] = "complete" /\ GoOn(w, "out")
  /\ finished' = finished \cup {leaf[w]} /\ UNCHANGED hashes
  /\ UNCHANGED <<out, mutex, flusher, closer, bounds>>

\* The chain timeout or a shutdown: what was committed stays, what was not may be
\* all the same, the write goes on in its thread, and the page is to be done again.
WorkerCut(w) ==
  /\ where[w] # "out" /\ Trouble /\ GoOn(w, "out")
  /\ hashes' \in {hashes, hashes \cup IF where[w] = "hash" THEN {TextOf(w)} \ {Blank} ELSE {}}
  /\ finished' \in {finished, finished \cup IF where[w] = "complete" THEN {leaf[w]} ELSE {}}
  /\ missed' = (missed \cup IF where[w] = "record" \/ hashes' # hashes THEN {TextOf(w)} ELSE {})
  /\ writes' = {IF b.for = w THEN [b EXCEPT !.for = "nobody"] ELSE b : b \in writes}
  /\ mutex' = (IF mutex = w THEN "free" ELSE mutex)
  /\ UNCHANGED <<buffer, file, torn, flusher, closer>>

-----------------------------------------------------------------------------
(* Writes                                                                    *)

\* The owner of a write goes on with the lock released.
OwnerResumes(owner, place) ==
  /\ mutex' = (IF owner = "nobody" THEN mutex ELSE "free")
  /\ where' = [w \in Crew |-> IF w = owner THEN place ELSE where[w]]
  /\ closer' = (IF owner = "closer" THEN "closed" ELSE closer)
  /\ UNCHANGED leaf

\* Mutant: the buffer is emptied only when it has been written.
MutWritten(b) ==
  /\ Append2File(b.recs) /\ writes' = writes \ {b}
  /\ OwnerResumes(b.for, "complete") /\ flusher' = (IF b.for # "flusher" THEN flusher ELSE IF flusher = "last" THEN "dead" ELSE "asleep")
  /\ buffer' = (IF b.for = "flusher" THEN b.recs ELSE buffer) /\ UNCHANGED <<tables, bounds>>

Written(b) ==
  /\ Append2File(b.recs) /\ writes' = writes \ {b}
  /\ OwnerResumes(b.for, "complete")
  /\ flusher' = (IF b.for # "flusher" THEN flusher ELSE IF flusher = "last" THEN "dead" ELSE "asleep")
  /\ UNCHANGED <<tables, buffer, bounds>>

\* The records of every page in the buffer are lost; a worker's page is done again,
\* the flusher ends without a word.
WriteFails(b) ==
  /\ troubles > 0 /\ troubles' = troubles - 1 /\ broken' = TRUE /\ UNCHANGED starts
  /\ writes' = writes \ {b} /\ missed' = missed \cup SetOf(b.recs)
  /\ OwnerResumes(b.for, "out")
  /\ flusher' = (IF b.for = "flusher" THEN "dead" ELSE flusher)
  /\ UNCHANGED <<tables, buffer, file, torn>>

-----------------------------------------------------------------------------
(* _periodic_flush, aclose, start                                            *)

\* Mutant: nothing is flushed before the buffer is full.
MutWake ==
  /\ flusher = "last" /\ mutex = "free" /\ Up
  /\ IF buffer = <<>> THEN flusher' = "dead" /\ UNCHANGED <<out, mutex>>
     ELSE Flush("flusher", buffer) /\ UNCHANGED flusher
  /\ UNCHANGED <<tables, crew, closer, bounds>>

\* The interval has passed, or the sleep was cancelled by aclose.
Wake ==
  /\ flusher \in {"asleep", "last"} /\ mutex = "free" /\ Up
  /\ IF buffer = <<>> THEN flusher = "last" /\ flusher' = "dead" /\ UNCHANGED <<out, mutex>>
     ELSE Flush("flusher", buffer) /\ flusher' = (IF flusher = "last" THEN "last" ELSE "flush")
  /\ UNCHANGED <<tables, crew, closer, bounds>>

\* Cancelling a flush leaves the write to its thread.
Close ==
  /\ closer = "off" /\ closer' = "wait"
  /\ flusher' = (IF flusher = "asleep" THEN "last" ELSE "dead")
  /\ writes' = {IF b.for = "flusher" THEN [b EXCEPT !.for = "nobody"] ELSE b : b \in writes}
  /\ mutex' = (IF mutex = "flusher" THEN "free" ELSE mutex)
  /\ UNCHANGED <<tables, crew, buffer, file, torn, missed, bounds>>

\* Mutant: aclose does not flush.
MutCloseFile ==
  /\ closer = "wait" /\ flusher = "dead" /\ mutex = "free" /\ writes = {}
  /\ closer' = "closed" /\ UNCHANGED <<out, mutex>>
  /\ UNCHANGED <<tables, crew, flusher, bounds>>

\* Closing the file waits for the thread that is writing to it.
CloseFile ==
  /\ closer = "wait" /\ flusher = "dead" /\ mutex = "free" /\ writes = {}
  /\ IF buffer = <<>> THEN closer' = "closed" /\ UNCHANGED <<out, mutex>>
     ELSE closer' = "flush" /\ Flush("closer", buffer)
  /\ UNCHANGED <<tables, crew, flusher, bounds>>

\* The process dies: what was being written may be there in part.
ProcessDies ==
  /\ Up /\ Trouble /\ closer' = "crashed"
  /\ missed' = missed \cup SetOf(buffer) \cup (UNION {SetOf(b.recs) : b \in writes})
                 \cup {TextOf(w) : w \in {v \in Crew : where[v] = "record"}}
  /\ torn' \in {torn, torn \/ writes # {}}
  /\ buffer' = <<>> /\ writes' = {} /\ mutex' = "free" /\ flusher' = "dead"
  /\ where' = [w \in Crew |-> "out"] /\ UNCHANGED <<leaf, tables, file>>

\* The next session resumes if any page was finished: the file is appended to.
\* Otherwise the tables and the file start afresh.
StartAgain ==
  /\ closer \in {"closed", "crashed"} /\ \A w \in Crew : where[w] = "out"
  /\ starts < MaxStarts /\ starts' = starts + 1 /\ UNCHANGED <<troubles, broken>>
  /\ closer' = "off" /\ flusher' = "asleep"
  /\ IF finished # {} THEN UNCHANGED <<tables, file, torn, missed>>
     ELSE hashes' = {} /\ finished' = {} /\ file' = <<>> /\ torn' = FALSE /\ missed' = {}
  /\ UNCHANGED <<crew, buffer, writes, mutex>>

-----------------------------------------------------------------------------
OutputInit ==
  /\ hashes = {} /\ finished = {} /\ where = [w \in Crew |-> "out"]
  /\ leaf = [w \in Crew |-> CHOOSE p \in Leaf : TRUE]
  /\ buffer = <<>> /\ writes = {} /\ file = <<>> /\ torn = FALSE /\ missed = {}
  /\ mutex = "free" /\ flusher = "asleep" /\ closer = "off"
  /\ starts = 1 /\ troubles = MaxTroubles /\ broken = FALSE

CrewStep ==
  \E w \in Crew : (\E p \in Leaf : Start1(w, p)) \/ AddContentHash(w) \/ WriteRecord(w) \/ Complete(w) \/ WorkerCut(w)

\* The steps of the writer itself
WriterStep == Wake \/ CloseFile \/ \E b \in writes : Written(b)

OutputNext ==
  CrewStep \/ WriterStep \/ (\E b \in writes : WriteFails(b)) \/ Close \/ ProcessDies \/ StartAgain

OutputSpec == OutputInit /\ [][OutputNext]_output

FairOutputSpec == OutputSpec /\ WF_output(WriterStep)

-----------------------------------------------------------------------------
\* Everywhere a record may be
Copies(c) ==
  LET in(s) == Cardinality({k \in DOMAIN s : s[k] = c})
      batch == {b \in writes : c \in SetOf(b.recs)}
  IN in(buffer) + in(file) + Cardinality(batch)

\* Content that was hashed has its record once - in the hands of the worker that
\* hashed it, in the buffer, in a thread or in the file - or it is lost to a
\* cancellation, a failed write, a crash, or a writer already closed; no retry, no
\* second page with the same text and no restart writes it twice.
RecordOnce ==
  \A c \in Content \ {Blank} :
    /\ Copies(c) <= 1
    /\ c \in hashes => Copies(c) = 1 \/ c \in missed \/ \E w \in Crew : where[w] = "record" /\ TextOf(w) = c

\* Completed pages were hashed, and a writer that was closed has nothing left.
CompletedIsOut ==
  /\ \A p \in finished : ContentOf[p] \in hashes \cup {Blank}
  /\ closer = "closed" => buffer = <<>> /\ writes = {}

\* A record does not stay in the buffer, unless a failed write ended the flusher.
BufferDrains == buffer # <<>> ~> buffer = <<>> \/ broken

\* Both: what is completed is written, once.
OutputKept == RecordOnce /\ CompletedIsOut

=============================================================================
