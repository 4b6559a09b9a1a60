--------------------------- MODULE FieldExtraction ---------------------------
(***************************************************************************)
(* The extraction of a page's fields by a rule (rules/_extractor.py).  A   *)
(* pool of threads does it, one page each, selector after selector; who    *)
(* asked waits for a limited time.  What waits in the pool's queue can be  *)
(* taken back, what a thread works on can not.                             *)
(***************************************************************************)
EXTENDS Naturals, Sequences, FiniteSets, SequencesExt

CONSTANTS
  Job,         \* pages given to the pool
  FieldSets,   \* the fields of a rule: sequences of [selectors, multiple], selectors [css, extract]
  FindsOnPage, \* what a selector finds: value, blank, nothing, or that it raises
  PoolThreads, \* threads of the pool
  FallbackDepth  \* MAX_FALLBACK_DEPTH: selectors of a field that are tried

\* A field has a main selector; the others of its list are its fallbacks.
HasSelectors(f) == f.selectors \in Seq(ToSet(f.selectors)) \ {<<>>}

ASSUME ExtractionAssumption ==
  /\ {PoolThreads, FallbackDepth} \subseteq Nat \ {0} /\ IsFiniteSet(Job)
  /\ \A fs \in FieldSets : fs \in Seq(ToSet(fs)) /\ \A i \in DOMAIN fs : HasSelectors(fs[i])

VARIABLES
  fieldsOf,  \* the rule of each page
  job,       \* of each page: at, where its thread is, and the values so far
  asker,     \* of each page: who asked waits, has an answer, or is gone
  wasted       \* ghost: a thread began what nobody waits for

extraction == <<fieldsOf, job, asker, wasted>>

NoJob == [at |-> "none", field |-> 1, try |-> 1, values |-> <<>>]

ExtractionInit ==
  /\ fieldsOf \in [Job -> FieldSets]
  /\ job = [j \in Job |-> NoJob] /\ asker = [j \in Job |-> "none"] /\ wasted = FALSE

-----------------------------------------------------------------------------
(* One selector                                                              *)

\* _extract_value: an attribute that is there and blank counts as there, a blank text not.
ValueOf(found, extract) ==
  CASE found = "value" -> "value" [] found = "blank" /\ extract = "attr" -> "blank" [] OTHER -> "null"

\* _try_select: of many elements those with a value; an error is no value.
TrySelect(selector, multiple) ==
  LET found == FindsOnPage[selector.css]
  IN CASE found = "raises" -> "null"
       [] found # "raises" /\ multiple -> IF found = "value" THEN "value" ELSE "empty"
       [] OTHER -> ValueOf(found, selector.extract)

\* _is_non_empty
NonEmpty(v) == v \notin {"null", "empty", "blank"}

\* Which selectors of a field can be tried, the main one first: an empty one is passed over.
Tried(f) == {i \in DOMAIN f.selectors : i <= FallbackDepth /\ f.selectors[i].css # ""}

-----------------------------------------------------------------------------
(* Who asks                                                                  *)

\* extract_fields_from_soup; a page without text and a rule without fields ask nothing.
AskPool(j) ==
  /\ asker[j] = "none" /\ UNCHANGED <<fieldsOf, wasted>>
  /\ IF fieldsOf[j] = <<>> THEN asker' = [asker EXCEPT ![j] = "nothing"] /\ UNCHANGED job
     ELSE asker' = [asker EXCEPT ![j] = "waits"] /\ job' = [job EXCEPT ![j].at = "queued"]

\* The answer, and then the next page.
Told(j) ==
  /\ asker[j] = "waits" /\ job[j].at = "done" /\ asker' = [asker EXCEPT ![j] = "told"]
  /\ UNCHANGED <<fieldsOf, job, wasted>>

\* The time is up: the rule's fields are empty.  Or the page itself is given up.
TakenBack(at) == IF at = "queued" THEN "cancelled" ELSE at
GiveUp(j) ==
  /\ asker[j] = "waits" /\ job[j].at # "done" /\ asker' \in {[asker EXCEPT ![j] = r] : r \in {"nothing", "gone"}}
  /\ job' = [job EXCEPT ![j].at = TakenBack(@)] /\ UNCHANGED <<fieldsOf, wasted>>

\* The next page in the same place, when the last is out of the pool
NextPage(j) ==
  /\ asker[j] \in {"told", "nothing", "gone"} /\ job[j].at \in {"none", "done", "cancelled"}
  /\ asker' = [asker EXCEPT ![j] = "none"] /\ job' = [job EXCEPT ![j] = NoJob] /\ UNCHANGED <<fieldsOf, wasted>>

-----------------------------------------------------------------------------
(* The threads                                                               *)

AtWork == {j \in Job : job[j].at = "running"}

\* A thread takes what was not taken back.
StartJob(j) ==
  /\ job[j].at = "queued" /\ Cardinality(AtWork) < PoolThreads
  /\ job' = [job EXCEPT ![j].at = "running"] /\ wasted' = (wasted \/ asker[j] # "waits")
  /\ UNCHANGED <<fieldsOf, asker>>

\* _extract_single_field, one selector of it: the first value that is not empty ends the
\* field, and so does the last selector, with what it found.  No main selector, no value.
TryNext(j) ==
  /\ job[j].at = "running" /\ UNCHANGED <<fieldsOf, asker, wasted>>
  /\ LET f == fieldsOf[j][job[j].field]
         later == {k \in Tried(f) : k > job[j].try}
         none == f.selectors[1].css = ""
         v == IF none THEN "null" ELSE TrySelect(f.selectors[job[j].try], f.multiple)
     IN IF none \/ NonEmpty(v) \/ later = {}
        THEN job' = [job EXCEPT ![j] =
               [at |-> IF @.field = Len(fieldsOf[j]) THEN "done" ELSE "running", field |-> @.field + 1, try |-> 1,
                values |-> Append(@.values, v)]]
        ELSE job' = [job EXCEPT ![j].try = Min(later)]

ExtractionNext == \E j \in Job : AskPool(j) \/ Told(j) \/ GiveUp(j) \/ NextPage(j) \/ StartJob(j) \/ TryNext(j)
ExtractionSpec == ExtractionInit /\ [][ExtractionNext]_extraction

ExtractionTypeOK ==
  /\ \A j \in Job : job[j].at \in {"none", "queued", "running", "done", "cancelled"}
  /\ \A j \in Job : asker[j] \in {"none", "waits", "told", "nothing", "gone"}
  /\ wasted \in BOOLEAN

-----------------------------------------------------------------------------
\* The value of a field: what the first of its selectors to find anything finds; if none
\* does, nothing that counts.
Wanted(f) ==
  /\ f.selectors[1].css # ""
  /\ \E i \in DOMAIN f.selectors : i <= FallbackDepth /\ f.selectors[i].css # "" /\ FindsOnPage[f.selectors[i].css] = "value"

\* Who gets an answer gets one for every field, with a value wherever one of the field's
\* selectors has one on the page, whatever the pool did before.
FieldsComplete ==
  \A j \in Job : asker[j] = "told" =>
    /\ Len(job[j].values) = Len(fieldsOf[j])
    /\ \A i \in DOMAIN fieldsOf[j] : NonEmpty(job[j].values[i]) <=> Wanted(fieldsOf[j][i])

\* A thread begins nothing that nobody waits for, and there are no more than the pool has:
\* what ran out of time in the queue takes no thread from the others.
PoolKept == ~wasted /\ Cardinality(AtWork) <= PoolThreads

\* What is handed over is complete, and the pool is never busy with what nobody awaits
\* but for what a thread had begun.
ExtractionSound == FieldsComplete /\ PoolKept
=============================================================================
