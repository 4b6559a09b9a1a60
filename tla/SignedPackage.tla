---------------------------- MODULE SignedPackage ----------------------------
(***************************************************************************)
(* Whether an installed plugin is what its author signed (astroframe/      *)
(* _signature.py).  What is signed is the wheel, which is looked for in    *)
(* the cache of the package manager; what will run is the installed tree,  *)
(* which is hashed before and after.  Packages are installed, caches       *)
(* purged and networks lost while the check goes on.                       *)
(***************************************************************************)
EXTENDS Naturals, FiniteSets, FiniteSetsExt

CONSTANTS
  Signings,    \* what manifests say of their signature: [method, key]
  WheelCount,  \* wheels of the package, from the oldest
  SignedBy,    \* a wheel's signature: [key, logged, file], file the suffix beside it or "none"
  SideFiles,   \* signature files in the package's own directory: [file, key, of], file "none" for none
  NoHash, NoPin,
  MaxChanges   \* bound: what others do to the package and the cache

ASSUME SignatureAssumption ==
  /\ WheelCount \in Nat /\ MaxChanges \in Nat /\ NoHash # NoPin
  /\ SignedBy \in [1 .. WheelCount -> [key : STRING, logged : BOOLEAN, file : STRING]]

Wheel == 1 .. WheelCount
NoWheel == 0

VARIABLES
  tree,    \* the installed files: build (0: not there), others, docs, editable, hashable, side
  wheels,  \* wheels in the cache
  pin,     \* a hash somebody trusted
  check,   \* the check under way, or its outcome
  began,   \* ghost: the tree as the check began
  calm,    \* ghost: nothing changed and nothing failed since
  upheavals

signed == <<tree, wheels, pin, check, began, calm, upheavals>>

\* validate_signing_field
ValidSigning(s) ==
  \/ s.method \in {"none", "unsigned"}
  \/ s.method \in {"sigstore", "gpg"} /\ s.key \notin {"missing", "malformed"}

\* compute_package_hash: of everything beneath the directory the package lies in, with the
\* packages beside it; an editable one without its tests and docs.
Hash(t) ==
  IF t.build = 0 \/ ~t.hashable THEN NoHash
  ELSE <<t.build, t.others, IF t.editable THEN 0 ELSE t.docs>>

SignedInit ==
  /\ \E e \in BOOLEAN, s \in SideFiles :
       tree = [build |-> 1, others |-> 1, docs |-> 1, editable |-> e, hashable |-> TRUE, side |-> s]
  /\ wheels \in SUBSET Wheel /\ pin = NoPin
  /\ check = [step |-> "idle"] /\ began = tree /\ calm = TRUE /\ upheavals = 0

-----------------------------------------------------------------------------
(* The check                                                                 *)

Checking(from) == check.step = from /\ UNCHANGED <<tree, wheels, pin, upheavals>>
Outcome(outcome, why) == [step |-> "done", outcome |-> outcome, why |-> why, signing |-> check.signing, ended |-> tree]
Verdict(outcome, why) == check' = Outcome(outcome, why)

\* A pin answers at once, whatever the manifest says of signatures.
BeginPinned(s) ==
  /\ Checking("idle") /\ ValidSigning(s) /\ pin # NoPin
  /\ check' = [step |-> "done", outcome |-> IF Hash(tree) # NoHash /\ Hash(tree) = pin THEN "verified" ELSE "unverified",
               why |-> "pin", signing |-> s, ended |-> tree]
  /\ began' = tree /\ calm' = TRUE

\* The tree is hashed before the verifier of the method is called; the one for unsigned
\* plugins looks at nothing.
BeginCheck(s) ==
  /\ Checking("idle") /\ ValidSigning(s)
  /\ LET method == IF s.method = "none" THEN "unsigned" ELSE s.method
     IN check' = IF tree.build = 0
                 THEN [step |-> "done", outcome |-> "error", why |-> "package", signing |-> s, ended |-> tree]
                 ELSE [step |-> IF method = "unsigned" THEN "after" ELSE "look", signing |-> s, wheel |-> NoWheel,
                       sig |-> "none", before |-> Hash(tree), outcome |-> "unverified"]
  /\ began' = tree /\ calm' = TRUE

\* _find_wheel_in_pip_cache: any the package manager lists; else the newest of the directory
\* it names.  Either call may fail or run out of time.
FindsWheel(listed, dirKnown) ==
  IF listed /\ wheels # {} THEN wheels
  ELSE IF dirKnown /\ wheels # {} THEN {Max(wheels)} ELSE {NoWheel}

\* _find_gpg_signature_and_data: of each suffix the one beside the wheel comes first.
FindsSignature(w) ==
  LET Beside(x) == w # NoWheel /\ SignedBy[w].file = x
      Own(x) == tree.side.file = x
  IN CASE Beside("asc") -> "wheel" [] Own("asc") -> "side" [] Beside("sig") -> "wheel" [] Own("sig") -> "side" [] OTHER -> "none"

\* The tool may not be there at all.
Look ==
  /\ Checking("look") /\ UNCHANGED began
  /\ \/ Verdict("error", "tool") /\ calm' = FALSE
     \/ \E listed, dirKnown \in BOOLEAN : \E w \in FindsWheel(listed, dirKnown) :
          LET sig == IF check.signing.method = "gpg" THEN FindsSignature(w) ELSE "bundle"
          IN /\ check' = [check EXCEPT !.step = IF w = NoWheel \/ sig = "none" THEN "after" ELSE "open", !.wheel = w, !.sig = sig]
             /\ calm' = (calm /\ listed)

\* What was found is looked for again before the tool is started, and may go in between.
OpenFiles ==
  /\ Checking("open") /\ UNCHANGED <<began, calm>>
  /\ check' = [check EXCEPT !.step = IF check.wheel \in wheels THEN "run" ELSE "after"]

\* The key the signature was made with, if it is one of this wheel
Signer(w, sig) ==
  IF sig = "side" THEN (IF tree.side.of = w THEN tree.side.key ELSE "none") ELSE SignedBy[w].key

\* sigstore_verify, the identity of the certificate and the entry in the log; or gpg and
\* the fingerprint, of which one runs out of time, and the other loses the network.
RunTool ==
  /\ Checking("run") /\ UNCHANGED began
  /\ \/ Verdict("error", "tool") /\ calm' = FALSE
     \/ check' = [check EXCEPT !.step = "after"] /\ calm' = FALSE
     \/ LET w == check.wheel
            good == /\ w \in wheels /\ Signer(w, check.sig) = check.signing.key
                    /\ check.signing.method = "sigstore" => SignedBy[w].logged
        IN check' = [check EXCEPT !.step = "after", !.outcome = IF good THEN "verified" ELSE "unverified"] /\ UNCHANGED calm

\* The tree is hashed again.
HashAgain ==
  /\ Checking("after") /\ UNCHANGED <<began, calm>>
  /\ IF check.before # NoHash /\ Hash(tree) # NoHash /\ check.before # Hash(tree)
     THEN Verdict("unverified", "changed") ELSE Verdict(check.outcome, "signature")

Taken == Checking("done") /\ check' = [step |-> "idle"] /\ UNCHANGED <<began, calm>>

-----------------------------------------------------------------------------
(* The others                                                                *)

Upheaval == upheavals < MaxChanges /\ upheavals' = upheavals + 1 /\ calm' = FALSE /\ UNCHANGED <<check, began>>

\* Who trusts a package keeps its hash.
Pin == /\ check.step = "idle" /\ Hash(tree) # NoHash /\ pin' = Hash(tree) /\ upheavals < MaxChanges /\ upheavals' = upheavals + 1
       /\ UNCHANGED <<tree, wheels, check, began, calm>>
Unpin == pin # NoPin /\ check.step = "idle" /\ pin' = NoPin /\ UNCHANGED <<tree, wheels, check, began, calm, upheavals>>

Install == /\ Upheaval /\ \E b \in 0 .. 2 : b # tree.build /\ tree' = [tree EXCEPT !.build = b]
           /\ UNCHANGED <<wheels, pin>>
InstallOther == Upheaval /\ tree' = [tree EXCEPT !.others = 3 - @] /\ UNCHANGED <<wheels, pin>>
EditDocs == Upheaval /\ tree' = [tree EXCEPT !.docs = 3 - @] /\ UNCHANGED <<wheels, pin>>
\* A file that cannot be read, or too many of them
Overflow == Upheaval /\ tree' = [tree EXCEPT !.hashable = ~@] /\ UNCHANGED <<wheels, pin>>
Cache(w) == Upheaval /\ wheels' = (wheels \cup {w}) \ (wheels \cap {w}) /\ UNCHANGED <<tree, pin>>

SignedNext ==
  \/ \E s \in Signings : BeginPinned(s) \/ BeginCheck(s)
  \/ Look \/ OpenFiles \/ RunTool \/ HashAgain \/ Taken
  \/ Pin \/ Unpin \/ Install \/ InstallOther \/ EditDocs \/ Overflow
  \/ \E w \in Wheel : Cache(w)

SignedSpec == SignedInit /\ [][SignedNext]_signed

SignedTypeOK ==
  /\ tree.build \in 0 .. 2 /\ tree.others \in 1 .. 2 /\ tree.docs \in 1 .. 2
  /\ wheels \subseteq Wheel /\ check.step \in {"idle", "look", "open", "run", "after", "done"}
  /\ check.step = "done" => check.outcome \in {"verified", "unverified", "error"}

-----------------------------------------------------------------------------
VerdictBy(why) == check.step = "done" /\ check.why = why

\* What a key and a log say of a wheel
Attested(s, w) ==
  \/ s.method = "sigstore" /\ SignedBy[w].logged /\ SignedBy[w].key = s.key
  \/ s.method = "gpg" /\ FindsSignature(w) # "none" /\ Signer(w, FindsSignature(w)) = s.key

\* Nothing is verified by a signature while its files change: they are those the check
\* began with, as far as both could be hashed; and by a pin only what was pinned.
SameFiles ==
  /\ VerdictBy("signature") /\ check.outcome = "verified" => NoHash \in {Hash(began), Hash(check.ended)} \/ Hash(began) = Hash(check.ended)
  /\ VerdictBy("pin") => (check.outcome = "verified" <=> Hash(check.ended) # NoHash /\ Hash(check.ended) = pin)

\* Where nothing changed and nothing failed, the answer is what the wheels attest: verified
\* where all do, not verified where none does, and no error.
AnswerAttested ==
  VerdictBy("signature") /\ calm =>
    /\ check.outcome = "verified" => \E w \in wheels : Attested(check.signing, w)
    /\ wheels # {} /\ (\A w \in wheels : Attested(check.signing, w)) => check.outcome = "verified"

\* An error says that the tool or the package is missing, never what a signature is worth.
ErrorsAreOurs == check.step = "done" /\ check.outcome = "error" => ~calm \/ check.ended.build = 0

SignatureSound == SameFiles /\ AnswerAttested /\ ErrorsAreOurs
=============================================================================
