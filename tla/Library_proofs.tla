---------------------------- MODULE Library_proofs ----------------------------
(*****************************************************************************)
(* Proofs about the collection of a user: its import, its rows, pools and    *)
(* tags, the fixes of its smells, and the jobs a client polls.               *)
(*****************************************************************************)
EXTENDS Pools, Tags, Smells, ImportPipeline, JobViews, LibraryQuery, Counting_proofs

---------------------------------------------------------------------------
(* The import of a collection. *)

\* What holds of an import for any number of items, goroutines and mishaps: it is not
\* finalized while its upload streams, and its pools and events come from whoever
\* finalized it.
\* Neither is inductive.  The gate rests on there being one upload, since only the
\* absence of the row lets one begin; the counts rest on counting also the goroutines
\* that have finalized and not yet applied or emitted.

Streaming == {w \in Workers : imAt[w] = "stream"}
Applying  == {w \in Workers : imAt[w] = "pools"}
Finishing == {w \in Workers : imAt[w] \in {"pools", "emit"}}

AtTyped == imAt = [w \in Workers |-> imAt[w]]

\* One upload, begun over an absent row.
OneUpload ==
    /\ imStatus = "absent" => Streaming = {}
    /\ \A v, w \in Streaming : v = w

\* A finalization is still to be used, or has been used once.
Counted ==
    /\ imFinals \in Nat /\ imEvents \in Nat /\ imPoolRuns \in Nat
    /\ imPoolRuns + Cardinality(Applying) <= imFinals
    /\ imKind = "generic" => imEvents + Cardinality(Finishing) <= imFinals

GateInv == AtTyped /\ OneUpload /\ ImportGateHolds

CountInv == AtTyped /\ Counted

\* w moves to a label at which nothing is at stake.
Quiet(w) ==
    \/ UNCHANGED imAt
    \/ \E l : l \notin {"stream", "pools", "emit"} /\ imAt' = [imAt EXCEPT ![w] = l]

\* A step of w that is neither an upload's beginning or end nor in the
\* completion check after its UPDATE.
QuietSteps(w) ==
    \/ InsertItem(w) \/ PassOverMalformed(w) \/ EnqueueFinalize(w) \/ MarkItem(w)
    \/ MarkNothing(w) \/ GiveUpCheck(w)
    \/ CountPending(w) \/ CountActive(w) \/ CountReview(w)
    \/ ResolveItem(w) \/ RetryItem(w) \/ RetryFailed(w) \/ Reopen(w) \/ RetryInsert(w)
    \/ CancelImport(w) \/ CancelImportTasks(w)
    \/ StartRetryFailed(w) \/ StartCancelImport(w)
    \/ \E i \in Items :
          \/ StartResolve(w, i) \/ StartSkip(w, i) \/ StartRetryItem(w, i)
          \/ StartMatch(w, i) \/ MarkPendingReview(w, i) \/ StartFinalize(w, i) \/ StartItem(w, i)

\* Such a step completes no job, opens no gate, and applies and emits nothing.
Harmless ==
    /\ UNCHANGED <<imKind, imGate, imFinals, imEvents, imPoolRuns>>
    /\ imStatus' = imStatus \/ imStatus' \notin {"absent", "completed"}

LEMMA QuietOnes ==
  ASSUME NEW w \in Workers, QuietSteps(w)
  PROVE  Quiet(w) /\ Harmless
<1> USE DEF imJob, imHist
<1>1. CASE InsertItem(w) \/ PassOverMalformed(w) \/ EnqueueFinalize(w)
  BY <1>1 DEF InsertItem, PassOverMalformed, EnqueueFinalize, Go, Quiet, Harmless
<1>2. CASE MarkItem(w) \/ CountPending(w) \/ CountActive(w) \/ CountReview(w)
  BY <1>2 DEF MarkItem, CountPending, CountActive, CountReview, Go, Quiet, Harmless
<1>9. CASE MarkNothing(w) \/ GiveUpCheck(w)
  BY <1>9 DEF MarkNothing, GiveUpCheck, Go, Quiet, Harmless
<1>3. CASE ResolveItem(w) \/ RetryItem(w) \/ RetryFailed(w)
  BY <1>3 DEF ResolveItem, RetryItem, RetryFailed, Go, Quiet, Harmless
<1>4. CASE Reopen(w) \/ RetryInsert(w) \/ CancelImport(w) \/ CancelImportTasks(w)
  BY <1>4 DEF Reopen, RetryInsert, CancelImport, CancelImportTasks, Go, Quiet, Harmless
<1>5. CASE StartRetryFailed(w) \/ StartCancelImport(w)
  BY <1>5 DEF StartRetryFailed, StartCancelImport, TakeUp, Quiet, Harmless
<1>6. ASSUME NEW i \in Items, StartResolve(w, i) \/ StartSkip(w, i) \/ StartRetryItem(w, i)
      PROVE  Quiet(w) /\ Harmless
  BY <1>6 DEF StartResolve, StartSkip, StartRetryItem, TakeUp, Quiet, Harmless
<1>7. ASSUME NEW i \in Items, StartMatch(w, i) \/ MarkPendingReview(w, i)
      PROVE  Quiet(w) /\ Harmless
  BY <1>7 DEF StartMatch, MarkPendingReview, TakeUp, Quiet, Harmless
<1>8. ASSUME NEW i \in Items, StartFinalize(w, i) \/ StartItem(w, i)
      PROVE  Quiet(w) /\ Harmless
  BY <1>8 DEF StartFinalize, StartItem, TakeUp, Quiet, Harmless
<1> QED BY <1>1, <1>2, <1>3, <1>4, <1>5, <1>6, <1>7, <1>8, <1>9 DEF QuietSteps

\* Every step is one of these.
LEMMA AllSteps ==
  ASSUME [ImportNext]_importVars
  PROVE  \/ \E w \in Workers :
               \/ QuietSteps(w) \/ Upload(w) \/ UploadExport(w) \/ EndUpload(w)
               \/ FinalizeImport(w) \/ ApplyPools(w) \/ EmitDone(w)
         \/ \E i \in Items : RescueItem(i) \/ \E k : LoseTask(k, i)
         \/ CrashImport
         \/ UNCHANGED importVars
<1>1. ASSUME NEW w \in Workers, ContinueImport(w)
      PROVE  QuietSteps(w) \/ EndUpload(w) \/ FinalizeImport(w) \/ ApplyPools(w) \/ EmitDone(w)
  BY <1>1, Zenon DEF ContinueImport, QuietSteps
<1>2. ASSUME NEW w \in Workers, UserRequest(w)
      PROVE  QuietSteps(w) \/ Upload(w) \/ UploadExport(w)
  BY <1>2, Zenon DEF UserRequest, QuietSteps
<1>3. ASSUME NEW i \in Items, RunTask(i)
      PROVE  \E w \in Workers : QuietSteps(w)
  BY <1>3, Zenon DEF RunTask, QuietSteps
<1> QED BY <1>1, <1>2, <1>3, Zenon DEF ImportNext

\* Where the UPDATE leads.
LEMMA FinalizeGoes ==
  ASSUME NEW w \in Workers, FinalizeImport(w)
  PROVE  \E l \in {"pools", "emit", "idle"} : imAt' = [imAt EXCEPT ![w] = l]
<1> DEFINE done == imActive /\ (imKind = "generic" => imGate)
           l == IF done /\ imPools = "stashed" THEN "pools"
                ELSE IF done \/ imKind = "nexorious" THEN "emit" ELSE "idle"
<1>1. imAt' = [imAt EXCEPT ![w] = l]
  BY Zenon DEF FinalizeImport, Go
<1>2. l \in {"pools", "emit", "idle"}
  OBVIOUS
<1> HIDE DEF l
<1> QED BY <1>1, <1>2

---------------------------------------------------------------------------
(* The gate. *)

\* Where nobody begins to stream, at most the old one streams on.
LEMMA QuietGate ==
  ASSUME GateInv, NEW w \in Workers, Quiet(w), Harmless
  PROVE  GateInv'
<1>1. AtTyped'
  BY DEF GateInv, AtTyped, Quiet
<1>2. Streaming' \subseteq Streaming
  BY DEF GateInv, AtTyped, Quiet, Streaming
<1>3. OneUpload'
  BY <1>2 DEF GateInv, OneUpload, Harmless
<1>4. ImportGateHolds'
  BY <1>2 DEF GateInv, ImportGateHolds, Harmless, Here, Streaming
<1> QED BY <1>1, <1>3, <1>4 DEF GateInv

LEMMA GateInit == ImportInit => GateInv
BY DEF ImportInit, GateInv, AtTyped, OneUpload, Streaming, ImportGateHolds, Here

LEMMA GateStep == GateInv /\ [ImportNext]_importVars => GateInv'
<1> SUFFICES ASSUME GateInv, [ImportNext]_importVars
             PROVE  GateInv'
  OBVIOUS
<1> USE DEF GateInv
<1>1. ASSUME NEW w \in Workers, QuietSteps(w)
      PROVE  GateInv'
  BY <1>1, QuietOnes, QuietGate
<1>2. ASSUME NEW w \in Workers, Upload(w) \/ UploadExport(w)
      PROVE  GateInv'
  <2>1. Streaming = {} /\ imAt' = [imAt EXCEPT ![w] = "stream"] /\ imStatus' # "absent"
        /\ imKind' = imKind /\ (imKind = "generic" => ~imGate' /\ imStatus' # "completed")
    BY <1>2 DEF Upload, UploadExport, TakeUp, OneUpload
  <2>2. AtTyped' /\ Streaming' = {w}
    BY <2>1 DEF AtTyped, Streaming
  <2> QED BY <2>1, <2>2 DEF OneUpload, ImportGateHolds, Here
<1>3. ASSUME NEW w \in Workers, EndUpload(w)
      PROVE  GateInv'
  <2>1. PICK l \in {"count", "idle"} : imAt' = [imAt EXCEPT ![w] = l]
    BY <1>3 DEF EndUpload, Go
  <2>2. AtTyped' /\ w \in Streaming /\ Streaming' = Streaming \ {w}
    BY <2>1, <1>3 DEF AtTyped, Streaming, EndUpload, Here
  <2>3. Streaming' = {}
    BY <2>2 DEF OneUpload
  <2> QED BY <2>2, <2>3 DEF OneUpload, ImportGateHolds, Here, Streaming
<1>4. ASSUME NEW w \in Workers, FinalizeImport(w)
      PROVE  GateInv'
  <2>1. PICK l \in {"pools", "emit", "idle"} : imAt' = [imAt EXCEPT ![w] = l]
    BY <1>4, FinalizeGoes
  <2>2. AtTyped' /\ Streaming' \subseteq Streaming
    BY <2>1 DEF AtTyped, Streaming
  <2>3. /\ imKind' = imKind /\ imGate' = imGate
        /\ \/ imStatus' = imStatus
           \/ imStatus # "absent" /\ imStatus' = "completed" /\ (imKind = "generic" => imGate)
    BY <1>4 DEF FinalizeImport, imActive
  <2>4. OneUpload'
    BY <2>2, <2>3 DEF OneUpload
  <2>5. ImportGateHolds'
    BY <2>2, <2>3 DEF ImportGateHolds, Here, Streaming
  <2> QED BY <2>2, <2>4, <2>5
<1>5. ASSUME NEW w \in Workers, ApplyPools(w) \/ EmitDone(w)
      PROVE  GateInv'
  <2>1. PICK l \in {"emit", "idle"} : imAt' = [imAt EXCEPT ![w] = l]
    BY <1>5 DEF ApplyPools, EmitDone, Go
  <2>2. UNCHANGED imJob
    BY <1>5 DEF ApplyPools, EmitDone
  <2>3. AtTyped' /\ Streaming' \subseteq Streaming
    BY <2>1 DEF AtTyped, Streaming
  <2> QED BY <2>2, <2>3 DEF imJob, OneUpload, ImportGateHolds, Here, Streaming
<1>6. ASSUME NEW i \in Items, NEW k, RescueItem(i) \/ LoseTask(k, i)
      PROVE  GateInv'
  BY <1>6 DEF RescueItem, LoseTask, imJob, imLocal, AtTyped, OneUpload, Streaming, ImportGateHolds, Here
<1>7. CASE CrashImport
  <2>1. AtTyped' /\ Streaming' = {}
    BY <1>7 DEF CrashImport, AtTyped, Streaming
  <2> QED BY <2>1 DEF OneUpload, ImportGateHolds, Here, Streaming
<1>8. CASE UNCHANGED importVars
  BY <1>8 DEF importVars, imJob, imLocal, AtTyped, OneUpload, Streaming, ImportGateHolds, Here
<1> QED BY <1>1, <1>2, <1>3, <1>4, <1>5, <1>6, <1>7, <1>8, AllSteps

(* "The completion check refuses to finalize while dispatch is in flight":  *)
(* finalizeJobCompleted's UPDATE asks for the gate, which enqueueImportJob  *)
(* opens only after the last insert, whatever else happens to the job.      *)
THEOREM ImportGate == ImportSpec => []ImportGateHolds
<1>1. ImportInit => GateInv
  BY GateInit
<1>2. GateInv /\ [ImportNext]_importVars => GateInv'
  BY GateStep
<1>3. GateInv => ImportGateHolds
  BY DEF GateInv
<1> QED BY <1>1, <1>2, <1>3, PTL DEF ImportSpec

---------------------------------------------------------------------------
(* The counts. *)

LEMMA Countable ==
  ASSUME NEW S \in SUBSET Workers
  PROVE  IsFiniteSet(S) /\ Cardinality(S) \in Nat
BY ImportAssumption, FS_Subset, FS_CardinalityType

LEMMA FewerCount ==
  ASSUME NEW T \in SUBSET Workers, NEW S \in SUBSET T
  PROVE  Cardinality(S) <= Cardinality(T)
BY Countable, FS_Subset, FS_CardinalityType

LEMMA OneMore ==
  ASSUME NEW S \in SUBSET Workers, NEW w \in Workers
  PROVE  Cardinality(S \cup {w}) <= Cardinality(S) + 1
BY Countable, FS_AddElement

LEMMA OneLess ==
  ASSUME NEW S \in SUBSET Workers, NEW w \in S
  PROVE  Cardinality(S \ {w}) = Cardinality(S) - 1
BY Countable, FS_RemoveElement

LEMMA QuietCount ==
  ASSUME CountInv, AtTyped',
         Applying' \subseteq Applying, Finishing' \subseteq Finishing,
         UNCHANGED <<imKind, imFinals, imEvents, imPoolRuns>>
  PROVE  CountInv'
<1>1. Cardinality(Applying') <= Cardinality(Applying)
  BY FewerCount DEF Applying
<1>2. Cardinality(Finishing') <= Cardinality(Finishing)
  BY FewerCount DEF Finishing
<1>3. /\ Applying \subseteq Workers /\ Applying' \subseteq Workers
      /\ Finishing \subseteq Workers /\ Finishing' \subseteq Workers
  BY DEF Applying, Finishing
<1> DEFINE a == Cardinality(Applying)  a2 == Cardinality(Applying')
           f == Cardinality(Finishing) f2 == Cardinality(Finishing')
<1>4. a \in Nat /\ a2 \in Nat /\ f \in Nat /\ f2 \in Nat
  BY <1>3, Countable
<1> HIDE DEF a, a2, f, f2
<1>5. /\ imFinals' \in Nat /\ imEvents' \in Nat /\ imPoolRuns' \in Nat
      /\ imPoolRuns' + a2 <= imFinals'
      /\ imKind' = "generic" => imEvents' + f2 <= imFinals'
  BY <1>1, <1>2, <1>4 DEF CountInv, Counted, a, a2, f, f2
<1> QED BY <1>5 DEF CountInv, Counted, a2, f2

LEMMA CountInit == ImportInit => CountInv
<1> SUFFICES ASSUME ImportInit PROVE CountInv
  OBVIOUS
<1>1. AtTyped /\ Applying = {} /\ Finishing = {}
  BY DEF ImportInit, AtTyped, Applying, Finishing
<1>2. Cardinality({}) = 0
  BY FS_EmptySet
<1> QED BY <1>1, <1>2 DEF ImportInit, CountInv, Counted


LEMMA CountStep == CountInv /\ [ImportNext]_importVars => CountInv'
<1> SUFFICES ASSUME CountInv, [ImportNext]_importVars
             PROVE  CountInv'
  OBVIOUS
<1> DEFINE a == Cardinality(Applying)  a2 == Cardinality(Applying')
           f == Cardinality(Finishing) f2 == Cardinality(Finishing')
<1>a. /\ Applying \subseteq Workers /\ Applying' \subseteq Workers
      /\ Finishing \subseteq Workers /\ Finishing' \subseteq Workers
  BY DEF Applying, Finishing
<1>b. a \in Nat /\ a2 \in Nat /\ f \in Nat /\ f2 \in Nat
  BY <1>a, Countable
<1>c. /\ AtTyped /\ imFinals \in Nat /\ imEvents \in Nat /\ imPoolRuns \in Nat
      /\ imPoolRuns + a <= imFinals
      /\ imKind = "generic" => imEvents + f <= imFinals
  BY DEF CountInv, Counted
<1>1. ASSUME NEW w \in Workers, QuietSteps(w)
      PROVE  CountInv'
  <2>1. Quiet(w) /\ Harmless
    BY <1>1, QuietOnes
  <2>2. AtTyped' /\ Applying' \subseteq Applying /\ Finishing' \subseteq Finishing
    BY <2>1, <1>c DEF AtTyped, Quiet, Applying, Finishing
  <2> QED BY <2>1, <2>2, QuietCount DEF Harmless
<1>2. ASSUME NEW w \in Workers, Upload(w) \/ UploadExport(w) \/ EndUpload(w)
      PROVE  CountInv'
  <2>1. PICK l \in {"stream", "count", "idle"} : imAt' = [imAt EXCEPT ![w] = l]
    BY <1>2 DEF Upload, UploadExport, EndUpload, TakeUp, Go
  <2>2. AtTyped' /\ Applying' \subseteq Applying /\ Finishing' \subseteq Finishing
    BY <2>1, <1>c DEF AtTyped, Applying, Finishing
  <2>3. UNCHANGED <<imKind, imFinals, imEvents, imPoolRuns>>
    BY <1>2 DEF Upload, UploadExport, EndUpload, imHist
  <2> QED BY <2>2, <2>3, QuietCount
<1>3. ASSUME NEW w \in Workers, FinalizeImport(w)
      PROVE  CountInv'
  <2>1. PICK l \in {"pools", "emit", "idle"} : imAt' = [imAt EXCEPT ![w] = l]
    BY <1>3, FinalizeGoes
  <2>2. /\ AtTyped'
        /\ Applying' \subseteq Applying \cup {w} /\ Finishing' \subseteq Finishing \cup {w}
    BY <2>1, <1>c DEF AtTyped, Applying, Finishing
  <2>3. UNCHANGED <<imKind, imEvents, imPoolRuns>>
    BY <1>3 DEF FinalizeImport
  <2>4. CASE imFinals' = imFinals + 1
    <3>1. Cardinality(Applying \cup {w}) <= a + 1 /\ Cardinality(Finishing \cup {w}) <= f + 1
      BY <1>a, OneMore
    <3>2. a2 <= Cardinality(Applying \cup {w}) /\ f2 <= Cardinality(Finishing \cup {w})
      BY <2>2, <1>a, FewerCount
    <3>3. /\ Cardinality(Applying \cup {w}) \in Nat
          /\ Cardinality(Finishing \cup {w}) \in Nat
      BY <1>a, Countable
    <3>4. a2 <= a + 1 /\ f2 <= f + 1
      <4> HIDE DEF a, a2, f, f2
      <4> QED BY <3>1, <3>2, <3>3, <1>b
    <3> HIDE DEF a, a2, f, f2
    <3>5. imPoolRuns' + a2 <= imFinals' /\ (imKind' = "generic" => imEvents' + f2 <= imFinals')
      BY <3>4, <2>3, <2>4, <1>b, <1>c
    <3>6. imFinals' \in Nat /\ imEvents' \in Nat /\ imPoolRuns' \in Nat
      BY <2>3, <2>4, <1>c
    <3> QED BY <2>2, <3>5, <3>6 DEF CountInv, Counted, a2, f2
  <2>5. CASE imFinals' # imFinals + 1
    <3>1. ~(imActive /\ (imKind = "generic" => imGate)) /\ imFinals' = imFinals
      BY <1>3, <2>5, <1>c DEF FinalizeImport
    <3>2. imAt' = [imAt EXCEPT ![w] = IF imKind = "nexorious" THEN "emit" ELSE "idle"]
      BY <1>3, <3>1 DEF FinalizeImport, Go
    <3>3. Applying' \subseteq Applying /\ (imKind = "generic" => Finishing' \subseteq Finishing)
      BY <3>2, <1>c DEF AtTyped, Applying, Finishing
    <3>4. a2 <= a /\ (imKind = "generic" => f2 <= f)
      BY <3>3, <1>a, FewerCount
    <3> HIDE DEF a, a2, f, f2
    <3>5. imPoolRuns' + a2 <= imFinals' /\ (imKind' = "generic" => imEvents' + f2 <= imFinals')
      BY <3>1, <3>4, <2>3, <1>b, <1>c
    <3>6. imFinals' \in Nat /\ imEvents' \in Nat /\ imPoolRuns' \in Nat
      BY <2>3, <3>1, <1>c
    <3> QED BY <2>2, <3>5, <3>6 DEF CountInv, Counted, a2, f2
  <2> QED BY <2>4, <2>5
<1>4. ASSUME NEW w \in Workers, ApplyPools(w)
      PROVE  CountInv'
  <2>1. w \in Applying /\ imAt' = [imAt EXCEPT ![w] = "emit"]
    BY <1>4 DEF ApplyPools, Go, Here, Applying
  <2>2. AtTyped' /\ Applying' = Applying \ {w} /\ Finishing' \subseteq Finishing
    BY <2>1, <1>c DEF AtTyped, Applying, Finishing
  <2>3. a2 = a - 1 /\ f2 <= f
    BY <2>1, <2>2, <1>a, OneLess, FewerCount
  <2>4. imPoolRuns' = imPoolRuns + 1 /\ UNCHANGED <<imKind, imFinals, imEvents>>
    BY <1>4 DEF ApplyPools, imJob
  <2> HIDE DEF a, a2, f, f2
  <2>5. imPoolRuns' + a2 <= imFinals' /\ (imKind' = "generic" => imEvents' + f2 <= imFinals')
    BY <2>3, <2>4, <1>b, <1>c
  <2>6. imFinals' \in Nat /\ imEvents' \in Nat /\ imPoolRuns' \in Nat
    BY <2>4, <1>c
  <2> QED BY <2>2, <2>5, <2>6 DEF CountInv, Counted, a2, f2
<1>5. ASSUME NEW w \in Workers, EmitDone(w)
      PROVE  CountInv'
  <2>1. imAt[w] = "emit" /\ w \in Finishing /\ imAt' = [imAt EXCEPT ![w] = "idle"]
    BY <1>5 DEF EmitDone, Go, Here, Finishing
  <2>2. AtTyped' /\ Applying' \subseteq Applying /\ Finishing' = Finishing \ {w}
    BY <2>1, <1>c DEF AtTyped, Applying, Finishing
  <2>3. a2 <= a /\ f2 = f - 1
    BY <2>1, <2>2, <1>a, OneLess, FewerCount
  <2>4. imEvents' = imEvents + 1 /\ UNCHANGED <<imKind, imFinals, imPoolRuns>>
    BY <1>5 DEF EmitDone, imJob
  <2> HIDE DEF a, a2, f, f2
  <2>5. imPoolRuns' + a2 <= imFinals' /\ (imKind' = "generic" => imEvents' + f2 <= imFinals')
    BY <2>3, <2>4, <1>b, <1>c
  <2>6. imFinals' \in Nat /\ imEvents' \in Nat /\ imPoolRuns' \in Nat
    BY <2>4, <1>c
  <2> QED BY <2>2, <2>5, <2>6 DEF CountInv, Counted, a2, f2
<1>6. ASSUME NEW i \in Items, NEW k, RescueItem(i) \/ LoseTask(k, i)
      PROVE  CountInv'
  <2>1. UNCHANGED <<imAt, imKind, imFinals, imEvents, imPoolRuns>>
    BY <1>6 DEF RescueItem, LoseTask, imJob, imLocal, imHist
  <2> QED BY <2>1, <1>c, QuietCount DEF AtTyped, Applying, Finishing
<1>7. CASE CrashImport
  <2>1. AtTyped' /\ Applying' = {} /\ Finishing' = {}
    BY <1>7 DEF CrashImport, AtTyped, Applying, Finishing
  <2>2. UNCHANGED <<imKind, imFinals, imEvents, imPoolRuns>>
    BY <1>7 DEF CrashImport, imJob, imHist
  <2> QED BY <2>1, <2>2, QuietCount
<1>8. CASE UNCHANGED importVars
  <2>1. UNCHANGED <<imAt, imKind, imFinals, imEvents, imPoolRuns>>
    BY <1>8 DEF importVars, imJob, imLocal, imHist
  <2> QED BY <2>1, <1>c, QuietCount DEF AtTyped, Applying, Finishing
<1> QED BY <1>1, <1>2, <1>3, <1>4, <1>5, <1>6, <1>7, <1>8, AllSteps

(* finalizeJobCompleted's UPDATE tells one caller that it completed the     *)
(* job: pools are applied, and the event of a mapped file is emitted, at    *)
(* most once for each completion, however many last workers check at once.  *)
THEOREM SingleFinalizer == ImportSpec => []FinalizerOnly
<1>1. ImportInit => CountInv
  BY CountInit
<1>2. CountInv /\ [ImportNext]_importVars => CountInv'
  BY CountStep
<1>3. CountInv => FinalizerOnly
  <2> SUFFICES ASSUME CountInv PROVE FinalizerOnly
    OBVIOUS
  <2> DEFINE a == Cardinality(Applying) f == Cardinality(Finishing)
  <2>1. a \in Nat /\ f \in Nat
    BY Countable DEF Applying, Finishing
  <2>2. /\ imFinals \in Nat /\ imEvents \in Nat /\ imPoolRuns \in Nat
        /\ imPoolRuns + a <= imFinals
        /\ imKind = "generic" => imEvents + f <= imFinals
    BY DEF CountInv, Counted
  <2> HIDE DEF a, f
  <2> QED BY <2>1, <2>2 DEF FinalizerOnly
<1> QED BY <1>1, <1>2, <1>3, PTL DEF ImportSpec

---------------------------------------------------------------------------
(* The rows of the collection. *)

\* An open Acquire has locked a row of the collection, and deletions wait for it, as they
\* do for an open write of a platform row and an open progress update.
TxOn == \/ tx = Idle
        \/ /\ DOMAIN tx = {"game", "key", "in", "found", "read", "row"}
           /\ tx.game \in Present

PlatformWrites == [game : Games, from : Keys \cup {NoKey}, to : Keys, row : Rows,
                   promote : BOOLEAN, overlap : BOOLEAN]
ProgressWrites == [game : Games, status : Statuses, overlap : BOOLEAN]

WritesOn ==
    /\ write = Idle \/ (write \in PlatformWrites /\ write.game \in Present)
    /\ progress = Idle \/ (progress \in ProgressWrites /\ progress.game \in Present)

OnRow == TxOn /\ WritesOn

RowTypes ==
    /\ status \in [Games -> Statuses \cup {"absent"}]
    /\ wish \in [Games -> BOOLEAN]
    /\ plat = [g \in Games |-> plat[g]]

RowsInv == RowTypes /\ OnRow /\ WishlistDisjoint

\* Who writes the platform rows of a game settles its wish and its status.
LEMMA SetRows ==
    ASSUME RowTypes, WishlistDisjoint, NEW g \in Present, NEW rows, SetPlatforms(g, rows)
    PROVE  RowTypes' /\ WishlistDisjoint' /\ Present \subseteq Present'
<1>1. \A x \in Games : x # g => /\ wish'[x] = wish[x] /\ status'[x] = status[x]
                                /\ plat'[x] = plat[x]
  BY DEF SetPlatforms, RowTypes
<1>2. wish'[g] => wish[g] /\ DOMAIN rows = {}
  BY DEF SetPlatforms, RowTypes, ClearWishlistOnAcquire, Present
<1>3. plat'[g] = rows /\ status'[g] = PromoteIfPlayed(status[g], rows)
  BY DEF SetPlatforms, RowTypes, Present
<1>4. status'[g] \in Statuses
  BY <1>3, LibraryStatusAssumption DEF PromoteIfPlayed, RowTypes, Present
<1>5. wish' \in [Games -> BOOLEAN]
  BY DEF SetPlatforms, RowTypes, ClearWishlistOnAcquire, Present
<1>6. RowTypes'
  BY <1>4, <1>5 DEF SetPlatforms, RowTypes, Present
<1>7. Present \subseteq Present'
  BY <1>1, <1>4, LibraryStatusAssumption DEF Present
<1> QED  BY <1>1, <1>2, <1>3, <1>6, <1>7 DEF WishlistDisjoint, Owned, Present

\* Deleted rows take their platforms and wishes along, and none that is locked goes.
LEMMA DeleteKeeps ==
    ASSUME RowsInv, NEW G \in SUBSET Present, DeleteRows(G)
    PROVE  RowsInv'
<1>1. /\ status' = [g \in Games |-> IF g \in G THEN "absent" ELSE status[g]]
      /\ plat' = [g \in Games |-> IF g \in G THEN <<>> ELSE plat[g]]
      /\ UNCHANGED <<tx, write, progress>>
      /\ tx.game \notin G /\ write.game \notin G /\ progress.game \notin G
      /\ wish' \in [Games -> BOOLEAN]
      /\ \A g \in Games : wish'[g] => wish[g] /\ g \notin G
  BY DEF DeleteRows, Locked, RowsInv, RowTypes, txVars
<1>2. Present' = Present \ G
  BY <1>1 DEF Present
<1>3. RowTypes'
  BY <1>1 DEF RowsInv, RowTypes
<1>4. OnRow'
  BY <1>1, <1>2 DEF RowsInv, OnRow, TxOn, WritesOn
<1>5. \A g \in Games : DOMAIN plat'[g] = IF g \in G THEN {} ELSE DOMAIN plat[g]
  BY <1>1
<1>6. WishlistDisjoint'
  BY <1>1, <1>2, <1>5 DEF RowsInv, WishlistDisjoint, Owned
<1> QED  BY <1>3, <1>4, <1>6 DEF RowsInv

\* What happens to open writes in the steps of others.
Noted(w, v) == w = v \/ w = Idle \/ \E G \in SUBSET Games : w = Overlapped(v, G)

LEMMA NotedTyped ==
    ASSUME WritesOn, Present \subseteq Present'
    PROVE  /\ Noted(write', write) =>
                write' = Idle \/ (write' \in PlatformWrites /\ write'.game \in Present')
           /\ Noted(progress', progress) =>
                progress' = Idle \/ (progress' \in ProgressWrites /\ progress'.game \in Present')
<1>1. ASSUME NEW v \in PlatformWrites, NEW G
      PROVE  Overlapped(v, G) \in PlatformWrites /\ Overlapped(v, G).game = v.game
  BY DEF Overlapped, PlatformWrites
<1>2. ASSUME NEW v \in ProgressWrites, NEW G
      PROVE  Overlapped(v, G) \in ProgressWrites /\ Overlapped(v, G).game = v.game
  BY DEF Overlapped, ProgressWrites
<1>3. ASSUME NEW G \in SUBSET Games  PROVE  Overlapped(Idle, G) = Idle
  BY LibraryNullAssumption DEF Overlapped, Idle
<1>4. ASSUME Noted(write', write)
      PROVE  write' = Idle \/ (write' \in PlatformWrites /\ write'.game \in Present')
  BY <1>1, <1>3, <1>4 DEF WritesOn, Noted
<1>5. ASSUME Noted(progress', progress)
      PROVE  progress' = Idle \/ (progress' \in ProgressWrites /\ progress'.game \in Present')
  BY <1>2, <1>3, <1>5 DEF WritesOn, Noted
<1> QED  BY <1>4, <1>5

\* An open transaction survives a step that keeps the rows present and the transaction, but
\* for the platform row that an Acquire follows and the history of overlaps.
LEMMA StaysOnRow ==
    ASSUME OnRow, Present \subseteq Present', Noted(write', write), Noted(progress', progress),
           tx' = tx \/ tx' = Idle
             \/ \E to : DOMAIN tx # {"game"} /\ tx' = [tx EXCEPT !.row = to]
    PROVE  OnRow'
<1>1. ASSUME tx' = tx \/ tx' = Idle  PROVE  TxOn'
  BY <1>1 DEF OnRow, TxOn, Present
<1>2. ASSUME NEW to, DOMAIN tx # {"game"}, tx' = [tx EXCEPT !.row = to]  PROVE  TxOn'
  <2>1. DOMAIN tx' = DOMAIN tx /\ tx'.game = tx.game
    BY <1>2 DEF OnRow, TxOn, Idle
  <2> QED  BY <1>2, <2>1 DEF OnRow, TxOn, Idle
<1>3. TxOn'
  BY <1>1, <1>2 DEF OnRow, TxOn
<1>4. WritesOn'
  BY NotedTyped DEF OnRow, WritesOn
<1> QED  BY <1>3, <1>4 DEF OnRow

LEMMA Follows ==
    ASSUME OnRow, NEW g \in Games, NEW k, NEW to, tx' = Follow(g, k, to)
    PROVE  tx' = tx \/ \E x : DOMAIN tx # {"game"} /\ tx' = [tx EXCEPT !.row = x]
<1>1. CASE tx.game = g /\ tx.row = k
  <2>1. DOMAIN tx = {"game", "key", "in", "found", "read", "row"}
    BY <1>1, LibraryNullAssumption DEF OnRow, TxOn, Idle
  <2>2. "row" \in DOMAIN tx /\ "row" \notin {"game"}
    BY <2>1
  <2> QED  BY <1>1, <2>2 DEF Follow
<1> QED  BY <1>1 DEF Follow

LEMMA FollowsGame ==
    ASSUME OnRow, NEW g \in Games, NEW k, NEW to
    PROVE  Follow(g, k, to).game = tx.game
<1>1. CASE tx.game = g /\ tx.row = k
  <2>1. DOMAIN tx = {"game", "key", "in", "found", "read", "row"}
    BY <1>1, LibraryNullAssumption DEF OnRow, TxOn, Idle
  <2> QED  BY <1>1, <2>1 DEF Follow
<1> QED  BY <1>1 DEF Follow

\* A write that opens, of a row that is there.
LEMMA OpensOnRow ==
    ASSUME RowsInv, NEW g \in Present, NEW from \in Keys \cup {NoKey}, NEW to \in Keys,
           NEW r \in Rows, WriteThenPromote(g, from, to, r)
    PROVE  RowsInv'
<1> USE DEF RowsInv
<1>1. UNCHANGED <<status, wish, plat, tx>> /\ Noted(progress', progress)
  BY DEF WriteThenPromote, Noted, Present
<1>2. write' \in PlatformWrites /\ write'.game = g
  BY DEF WriteThenPromote, PlatformWrites, Present
<1>3. Present' = Present
  BY <1>1 DEF Present
<1>4. OnRow'
  BY <1>1, <1>2, <1>3, NotedTyped DEF OnRow, TxOn, WritesOn
<1> QED  BY <1>1, <1>3, <1>4 DEF RowTypes, WishlistDisjoint, Owned

\* The requests that write one row.
LEMMA RowStep ==
    ASSUME RowsInv, NEW g \in Games, RowOps(g)
    PROVE  RowsInv'
<1> USE DEF RowsInv
<1>1. ASSUME NEW in \in Rows, NEW k \in Keys, AcquireRead(g, k, in)  PROVE  RowsInv'
  <2>1. OnRow'
    BY <1>1 DEF AcquireRead, OnRow, TxOn, WritesOn, Present
  <2> QED  BY <1>1, <2>1 DEF AcquireRead, RowTypes, WishlistDisjoint, Owned, Present
<1>2. ASSUME NEW in \in Rows, NEW k \in Keys, AddPlatform(g, k, in)  PROVE  RowsInv'
  BY <1>2, OpensOnRow DEF AddPlatform
<1>3. ASSUME NEW in \in Rows, NEW K \in SUBSET Keys, NEW st \in Statuses, NEW w \in BOOLEAN,
             AcquireFresh(g, st, w, K, in)
      PROVE  RowsInv'
  <2> DEFINE rows == [k \in K |-> in]
  <2>1. \A x \in Games : x # g => /\ wish'[x] = wish[x] /\ status'[x] = status[x]
                                  /\ plat'[x] = plat[x]
    BY <1>3 DEF AcquireFresh, RowTypes
  <2>2. wish'[g] => DOMAIN rows = {}
    BY <1>3 DEF AcquireFresh, RowTypes, ClearWishlistOnAcquire
  <2>3. plat'[g] = rows /\ status'[g] = PromoteIfPlayed(st, rows)
    BY <1>3 DEF AcquireFresh, RowTypes
  <2>4. status'[g] \in Statuses
    BY <2>3, LibraryStatusAssumption DEF PromoteIfPlayed
  <2>5. wish' \in [Games -> BOOLEAN]
    BY <1>3 DEF AcquireFresh, RowTypes, ClearWishlistOnAcquire
  <2>6. RowTypes' /\ Present \subseteq Present'
    BY <1>3, <2>1, <2>4, <2>5, LibraryStatusAssumption DEF AcquireFresh, RowTypes, Present
  <2>7. WishlistDisjoint'
    BY <2>1, <2>2, <2>3, <2>4, LibraryStatusAssumption DEF WishlistDisjoint, Owned, Present
  <2>8. OnRow'
    BY <1>3, <2>6, StaysOnRow DEF AcquireFresh, Noted, txVars
  <2> QED  BY <2>6, <2>7, <2>8
<1>4. ASSUME NEW in \in Rows, NEW K \in SUBSET Keys, MoveToLibrary(g, K, in)  PROVE  RowsInv'
  BY <1>4, SetRows, StaysOnRow DEF MoveToLibrary, InsertPlatformsStrict, Noted, txVars
<1>5. ASSUME NEW in \in Rows, NEW k \in Keys, NEW to \in Keys, UpdatePlatform(g, k, to, in)
      PROVE  RowsInv'
  BY <1>5, OpensOnRow DEF UpdatePlatform
<1>6. ASSUME NEW k \in Keys, RemovePlatform(g, k)  PROVE  RowsInv'
  <2>1. /\ plat' = [plat EXCEPT ![g] = WithoutKeys(@, {k})] /\ UNCHANGED <<status, wish>>
        /\ tx' = Follow(g, k, NoKey) /\ Noted(write', write) /\ Noted(progress', progress)
    BY <1>6 DEF RemovePlatform, Noted
  <2>2. \A x \in Games : DOMAIN plat'[x] \subseteq DOMAIN plat[x]
    BY <2>1 DEF WithoutKeys, Restrict, RowTypes
  <2>3. OnRow'
    BY <2>1, Follows, StaysOnRow DEF Present
  <2> QED  BY <2>1, <2>2, <2>3 DEF RowTypes, WishlistDisjoint, Owned, Present
<1>7. ASSUME NEW st \in Statuses, UpdateFields(g, st)  PROVE  RowsInv'
  <2>1. /\ g \in Present /\ UNCHANGED <<wish, plat, tx>>
        /\ status' = [status EXCEPT ![g] = st]
        /\ Noted(write', write) /\ Noted(progress', progress)
    BY <1>7 DEF UpdateFields, Noted
  <2>2. Present' = Present /\ RowTypes'
    BY <2>1, LibraryStatusAssumption DEF Present, RowTypes
  <2>3. OnRow'
    BY <2>1, <2>2, StaysOnRow
  <2> QED  BY <2>1, <2>2, <2>3 DEF WishlistDisjoint, Owned
<1>8. ASSUME NEW st \in Statuses, RecordProgress(g, st)  PROVE  RowsInv'
  <2>1. /\ g \in Present /\ UNCHANGED <<status, wish, plat, tx>> /\ Noted(write', write)
    BY <1>8 DEF RecordProgress, Noted
  <2>2. progress' \in ProgressWrites /\ progress'.game = g
    BY <1>8, LibraryStatusAssumption DEF RecordProgress, ProgressWrites, PromoteIfPlayed
  <2>3. Present' = Present
    BY <2>1 DEF Present
  <2>4. OnRow'
    BY <2>1, <2>2, <2>3, NotedTyped DEF OnRow, TxOn, WritesOn
  <2> QED  BY <2>1, <2>3, <2>4 DEF RowTypes, WishlistDisjoint, Owned
<1>9. ASSUME Delete(g)  PROVE  RowsInv'
  BY <1>9, DeleteKeeps DEF Delete
<1> QED
  BY <1>1, <1>2, <1>3, <1>4, <1>5, <1>6, <1>7, <1>8, <1>9
     DEF RowOps, HandleCreatePlatform, HandleCreateUserGame, HandleMoveToLibrary,
         HandleUpdatePlatform, HandleDeletePlatform, HandleUpdateUserGame,
         HandleUpdateProgress, HandleDeleteUserGame

\* The ends of the open transactions.
LEMMA EndStep ==
    ASSUME RowsInv, TransactionEnds
    PROVE  RowsInv'
<1> USE DEF RowsInv
<1>1. CASE AcquireWrite
  <2>1. tx.game \in Present
    BY <1>1 DEF AcquireWrite, OnRow, TxOn
  <2>2. RowTypes' /\ WishlistDisjoint' /\ Present \subseteq Present'
    BY <1>1, <2>1, SetRows DEF AcquireWrite
  <2> QED  BY <1>1, <2>2, StaysOnRow DEF AcquireWrite, Noted
<1>2. CASE AcquireAbort \/ AbortPlatform \/ AbortProgress
  <2>1. UNCHANGED <<status, wish, plat>> /\ Noted(write', write) /\ Noted(progress', progress)
        /\ tx' \in {tx, Idle}
    BY <1>2 DEF AcquireAbort, AbortPlatform, AbortProgress, Noted
  <2>2. OnRow'
    BY <2>1, StaysOnRow DEF Present
  <2> QED  BY <2>1, <2>2 DEF RowTypes, WishlistDisjoint, Owned, Present
<1>3. CASE CommitPlatform
  <2> DEFINE g    == write.game
             rows == WithRow(WithoutKeys(plat[g], {write.from}), write.to, write.row)
  <2>1. g \in Present
    BY <1>3 DEF CommitPlatform, OnRow, WritesOn
  <2>2. /\ plat' = [plat EXCEPT ![g] = rows]
        /\ wish' = [wish EXCEPT ![g] = ClearWishlistOnAcquire(@, rows)]
        /\ status' = [status EXCEPT ![g] = IF write.promote THEN "in_progress" ELSE @]
        /\ Noted(write', write) /\ Noted(progress', progress)
        /\ tx' = IF write.from = NoKey THEN tx ELSE Follow(g, write.from, write.to)
    BY <1>3 DEF CommitPlatform, Noted
  <2>3. DOMAIN rows # {}
    BY DEF WithRow
  <2> HIDE DEF rows
  <2>4. \A x \in Games : x # g => plat'[x] = plat[x] /\ wish'[x] = wish[x] /\ status'[x] = status[x]
    BY <2>2 DEF RowTypes
  <2>5. ~wish'[g] /\ status'[g] \in Statuses
    BY <2>1, <2>2, <2>3, LibraryStatusAssumption DEF RowTypes, ClearWishlistOnAcquire, Present
  <2>6. wish' \in [Games -> BOOLEAN]
    BY <2>1, <2>2 DEF RowTypes, ClearWishlistOnAcquire, Present
  <2>7. RowTypes' /\ Present \subseteq Present'
    BY <2>1, <2>2, <2>4, <2>5, <2>6, LibraryStatusAssumption DEF RowTypes, Present
  <2>8. WishlistDisjoint'
    BY <2>4, <2>5, LibraryStatusAssumption DEF WishlistDisjoint, Owned, Present
  <2>9. OnRow'
    BY <2>1, <2>2, <2>7, Follows, StaysOnRow DEF Present
  <2> QED  BY <2>7, <2>8, <2>9
<1>4. CASE CommitProgress
  <2>1. progress.game \in Present /\ progress.status \in Statuses
    BY <1>4 DEF CommitProgress, OnRow, WritesOn, ProgressWrites
  <2>2. /\ UNCHANGED <<wish, plat, tx>> /\ Noted(write', write) /\ Noted(progress', progress)
        /\ status' = [status EXCEPT ![progress.game] = progress.status]
    BY <1>4 DEF CommitProgress, Noted
  <2>3. Present' = Present /\ RowTypes'
    BY <2>1, <2>2, LibraryStatusAssumption DEF Present, RowTypes
  <2>4. OnRow'
    BY <2>2, <2>3, StaysOnRow
  <2> QED  BY <2>2, <2>3, <2>4 DEF WishlistDisjoint, Owned
<1> QED  BY <1>1, <1>2, <1>3, <1>4 DEF TransactionEnds

\* The requests that write many rows.
LEMMA CollectionStep ==
    ASSUME RowsInv, LibraryNext
    PROVE  RowsInv'
<1> USE DEF RowsInv
<1>1. CASE TransactionEnds
  BY <1>1, EndStep
<1>3. ASSUME NEW G \in SUBSET Games, NEW k \in Keys, AddPlatformBulk(G, k)  PROVE  RowsInv'
  <2> DEFINE new == {g \in G \cap Present : k \notin Owned(g)}
  <2>1. /\ \A g \in Games \ new : plat'[g] = plat[g]
        /\ plat' = [g \in Games |-> plat'[g]]
        /\ \A g \in Games : wish'[g] = (wish[g] /\ g \notin new)
        /\ wish' \in [Games -> BOOLEAN]
        /\ UNCHANGED <<status, tx, write, progress>>
    BY <1>3 DEF AddPlatformBulk, RowTypes, txVars
  <2> QED  BY <2>1 DEF RowTypes, OnRow, TxOn, WritesOn, WishlistDisjoint, Owned, Present
<1>4. ASSUME NEW G \in SUBSET Games, NEW k \in Keys, RemovePlatformBulk(G, k)  PROVE  RowsInv'
  <2>1. /\ plat' = [g \in Games |-> IF g \in G THEN WithoutKeys(plat[g], {k}) ELSE plat[g]]
        /\ UNCHANGED <<status, wish>>
        /\ tx' = IF tx.game \in G THEN Follow(tx.game, k, NoKey) ELSE tx
        /\ Noted(write', write) /\ Noted(progress', progress)
    BY <1>4 DEF RemovePlatformBulk, Noted
  <2>2. \A x \in Games : DOMAIN plat'[x] \subseteq DOMAIN plat[x]
    BY <2>1 DEF WithoutKeys, Restrict
  <2>3. OnRow'
    BY <2>1, Follows, StaysOnRow DEF Present
  <2> QED  BY <2>1, <2>2, <2>3 DEF RowTypes, WishlistDisjoint, Owned, Present
<1>5. ASSUME NEW G \in SUBSET Games, NEW st \in Statuses, SetPlayStatusBulk(G, st)
      PROVE  RowsInv'
  <2>1. /\ UNCHANGED <<wish, plat, tx>> /\ Noted(write', write) /\ Noted(progress', progress)
        /\ status' = [g \in Games |-> IF g \in G \cap Present THEN st ELSE status[g]]
    BY <1>5 DEF SetPlayStatusBulk, Noted
  <2>2. Present' = Present /\ RowTypes'
    BY <2>1, LibraryStatusAssumption DEF Present, RowTypes
  <2>3. OnRow'
    BY <2>1, <2>2, StaysOnRow
  <2> QED  BY <2>1, <2>2, <2>3 DEF WishlistDisjoint, Owned
<1>6. ASSUME NEW G \in SUBSET Games, ClearWishlist(G)  PROVE  RowsInv'
  <2>1. /\ UNCHANGED <<status, plat, tx, write, progress>> /\ wish' \in [Games -> BOOLEAN]
        /\ \A g \in Games : wish'[g] => wish[g]
    BY <1>6 DEF ClearWishlist, RowTypes, txVars
  <2> QED  BY <2>1 DEF RowTypes, OnRow, TxOn, WritesOn, WishlistDisjoint, Owned, Present
<1>7. ASSUME NEW G \in SUBSET Present, DeleteRows(G)  PROVE  RowsInv'
  BY <1>7, DeleteKeeps
<1>8. ASSUME NEW g \in Games, RowOps(g)  PROVE  RowsInv'
  BY <1>8, RowStep
<1> QED
  BY <1>1, <1>3, <1>4, <1>5, <1>6, <1>7, <1>8
     DEF LibraryNext, BulkOps, HandleBulkAddPlatforms, HandleBulkRemovePlatforms,
         HandleBulkUpdate, HandleBulkDelete, DeleteBulk, HandleClearLibrary, ClearLibrary

LEMMA RowsInvHolds == LibrarySpec => []RowsInv
<1>1. LibraryInit => RowsInv
  BY DEF LibraryInit, RowsInv, RowTypes, OnRow, TxOn, WritesOn, WishlistDisjoint, Owned
<1>2. RowsInv /\ [LibraryNext]_libraryVars => RowsInv'
  <2> SUFFICES ASSUME RowsInv, [LibraryNext]_libraryVars  PROVE  RowsInv'
    OBVIOUS
  <2>1. CASE UNCHANGED libraryVars
    BY <2>1 DEF libraryVars, txVars, RowsInv, RowTypes, OnRow, TxOn, WritesOn, WishlistDisjoint, Owned, Present
  <2> QED  BY <2>1, CollectionStep
<1> QED  BY <1>1, <1>2, PTL DEF LibrarySpec

(***************************************************************************)
(* Whatever platforms, games and requests there are, no game is both       *)
(* wished for and owned, and none outside the collection is either         *)
(* (clearWishlistOnAcquire in every path that brings a platform, and the   *)
(* row locks of the open transactions that a deletion waits for).          *)
(***************************************************************************)
THEOREM WishedOrOwned == LibrarySpec => []WishlistDisjoint
<1>1. RowsInv => WishlistDisjoint
  BY DEF RowsInv
<1> QED  BY <1>1, RowsInvHolds, PTL

---------------------------------------------------------------------------
(* Promotion. *)

\* What an open write of a platform row and an open progress update have seen, unless
\* another transaction wrote the other thing beside them.  Who writes the hours keeps out
\* whoever promotes by a lock, or notes the overlap.
Apart ==
    /\ tx # Idle /\ progress # Idle => tx.game # progress.game
    /\ write # Idle /\ progress # Idle /\ write.game = progress.game
          => write.overlap /\ progress.overlap

SeenByWrite ==
    write # Idle /\ ~write.promote /\ ~write.overlap /\ status[write.game] = "not_started"
        => write.row.hours = 0

SeenByProgress ==
    progress # Idle /\ ~progress.overlap /\ progress.status = "not_started"
        => ~Played(plat[progress.game])

SeenInv == Apart /\ SeenByWrite /\ SeenByProgress

\* g shows the rule kept by this step.
Promoted(g) ==
    status'[g] = "not_started" /\ Played(plat'[g]) =>
       \/ Played(plat[g]) /\ status[g] = "not_started"
       \/ Played(plat[g]) /\ plat'[g] = plat[g] /\ progress' = progress
       \/ write' = Idle /\ Unseen(write, g)
       \/ progress' = Idle /\ Unseen(progress, g)

AllPromoted == \A g \in Games : Promoted(g)

\* No game becomes not_started, but where an open write has noted it, and none becomes
\* played, but where an open progress update has noted it or that is promoted.
StartsNobody ==
    \A g \in Games :
        /\ status'[g] = "not_started" => status[g] = "not_started" \/ write.game # g
        /\ Played(plat'[g]) => Played(plat[g]) \/ progress.game # g

LEMMA SeenKept ==
    ASSUME RowsInv, SeenInv, UNCHANGED <<write, progress>>, StartsNobody,
           tx' = Idle \/ tx'.game = tx.game \/ tx'.game # progress.game
    PROVE  SeenInv'
<1>1. /\ write # Idle => write.game \in Games
      /\ progress # Idle => progress.game \in Games
      /\ tx # Idle \/ tx.game = NoGame
  BY DEF RowsInv, OnRow, WritesOn, PlatformWrites, ProgressWrites, Idle
<1>2. Apart'
  BY <1>1, LibraryNullAssumption DEF SeenInv, Apart
<1>3. SeenByWrite'
  BY <1>1 DEF SeenInv, SeenByWrite, StartsNobody
<1>4. SeenByProgress'
  BY <1>1 DEF SeenInv, SeenByProgress, StartsNobody
<1> QED  BY <1>2, <1>3, <1>4 DEF SeenInv

LEMMA PromotedByRule ==
    ASSUME NEW st, NEW rows, PromoteIfPlayed(st, rows) = "not_started"
    PROVE  st = "not_started" /\ ~Played(rows)
BY DEF PromoteIfPlayed

\* A step that leaves the rows of g, or takes some away, plays nothing.
LEMMA NothingPlayed ==
    ASSUME NEW rows, NEW K, Played(WithoutKeys(rows, K))
    PROVE  Played(rows)
BY DEF Played, WithoutKeys, Restrict

\* A row without hours, added or in place of another, plays nothing.
LEMMA NoHours ==
    ASSUME NEW rows, NEW k, NEW r, r.hours = 0, Played(WithRow(rows, k, r))
    PROVE  Played(rows)
BY DEF Played, WithRow

\* Platform rows of g that nobody else is about to promote by.
LEMMA PlatformsPromote ==
    ASSUME RowsInv, SeenInv, NEW g \in Games, g # progress.game, NEW rows, SetPlatforms(g, rows),
           tx' = tx \/ tx' = Idle, UNCHANGED <<write, progress>>
    PROVE  SeenInv' /\ AllPromoted
<1>1. \A x \in Games : x # g => status'[x] = status[x] /\ plat'[x] = plat[x]
  BY DEF SetPlatforms, RowsInv, RowTypes
<1>2. plat'[g] = rows /\ status'[g] = PromoteIfPlayed(status[g], rows)
  BY DEF SetPlatforms, RowsInv, RowTypes
<1>3. StartsNobody
  BY <1>1, <1>2, PromotedByRule DEF StartsNobody
<1> QED  BY <1>1, <1>2, <1>3, PromotedByRule, SeenKept DEF Promoted, AllPromoted

\* Deletions keep away from games that are open.
LEMMA DeletePromotes ==
    ASSUME RowsInv, SeenInv, NEW G \in SUBSET Present, DeleteRows(G)
    PROVE  SeenInv' /\ AllPromoted
<1>1. /\ status' = [g \in Games |-> IF g \in G THEN "absent" ELSE status[g]]
      /\ plat' = [g \in Games |-> IF g \in G THEN <<>> ELSE plat[g]]
      /\ UNCHANGED <<tx, write, progress>>
  BY DEF DeleteRows, txVars
<1>2. ~Played(<<>>)
  BY DEF Played
<1>3. StartsNobody
  BY <1>1, <1>2 DEF StartsNobody
<1> QED  BY <1>1, <1>2, <1>3, SeenKept DEF Promoted, AllPromoted

\* A write that opens promotes by the hours it brings.
LEMMA OpenPromotes ==
    ASSUME RowsInv, SeenInv, NEW g \in Present, NEW from \in Keys \cup {NoKey}, NEW to \in Keys,
           NEW r \in Rows, WriteThenPromote(g, from, to, r)
    PROVE  SeenInv' /\ AllPromoted
<1> DEFINE rows == WithRow(WithoutKeys(plat[g], {from}), to, r)
<1>1. /\ write' = [game |-> g, from |-> from, to |-> to, row |-> r,
                   promote |-> (PromoteIfPlayed(status[g], rows) # status[g]),
                   overlap |-> (progress.game = g)]
      /\ progress' = Overlapped(progress, {g})
      /\ UNCHANGED <<status, plat, tx>>
  BY DEF WriteThenPromote
<1>2. r.hours \in Nat /\ (r.hours > 0 => Played(rows))
  BY LibraryNumberAssumption DEF Rows, Played, WithRow
<1> HIDE DEF rows
<1>3. /\ write'.game = g /\ write'.row = r /\ write'.overlap = (progress.game = g)
      /\ write'.promote = (PromoteIfPlayed(status[g], rows) # status[g])
  BY <1>1
<1>4. ~write'.promote /\ status[g] = "not_started" => r.hours = 0
  <2>1. ASSUME Played(rows), status[g] = "not_started"  PROVE  write'.promote
    <3>1. PromoteIfPlayed(status[g], rows) = "in_progress" /\ "in_progress" # "not_started"
      BY <2>1 DEF PromoteIfPlayed
    <3>2. PromoteIfPlayed(status[g], rows) # status[g]
      BY <2>1, <3>1
    <3> QED  BY <1>3, <3>2, Zenon
  <2> QED  BY <1>2, <2>1
<1>5. SeenByWrite'
  BY <1>1, <1>3, <1>4 DEF SeenByWrite
<1>6. CASE progress = Idle
  <2>1. progress' = Idle
    BY <1>1, <1>6, LibraryNullAssumption DEF Overlapped, Idle, Present
  <2> QED  BY <1>1, <1>5, <2>1 DEF SeenInv, Apart, SeenByProgress, Promoted, AllPromoted
<1>7. CASE progress # Idle
  <2>1. progress \in ProgressWrites
    BY <1>7 DEF RowsInv, OnRow, WritesOn
  <2>2. /\ progress'.game = progress.game /\ progress'.status = progress.status /\ progress' # Idle
        /\ progress.game = g => progress'.overlap
        /\ progress.overlap => progress'.overlap
    BY <1>1, <1>7, <2>1 DEF Overlapped, ProgressWrites, Idle
  <2>3. Apart'
    BY <1>1, <1>3, <1>7, <2>2 DEF SeenInv, Apart
  <2>4. SeenByProgress'
    BY <1>1, <1>7, <2>2 DEF SeenInv, SeenByProgress
  <2>5. AllPromoted
    BY <1>1 DEF Promoted, AllPromoted
  <2> QED  BY <1>5, <2>3, <2>4, <2>5 DEF SeenInv
<1> QED  BY <1>6, <1>7

\* A status that is set notes the overlap of an open write.
LEMMA StatusPromotes ==
    ASSUME RowsInv, SeenInv, NEW G \in SUBSET Games, NEW st,
           status' = [g \in Games |-> IF g \in G \cap Present THEN st ELSE status[g]],
           write' = Overlapped(write, G), UNCHANGED <<plat, tx, progress>>
    PROVE  SeenInv' /\ AllPromoted
<1>1. AllPromoted
  BY DEF Promoted, AllPromoted
<1>2. CASE write = Idle
  <2>1. write' = Idle
    BY <1>2, LibraryNullAssumption DEF Overlapped, Idle
  <2> QED  BY <1>1, <2>1 DEF SeenInv, Apart, SeenByWrite, SeenByProgress
<1>3. CASE write # Idle
  <2>1. write \in PlatformWrites
    BY <1>3 DEF RowsInv, OnRow, WritesOn
  <2>2. /\ write'.game = write.game /\ write'.promote = write.promote /\ write'.row = write.row
        /\ write' # Idle /\ (write.game \in G => write'.overlap) /\ (write.overlap => write'.overlap)
        /\ write.game \in Games
    BY <1>3, <2>1 DEF Overlapped, PlatformWrites, Idle
  <2>3. Apart'
    BY <1>3, <2>2 DEF SeenInv, Apart
  <2>4. SeenByWrite'
    BY <1>3, <2>2 DEF SeenInv, SeenByWrite
  <2>5. SeenByProgress'
    BY DEF SeenInv, SeenByProgress
  <2> QED  BY <1>1, <2>3, <2>4, <2>5 DEF SeenInv
<1> QED  BY <1>2, <1>3

LEMMA RowsPromote ==
    ASSUME RowsInv, SeenInv, NEW g \in Games, RowOps(g)
    PROVE  SeenInv' /\ AllPromoted
<1> USE DEF RowsInv
<1>1. ASSUME NEW in \in Rows, NEW k \in Keys, AcquireRead(g, k, in)
      PROVE  SeenInv' /\ AllPromoted
  <2>1. UNCHANGED <<status, plat, write, progress>> /\ tx'.game = g /\ g # progress.game
    BY <1>1 DEF AcquireRead, Locked
  <2> QED  BY <2>1, SeenKept DEF StartsNobody, Promoted, AllPromoted
<1>2. ASSUME NEW in \in Rows, NEW k \in Keys, AddPlatform(g, k, in)
      PROVE  SeenInv' /\ AllPromoted
  BY <1>2, OpenPromotes DEF AddPlatform
<1>3. ASSUME NEW in \in Rows, NEW K \in SUBSET Keys, NEW st \in Statuses, NEW w \in BOOLEAN,
             AcquireFresh(g, st, w, K, in)
      PROVE  SeenInv' /\ AllPromoted
  <2> DEFINE rows == [k \in K |-> in]
  <2>1. /\ plat' = [plat EXCEPT ![g] = rows]
        /\ status' = [status EXCEPT ![g] = PromoteIfPlayed(st, rows)]
        /\ status[g] = "absent" /\ UNCHANGED <<tx, write, progress>>
    BY <1>3 DEF AcquireFresh, txVars
  <2> HIDE DEF rows
  <2>2. \A x \in Games : x # g => status'[x] = status[x] /\ plat'[x] = plat[x]
    BY <2>1 DEF RowTypes
  <2>3. plat'[g] = rows /\ status'[g] = PromoteIfPlayed(st, rows)
    BY <2>1 DEF RowTypes
  <2>4. write.game # g /\ progress.game # g
    BY <2>1, LibraryNullAssumption DEF OnRow, WritesOn, Present, Idle
  <2>5. StartsNobody
    BY <2>2, <2>4 DEF StartsNobody
  <2> QED  BY <2>1, <2>2, <2>3, <2>5, PromotedByRule, SeenKept DEF Promoted, AllPromoted
<1>4. ASSUME NEW in \in Rows, NEW K \in SUBSET Keys, MoveToLibrary(g, K, in)
      PROVE  SeenInv' /\ AllPromoted
  BY <1>4, PlatformsPromote DEF MoveToLibrary, InsertPlatformsStrict, Locked, txVars
<1>5. ASSUME NEW in \in Rows, NEW k \in Keys, NEW to \in Keys, UpdatePlatform(g, k, to, in)
      PROVE  SeenInv' /\ AllPromoted
  BY <1>5, OpenPromotes DEF UpdatePlatform
<1>6. ASSUME NEW k \in Keys, RemovePlatform(g, k)  PROVE  SeenInv' /\ AllPromoted
  <2>1. /\ plat'[g] = WithoutKeys(plat[g], {k}) /\ UNCHANGED <<status, write, progress>>
        /\ \A x \in Games : x # g => plat'[x] = plat[x]
        /\ tx' = Follow(g, k, NoKey)
    BY <1>6 DEF RemovePlatform, RowTypes
  <2>2. tx'.game = tx.game
    BY <2>1, FollowsGame
  <2>3. StartsNobody
    BY <2>1, NothingPlayed DEF StartsNobody
  <2> QED  BY <2>1, <2>2, <2>3, NothingPlayed, SeenKept DEF Promoted, AllPromoted
<1>7. ASSUME NEW st \in Statuses, UpdateFields(g, st)  PROVE  SeenInv' /\ AllPromoted
  <2>1. status' = [x \in Games |-> IF x \in {g} \cap Present THEN st ELSE status[x]]
    BY <1>7 DEF UpdateFields, RowTypes
  <2> QED  BY <1>7, <2>1, StatusPromotes DEF UpdateFields
<1>8. ASSUME NEW st \in Statuses, RecordProgress(g, st)  PROVE  SeenInv' /\ AllPromoted
  <2>1. /\ progress' = [game |-> g, status |-> PromoteIfPlayed(st, plat[g]), overlap |-> (write.game = g)]
        /\ write' = Overlapped(write, {g}) /\ UNCHANGED <<status, plat, tx>>
        /\ tx.game # g /\ progress = Idle
    BY <1>8 DEF RecordProgress, Locked
  <2>2. /\ progress'.game = g /\ progress'.status = PromoteIfPlayed(st, plat[g])
        /\ progress'.overlap = (write.game = g)
    BY <2>1
  <2>3. SeenByProgress'
    BY <2>1, <2>2, PromotedByRule DEF SeenByProgress
  <2>4. AllPromoted
    BY <2>1 DEF Promoted, AllPromoted
  <2>5. CASE write = Idle
    <3>1. write' = Idle
      BY <2>1, <2>5, LibraryNullAssumption DEF Overlapped, Idle
    <3> QED  BY <2>1, <2>2, <2>3, <2>4, <3>1 DEF SeenInv, Apart, SeenByWrite
  <2>6. CASE write # Idle
    <3>1. write \in PlatformWrites
      BY <2>6 DEF OnRow, WritesOn
    <3>2. /\ write'.game = write.game /\ write'.promote = write.promote /\ write'.row = write.row
          /\ write' # Idle /\ (write.game = g => write'.overlap) /\ (write.overlap => write'.overlap)
      BY <2>1, <2>6, <3>1 DEF Overlapped, PlatformWrites, Idle
    <3>3. Apart'
      BY <2>1, <2>2, <2>6, <3>2 DEF SeenInv, Apart
    <3>4. SeenByWrite'
      BY <2>1, <2>6, <3>2 DEF SeenInv, SeenByWrite
    <3> QED  BY <2>3, <2>4, <3>3, <3>4 DEF SeenInv
  <2> QED  BY <2>5, <2>6
<1>9. ASSUME Delete(g)  PROVE  SeenInv' /\ AllPromoted
  BY <1>9, DeletePromotes DEF Delete
<1> QED
  BY <1>1, <1>2, <1>3, <1>4, <1>5, <1>6, <1>7, <1>8, <1>9
     DEF RowOps, HandleCreatePlatform, HandleCreateUserGame, HandleMoveToLibrary,
         HandleUpdatePlatform, HandleDeletePlatform, HandleUpdateUserGame,
         HandleUpdateProgress, HandleDeleteUserGame

\* A commit shows the rule by what was seen at the opening, or has noted the overlap.
LEMMA EndPromotes ==
    ASSUME RowsInv, SeenInv, TransactionEnds
    PROVE  SeenInv' /\ AllPromoted
<1> USE DEF RowsInv
<1>1. CASE AcquireWrite
  <2>1. tx # Idle /\ tx.game \in Games
    BY <1>1 DEF AcquireWrite, OnRow, TxOn, Present
  <2>2. tx.game # progress.game
    BY <2>1, LibraryNullAssumption DEF SeenInv, Apart, Idle
  <2> QED  BY <1>1, <2>1, <2>2, PlatformsPromote DEF AcquireWrite
<1>2. CASE AcquireAbort \/ AbortPlatform \/ AbortProgress
  BY <1>2 DEF AcquireAbort, AbortPlatform, AbortProgress, SeenInv, Apart, SeenByWrite, SeenByProgress,
              Promoted, AllPromoted
<1>3. CASE CommitPlatform
  <2> DEFINE g    == write.game
             old  == WithoutKeys(plat[g], {write.from})
             rows == WithRow(old, write.to, write.row)
  <2>1. /\ g \in Games /\ write # Idle /\ write' = Idle /\ progress' = progress
        /\ plat' = [plat EXCEPT ![g] = rows]
        /\ status' = [status EXCEPT ![g] = IF write.promote THEN "in_progress" ELSE @]
        /\ tx' = IF write.from = NoKey THEN tx ELSE Follow(g, write.from, write.to)
    BY <1>3 DEF CommitPlatform, OnRow, WritesOn, PlatformWrites
  <2>2. write.row.hours = 0 /\ Played(rows) => Played(plat[g])
    BY NoHours, NothingPlayed
  <2> HIDE DEF rows, old
  <2>3. \A x \in Games : x # g => plat'[x] = plat[x] /\ status'[x] = status[x]
    BY <2>1 DEF RowTypes
  <2>4. /\ plat'[g] = rows
        /\ status'[g] = "not_started" => ~write.promote /\ status[g] = "not_started"
    BY <2>1 DEF RowTypes
  <2>5. tx' = Idle \/ tx'.game = tx.game
    BY <2>1, FollowsGame
  <2>6. status'[g] = "not_started" /\ Played(plat'[g]) =>
           (Played(plat[g]) /\ status[g] = "not_started") \/ write.overlap
    BY <2>1, <2>2, <2>4 DEF SeenInv, SeenByWrite
  <2>7. AllPromoted
    BY <2>1, <2>3, <2>6 DEF Promoted, AllPromoted, Unseen
  <2>8. SeenByProgress'
    <3>1. ASSUME progress # Idle, progress.game = g  PROVE  progress.overlap
      BY <2>1, <3>1 DEF SeenInv, Apart
    <3>2. progress # Idle => progress.game \in Games
      BY DEF OnRow, WritesOn, ProgressWrites
    <3> QED  BY <2>1, <2>3, <3>1, <3>2 DEF SeenInv, SeenByProgress
  <2>9. Apart' /\ SeenByWrite'
    BY <2>1, <2>5, LibraryNullAssumption DEF SeenInv, Apart, SeenByWrite, Idle, OnRow, WritesOn, ProgressWrites
  <2> QED  BY <2>7, <2>8, <2>9 DEF SeenInv
<1>4. CASE CommitProgress
  <2> DEFINE g == progress.game
  <2>1. /\ g \in Games /\ progress # Idle /\ progress' = Idle /\ UNCHANGED <<plat, tx, write>>
        /\ status' = [status EXCEPT ![g] = progress.status]
    BY <1>4 DEF CommitProgress, OnRow, WritesOn, ProgressWrites
  <2>2. /\ \A x \in Games : x # g => status'[x] = status[x]
        /\ status'[g] = progress.status
    BY <2>1 DEF RowTypes
  <2>3. AllPromoted
    BY <2>1, <2>2 DEF SeenInv, SeenByProgress, Promoted, AllPromoted, Unseen
  <2>4. SeenByWrite'
    <3>1. ASSUME write # Idle, write.game = g  PROVE  write.overlap
      BY <2>1, <3>1 DEF SeenInv, Apart
    <3>2. write # Idle => write.game \in Games
      BY DEF OnRow, WritesOn, PlatformWrites
    <3> QED  BY <2>1, <2>2, <3>1, <3>2 DEF SeenInv, SeenByWrite
  <2>5. Apart' /\ SeenByProgress'
    BY <2>1 DEF SeenInv, Apart, SeenByProgress
  <2> QED  BY <2>3, <2>4, <2>5 DEF SeenInv
<1> QED  BY <1>1, <1>2, <1>3, <1>4 DEF TransactionEnds

LEMMA CollectionPromotes ==
    ASSUME RowsInv, SeenInv, LibraryNext
    PROVE  SeenInv' /\ AllPromoted
<1> USE DEF RowsInv
<1>1. CASE TransactionEnds
  BY <1>1, EndPromotes
<1>2. ASSUME NEW G \in SUBSET Games, NEW k \in Keys, AddPlatformBulk(G, k)
      PROVE  SeenInv' /\ AllPromoted
  <2> DEFINE new == {g \in G \cap Present : k \notin Owned(g)}
             blank == [hours |-> 0, own |-> Max(Ranks)]
  <2>1. /\ UNCHANGED <<status, tx, write, progress>>
        /\ \A g \in Games : plat'[g] = IF g \in new THEN WithRow(plat[g], k, blank) ELSE plat[g]
    BY <1>2 DEF AddPlatformBulk, txVars
  <2>2. blank.hours = 0
    OBVIOUS
  <2> HIDE DEF new, blank
  <2>3. \A g \in Games : Played(plat'[g]) => Played(plat[g])
    BY <2>1, <2>2, NoHours
  <2> QED  BY <2>1, <2>3, SeenKept DEF StartsNobody, Promoted, AllPromoted
<1>3. ASSUME NEW G \in SUBSET Games, NEW k \in Keys, RemovePlatformBulk(G, k)
      PROVE  SeenInv' /\ AllPromoted
  <2>1. /\ UNCHANGED <<status, write, progress>>
        /\ \A g \in Games : plat'[g] = IF g \in G THEN WithoutKeys(plat[g], {k}) ELSE plat[g]
        /\ tx' = IF tx.game \in G THEN Follow(tx.game, k, NoKey) ELSE tx
    BY <1>3 DEF RemovePlatformBulk
  <2>2. tx'.game = tx.game
    BY <2>1, FollowsGame
  <2>3. \A g \in Games : Played(plat'[g]) => Played(plat[g])
    BY <2>1, NothingPlayed
  <2> QED  BY <2>1, <2>2, <2>3, SeenKept DEF StartsNobody, Promoted, AllPromoted
<1>4. ASSUME NEW G \in SUBSET Games, NEW st \in Statuses, SetPlayStatusBulk(G, st)
      PROVE  SeenInv' /\ AllPromoted
  BY <1>4, StatusPromotes DEF SetPlayStatusBulk
<1>5. ASSUME NEW G \in SUBSET Games, ClearWishlist(G)  PROVE  SeenInv' /\ AllPromoted
  <2>1. UNCHANGED <<status, plat, tx, write, progress>>
    BY <1>5 DEF ClearWishlist, txVars
  <2> QED  BY <2>1, SeenKept DEF StartsNobody, Promoted, AllPromoted
<1>6. ASSUME NEW G \in SUBSET Present, DeleteRows(G)  PROVE  SeenInv' /\ AllPromoted
  BY <1>6, DeletePromotes
<1>7. ASSUME NEW g \in Games, RowOps(g)  PROVE  SeenInv' /\ AllPromoted
  BY <1>7, RowsPromote
<1> QED
  BY <1>1, <1>2, <1>3, <1>4, <1>5, <1>6, <1>7
     DEF LibraryNext, BulkOps, HandleBulkAddPlatforms, HandleBulkRemovePlatforms,
         HandleBulkUpdate, HandleBulkDelete, DeleteBulk, HandleClearLibrary, ClearLibrary

(***************************************************************************)
(* Hours that appear promote, in every writer of them: a step that leaves  *)
(* a played game not_started found it so, or is the user setting the       *)
(* status, or ends one of two open transactions of which one wrote the     *)
(* hours and the other the progress; the write of an Acquire included,     *)
(* which computed the hours from a row it read without a lock.             *)
(***************************************************************************)
THEOREM HoursPromote == LibrarySpec => PromoteOnPlay
<1>1. LibraryInit => SeenInv
  BY DEF LibraryInit, SeenInv, Apart, SeenByWrite, SeenByProgress
<1>2. RowsInv /\ SeenInv /\ [LibraryNext]_libraryVars => SeenInv'
  <2>1. CASE UNCHANGED libraryVars
    BY <2>1 DEF libraryVars, txVars, SeenInv, Apart, SeenByWrite, SeenByProgress
  <2> QED  BY <2>1, CollectionPromotes
<1>3. RowsInv /\ SeenInv /\ [LibraryNext]_libraryVars => [AllPromoted]_libraryVars
  BY CollectionPromotes
<1>4. [AllPromoted]_libraryVars
        <=> [\A g \in Games : status'[g] = "not_started" /\ Played(plat'[g]) =>
               \/ Played(plat[g]) /\ status[g] = "not_started"
               \/ Played(plat[g]) /\ plat'[g] = plat[g] /\ progress' = progress
               \/ write' = Idle /\ Unseen(write, g)
               \/ progress' = Idle /\ Unseen(progress, g)]_libraryVars
  BY DEF Promoted, AllPromoted
<1> QED  BY <1>1, <1>2, <1>3, <1>4, RowsInvHolds, PTL DEF LibrarySpec, PromoteOnPlay

---------------------------------------------------------------------------
(* The queue of a pool. *)

\* A list of ids.
LEMMA ListsAreSequences ==
    ASSUME NEW S, NEW ids \in Lists(S)
    PROVE  ids \in Seq(S) /\ Len(ids) \in Nat /\ DOMAIN ids = 1..Len(ids)
<1>1. PICK n \in Nat : ids \in [1..n -> S]
  BY PoolsAssumption DEF PoolsAssumption, Lists
<1> QED  BY <1>1

\* The place after which x is not listed again.
LEMMA LastPlace ==
    ASSUME NEW S, NEW ids \in Lists(S), NEW i \in 1..Len(ids),
           \A j \in 1..Len(ids) : ids[j] = ids[i] => j <= i
    PROVE  LastIndex(ids, ids[i]) = i
<1> DEFINE places == {j \in DOMAIN ids : ids[j] = ids[i]}
<1>1. i \in places /\ \A j \in places : j \in Int /\ j <= i
  BY ListsAreSequences
<1> HIDE DEF places
<1>2. Max(places) \in places /\ \A j \in places : Max(places) >= j
  BY <1>1 DEF Max
<1>3. i \in Int /\ Max(places) \in Int /\ Max(places) <= i /\ Max(places) >= i
  BY <1>1, <1>2
<1>4. Max(places) = i
  BY <1>3
<1> QED  BY <1>4 DEF LastIndex, places

\* An open HandleSetQueue has the rows of the members it has demoted, and those of listed
\* games that came later; each has the last of the places it was given so far.
PlaceOf(g, i) ==
    /\ i \in 1..queueTx.at /\ queueTx.ids[i] = g
    /\ \A j \in 1..queueTx.at : queueTx.ids[j] = g => j <= i

QueueOpen ==
    /\ queueTx.pool \in Pools /\ queueTx.ids \in Lists(Games)
    /\ DOMAIN queueTx = {"pool", "ids", "at", "new", "late"}
    /\ queueTx.at \in NULL..Len(queueTx.ids)

QueueLocks ==
    /\ DOMAIN queueTx.new \subseteq Members(queueTx.pool)
    /\ Queued(pools[queueTx.pool]) \ queueTx.late \subseteq DOMAIN queueTx.new
    /\ \A g \in DOMAIN queueTx.new :
          queueTx.new[g] \in Int /\ (queueTx.new[g] # NULL => PlaceOf(g, queueTx.new[g] + 1))

QueueInv ==
    /\ pools = [p \in Pools |-> pools[p]]
    /\ queueTx # NoQueue => QueueOpen /\ (queueTx.at # NULL => QueueLocks)

PoolsAll == PoolsNext \/ (LibraryNext /\ UNCHANGED poolsVars)

SomeLate == queueTx # NoQueue /\ queueTx' = [queueTx EXCEPT !.late = queueTx'.late]

\* Who writes the members of a pool beside an open HandleSetQueue: locked rows stay, with
\* any position, and who comes has none, or is late.
LEMMA OthersKeepQueue ==
    ASSUME QueueInv, pools' = [p \in Pools |-> pools'[p]],
           queueTx' = queueTx \/ SomeLate,
           queueTx # NoQueue /\ queueTx.at # NULL =>
              /\ DOMAIN queueTx.new \cap Members(queueTx.pool) \subseteq Members(queueTx.pool)'
              /\ Queued(pools'[queueTx.pool]) \ queueTx'.late
                    \subseteq Queued(pools[queueTx.pool]) \ queueTx.late
    PROVE  QueueInv'
<1>1. CASE queueTx' = NoQueue
  BY <1>1 DEF QueueInv
<1>2. CASE queueTx' # NoQueue
  <2>1. queueTx # NoQueue /\ QueueOpen
    BY <1>2 DEF QueueInv, SomeLate
  <2>2. /\ queueTx'.pool = queueTx.pool /\ queueTx'.ids = queueTx.ids /\ queueTx'.at = queueTx.at
        /\ queueTx'.new = queueTx.new /\ DOMAIN queueTx' = DOMAIN queueTx
    BY <2>1 DEF QueueOpen, SomeLate
  <2>3. QueueOpen'
    BY <2>1, <2>2 DEF QueueOpen
  <2>4. ASSUME queueTx.at # NULL  PROVE  QueueLocks'
    <3>1. QueueLocks
      BY <2>1, <2>4 DEF QueueInv
    <3>2. DOMAIN queueTx.new \subseteq Members(queueTx.pool)'
      BY <2>1, <2>4, <3>1 DEF QueueLocks
    <3>3. \A g, i : PlaceOf(g, i) => PlaceOf(g, i)'
      BY <2>2 DEF PlaceOf
    <3> QED  BY <2>1, <2>2, <2>4, <3>1, <3>2, <3>3 DEF QueueLocks, Members
  <2> QED  BY <2>2, <2>3, <2>4 DEF QueueInv
<1> QED  BY <1>1, <1>2

\* What the collection's writers do to the pools.
LEMMA LibraryPools ==
    ASSUME LibraryNext
    PROVE  /\ queueTx' = queueTx
           /\ pools' = pools \/ \E G : MayLeave(G) /\ pools' = Without(G)
<1> DEFINE Goal == /\ queueTx' = queueTx
                   /\ pools' = pools \/ \E G : MayLeave(G) /\ pools' = Without(G)
<1>1. ASSUME NEW G, DeleteRows(G)  PROVE  Goal
  BY <1>1 DEF DeleteRows, txVars
<1>2. ASSUME NEW g \in Games, RowOps(g)  PROVE  Goal
  BY <1>1, <1>2 DEF RowOps, HandleCreatePlatform, HandleCreateUserGame, HandleMoveToLibrary,
       HandleUpdatePlatform, HandleDeletePlatform, HandleUpdateUserGame,
       HandleUpdateProgress, HandleDeleteUserGame, AcquireRead, AcquireFresh,
       AddPlatform, InsertPlatformsStrict, SetPlatforms, MoveToLibrary, WriteThenPromote,
       UpdatePlatform, RemovePlatform, UpdateFields, RecordProgress, Delete,
       RemoveFromPoolsIfFinished, txVars
<1>3. ASSUME BulkOps  PROVE  Goal
  BY <1>1, <1>3 DEF BulkOps, HandleBulkAddPlatforms, HandleBulkRemovePlatforms, HandleBulkUpdate,
       HandleBulkDelete, DeleteBulk, AddPlatformBulk, RemovePlatformBulk,
       SetPlayStatusBulk, ClearWishlist, RemoveFromPoolsIfFinished, txVars
<1>4. ASSUME TransactionEnds  PROVE  Goal
  BY <1>4 DEF TransactionEnds, AcquireWrite, AcquireAbort, SetPlatforms, CommitPlatform,
       AbortPlatform, CommitProgress, AbortProgress
<1> QED  BY <1>1, <1>2, <1>3, <1>4 DEF LibraryNext, HandleClearLibrary, ClearLibrary

LEMMA WritersKeepQueue ==
    ASSUME QueueInv, LibraryNext
    PROVE  QueueInv'
<1>1. CASE pools' = pools
  BY <1>1, LibraryPools, OthersKeepQueue DEF QueueInv, Members
<1>2. ASSUME NEW G, MayLeave(G), pools' = Without(G)  PROVE  QueueInv'
  <2>1. ASSUME NEW p \in Pools
        PROVE  /\ DOMAIN pools'[p] = Members(p) \ G
               /\ \A g \in DOMAIN pools'[p] : pools'[p][g] = pools[p][g]
    BY <1>2 DEF Without, Restrict, Members
  <2>2. pools' = [p \in Pools |-> pools'[p]] /\ DOMAIN queueTx.new \cap G = {}
    BY <1>2 DEF Without, MayLeave
  <2>3. queueTx # NoQueue => queueTx.pool \in Pools
    BY DEF QueueInv, QueueOpen
  <2>4. queueTx' = queueTx
    BY LibraryPools
  <2>5. queueTx # NoQueue =>
          /\ DOMAIN queueTx.new \cap Members(queueTx.pool) \subseteq Members(queueTx.pool)'
          /\ Queued(pools'[queueTx.pool]) \subseteq Queued(pools[queueTx.pool])
    BY <2>1, <2>2, <2>3, <2>4 DEF Members, Queued
  <2> QED  BY <2>2, <2>4, <2>5, OthersKeepQueue
<1> QED  BY <1>1, <1>2, LibraryPools

\* The other requests about members.
LEMMA MembersKeepQueue ==
    ASSUME QueueInv, NEW p \in Pools, NEW members, pools' = [pools EXCEPT ![p] = members],
           queueTx' = queueTx \/ SomeLate,
           queueTx.pool # p => queueTx' = queueTx,
           queueTx # NoQueue /\ queueTx.pool = p /\ queueTx.at # NULL =>
              /\ DOMAIN queueTx.new \cap Members(p) \subseteq DOMAIN members
              /\ Queued(members) \ queueTx'.late \subseteq Queued(pools[p]) \ queueTx.late
    PROVE  QueueInv'
<1>1. /\ pools' = [q \in Pools |-> pools'[q]] /\ pools'[p] = members
      /\ \A q \in Pools : q # p => pools'[q] = pools[q]
  BY DEF QueueInv
<1>2. ASSUME queueTx # NoQueue, queueTx.at # NULL
      PROVE  /\ DOMAIN queueTx.new \cap Members(queueTx.pool) \subseteq Members(queueTx.pool)'
             /\ Queued(pools'[queueTx.pool]) \ queueTx'.late
                   \subseteq Queued(pools[queueTx.pool]) \ queueTx.late
  <2>1. queueTx.pool \in Pools /\ queueTx'.pool = queueTx.pool
    BY <1>2 DEF QueueInv, QueueOpen, SomeLate
  <2>2. CASE queueTx.pool = p
    BY <1>1, <1>2, <2>1, <2>2 DEF Members
  <2>3. CASE queueTx.pool # p
    BY <1>1, <2>1, <2>3 DEF Members
  <2> QED  BY <2>2, <2>3
<1> QED  BY <1>1, <1>2, OthersKeepQueue

LEMMA JoinsPool ==
    ASSUME NEW p, NEW G, NEW pos
    PROVE  /\ Members(p) \subseteq DOMAIN WithMember(p, G, pos)
           /\ \A g \in Queued(WithMember(p, G, pos)) :
                 g \in Queued(pools[p]) \/ (g \in G \ Members(p) /\ pos # NULL)
BY DEF WithMember, Queued, Members

LEMMA MemberStep ==
    ASSUME QueueInv, NEW p \in Pools, MemberOps(p)
    PROVE  QueueInv'
<1>1. ASSUME NEW G, SetMembers(p, WithMember(p, G, NULL)), UNCHANGED queueTx  PROVE  QueueInv'
  BY <1>1, JoinsPool, MembersKeepQueue DEF SetMembers
<1>2. ASSUME NEW g \in Games, HandleRemovePoolGame(p, g)  PROVE  QueueInv'
  <2> DEFINE members == Restrict(pools[p], Members(p) \ {g})
  <2>1. pools' = [pools EXCEPT ![p] = members] /\ queueTx' = queueTx
    BY <1>2 DEF HandleRemovePoolGame, SetMembers
  <2>2. queueTx.pool = p => g \notin DOMAIN queueTx.new
    BY <1>2 DEF HandleRemovePoolGame, MayLeave
  <2>3. DOMAIN members = Members(p) \ {g} /\ Queued(members) \subseteq Queued(pools[p])
    BY DEF Restrict, Queued, Members
  <2> HIDE DEF members
  <2> QED  BY <2>1, <2>2, <2>3, MembersKeepQueue
<1>3. ASSUME NEW ids \in Lists(Games), SetQueueGuard(p, ids)  PROVE  QueueInv'
  <2>1. queueTx' = [pool |-> p, ids |-> ids, at |-> -1, new |-> <<>>, late |-> {}] /\ pools' = pools
    BY <1>3 DEF SetQueueGuard, NoQueue
  <2> QED  BY <2>1, ListsAreSequences DEF QueueInv, QueueOpen, NULL
<1>4. ASSUME NEW g \in Games, NEW pos, ApplyImportedPools(p, g, pos)  PROVE  QueueInv'
  <2>1. /\ pools' = [pools EXCEPT ![p] = WithMember(p, {g}, pos)]
        /\ queueTx' = IF queueTx.pool = p /\ queueTx.at # NULL /\ g \notin Members(p)
                      THEN [queueTx EXCEPT !.late = @ \cup {g}] ELSE queueTx
    BY <1>4 DEF ApplyImportedPools, SetMembers
  <2>2. CASE queueTx.pool = p /\ queueTx.at # NULL /\ g \notin Members(p)
    <3>1. queueTx # NoQueue
      BY <2>2 DEF NoQueue, NULL
    <3>2. "late" \in DOMAIN queueTx
      BY <3>1 DEF QueueInv, QueueOpen
    <3>3. queueTx' = [queueTx EXCEPT !.late = queueTx'.late] /\ queueTx'.late = queueTx.late \cup {g}
      BY <2>1, <2>2, <3>2
    <3> QED  BY <2>1, <2>2, <3>1, <3>3, JoinsPool, MembersKeepQueue DEF SomeLate
  <2>3. CASE ~(queueTx.pool = p /\ queueTx.at # NULL /\ g \notin Members(p))
    <3>1. queueTx' = queueTx
      BY <2>1, <2>3
    <3>2. queueTx.pool = p /\ queueTx.at # NULL =>
             Queued(WithMember(p, {g}, pos)) \subseteq Queued(pools[p])
      BY <2>3, JoinsPool
    <3> QED  BY <2>1, <3>1, <3>2, JoinsPool, MembersKeepQueue
  <2> QED  BY <2>2, <2>3
<1> QED  BY <1>1, <1>2, <1>3, <1>4 DEF MemberOps, HandleAddPoolGame, HandleBulkAddPoolGames

LEMMA PoolStep ==
    ASSUME QueueInv, NEW p \in Pools, PoolOps(p)
    PROVE  QueueInv'
<1>1. CASE UNCHANGED libraryVars
  BY <1>1, OthersKeepQueue DEF libraryVars, txVars, QueueInv, Members
<1>2. CASE HandleDeletePool(p)
  <2>1. pools' = [pools EXCEPT ![p] = <<>>] /\ queueTx' = queueTx
    BY <1>2 DEF HandleDeletePool, txVars
  <2>2. queueTx.pool = p => DOMAIN queueTx.new \cap Members(p) = {}
    BY <1>2 DEF HandleDeletePool, MayLeave
  <2>3. DOMAIN <<>> = {} /\ Queued(<<>>) = {}
    BY DEF Queued
  <2> QED  BY <2>1, <2>2, <2>3, MembersKeepQueue
<1> QED
  BY <1>1, <1>2 DEF PoolOps, HandleCreatePool, HandleUpdatePool, FindOrCreatePool

\* The statements of the transaction itself.
LEMMA SetQueueStep ==
    ASSUME QueueInv, SetQueueSteps
    PROVE  QueueInv'
<1>1. CASE HandleSetQueue
  <2>1. queueTx' = NoQueue /\ \E p, m : pools' = [pools EXCEPT ![p] = m]
    BY <1>1 DEF HandleSetQueue, SetMembers
  <2> QED  BY <2>1 DEF QueueInv
<1>2. ASSUME NEW at, NEW new, NEW late, SetQueueWrites(at, new, late), queueTx # NoQueue
      PROVE  /\ queueTx'.at = at /\ queueTx'.new = new /\ queueTx'.late = late
             /\ queueTx'.pool = queueTx.pool /\ queueTx'.ids = queueTx.ids
             /\ DOMAIN queueTx' = DOMAIN queueTx /\ pools' = pools
             /\ QueueOpen
  BY <1>2 DEF SetQueueWrites, QueueInv, QueueOpen
<1>3. CASE DemoteMembers
  <2> DEFINE new == [g \in Members(queueTx.pool) |-> NULL]
  <2>1. queueTx # NoQueue /\ SetQueueWrites(0, new, {})
    BY <1>3 DEF DemoteMembers
  <2>2. DOMAIN new = Members(queueTx.pool) /\ \A g \in DOMAIN new : new[g] = NULL /\ new[g] \in Int
    BY DEF NULL
  <2> HIDE DEF new
  <2>3. QueueOpen'
    BY <1>2, <2>1, ListsAreSequences DEF QueueOpen, NULL
  <2>4. QueueLocks'
    BY <1>2, <2>1, <2>2 DEF QueueLocks, Queued, Members
  <2> QED  BY <1>2, <2>1, <2>3, <2>4 DEF QueueInv
<1>4. CASE PromoteListed
  <2> DEFINE at  == queueTx.at + 1
             g   == queueTx.ids[at]
             new == [x \in DOMAIN queueTx.new \cup {g} |->
                       IF x = g THEN at - 1 ELSE queueTx.new[x]]
  <2>1. /\ queueTx # NoQueue /\ QueueOpen /\ QueueLocks
        /\ queueTx.at \in 0..Len(queueTx.ids) - 1 /\ Len(queueTx.ids) \in Nat
        /\ at \in 1..Len(queueTx.ids) /\ queueTx.at = at - 1
    <3>1. queueTx.at \in 0..Len(queueTx.ids) - 1
      BY <1>4 DEF PromoteListed
    <3>2. queueTx # NoQueue /\ queueTx.at # NULL
      BY <3>1 DEF NoQueue, NULL
    <3> QED  BY <3>1, <3>2, ListsAreSequences DEF QueueInv, QueueOpen
  <2>2. CASE g \in Members(queueTx.pool)
    <3>1. SetQueueWrites(at, new, queueTx.late \ {g})
      BY <1>4, <2>2 DEF PromoteListed
    <3>2. /\ DOMAIN new = DOMAIN queueTx.new \cup {g} /\ new[g] = at - 1
          /\ \A x \in DOMAIN queueTx.new : x # g => new[x] = queueTx.new[x]
          /\ \A x \in DOMAIN new : new[x] \in Int
      BY <2>1 DEF QueueLocks
    <3>3. g = queueTx.ids[at]
      OBVIOUS
    <3> HIDE DEF new, g, at
    <3>4. QueueOpen'
      BY <1>2, <2>1, <3>1 DEF QueueOpen, NULL
    <3>5. /\ queueTx'.at = at /\ queueTx'.ids = queueTx.ids /\ queueTx'.new = new
          /\ queueTx'.pool = queueTx.pool /\ pools' = pools /\ queueTx'.late = queueTx.late \ {g}
      BY <1>2, <2>1, <3>1
    <3>6. ASSUME NEW x \in DOMAIN new, NEW i, new[x] # NULL, i = new[x] + 1
          PROVE  PlaceOf(x, i)'
      <4>1. CASE x = g
        <5>1. i = at
          BY <2>1, <3>2, <3>6, <4>1
        <5> QED  BY <2>1, <3>3, <3>5, <4>1, <5>1 DEF PlaceOf
      <4>2. CASE x # g
        <5>1. PlaceOf(x, i)
          BY <2>1, <3>2, <3>6, <4>2 DEF QueueLocks
        <5> QED  BY <2>1, <3>3, <3>5, <4>2, <5>1 DEF PlaceOf
      <4> QED  BY <4>1, <4>2
    <3>7. QueueLocks'
      BY <2>1, <2>2, <3>2, <3>5, <3>6 DEF QueueLocks, Members
    <3> QED  BY <3>4, <3>5, <3>7 DEF QueueInv
  <2>3. CASE g \notin Members(queueTx.pool)
    <3>1. SetQueueWrites(at, queueTx.new, queueTx.late)
      BY <1>4, <2>3 DEF PromoteListed
    <3>2. g = queueTx.ids[at]
      OBVIOUS
    <3> HIDE DEF g, at
    <3>3. QueueOpen'
      BY <1>2, <2>1, <3>1 DEF QueueOpen, NULL
    <3>4. /\ queueTx'.at = at /\ queueTx'.ids = queueTx.ids /\ queueTx'.new = queueTx.new
          /\ queueTx'.pool = queueTx.pool /\ pools' = pools /\ queueTx'.late = queueTx.late
      BY <1>2, <2>1, <3>1
    <3>5. ASSUME NEW x \in DOMAIN queueTx.new, queueTx.new[x] # NULL
          PROVE  PlaceOf(x, queueTx.new[x] + 1)'
      <4>1. x # g /\ PlaceOf(x, queueTx.new[x] + 1)
        BY <2>1, <2>3, <3>5 DEF QueueLocks
      <4> QED  BY <2>1, <3>2, <3>4, <4>1 DEF PlaceOf
    <3>6. QueueLocks'
      BY <2>1, <3>4, <3>5 DEF QueueLocks, Members
    <3> QED  BY <3>3, <3>4, <3>6 DEF QueueInv
  <2> QED  BY <2>2, <2>3
<1> QED  BY <1>1, <1>3, <1>4 DEF SetQueueSteps

LEMMA QueueInvKept ==
    ASSUME QueueInv, PoolsAll
    PROVE  QueueInv'
<1>1. ASSUME NEW ids \in Lists(Pools), HandleReorderPools(ids)  PROVE  QueueInv'
  BY <1>1, OthersKeepQueue DEF HandleReorderPools, libraryVars, txVars, QueueInv, Members
<1> QED
  BY <1>1, WritersKeepQueue, MemberStep, PoolStep, SetQueueStep DEF PoolsAll, PoolsNext

\* No other step ends a SetQueue.
LEMMA OnlySetQueueEnds ==
    ASSUME QueueInv, PoolsAll, queueTx # NoQueue, queueTx' = NoQueue
    PROVE  HandleSetQueue
<1>1. ASSUME LibraryNext  PROVE  FALSE
  BY <1>1, LibraryPools
<1>2. queueTx.pool \in Pools /\ DOMAIN queueTx = {"pool", "ids", "at", "new", "late"}
  BY DEF QueueInv, QueueOpen
<1>3. ASSUME NEW p \in Pools, PoolOps(p)  PROVE  FALSE
  BY <1>3 DEF PoolOps, HandleCreatePool, HandleUpdatePool, FindOrCreatePool, HandleDeletePool,
       libraryVars, txVars
<1>4. ASSUME NEW p \in Pools, MemberOps(p)  PROVE  FALSE
  <2>1. ASSUME NEW g, NEW pos, ApplyImportedPools(p, g, pos)  PROVE  FALSE
    <3>1. queueTx' = [queueTx EXCEPT !.late = @ \cup {g}] /\ queueTx.at # NULL
      BY <2>1 DEF ApplyImportedPools
    <3> QED  BY <1>2, <3>1 DEF NoQueue, NULL
  <2> QED
    BY <1>4, <2>1 DEF MemberOps, SetQueueGuard, HandleAddPoolGame, HandleRemovePoolGame,
         HandleBulkAddPoolGames
<1>5. ASSUME NEW ids \in Lists(Pools), HandleReorderPools(ids)  PROVE  FALSE
  BY <1>5 DEF HandleReorderPools, libraryVars, txVars
<1>6. ASSUME NEW at \in Nat, NEW new, NEW late, SetQueueWrites(at, new, late)  PROVE  FALSE
  <2>1. queueTx'.at = at
    BY <1>2, <1>6 DEF SetQueueWrites
  <2>2. NoQueue.at = -1
    BY DEF NoQueue
  <2> QED  BY <2>1, <2>2
<1>7. ASSUME DemoteMembers \/ PromoteListed  PROVE  FALSE
  <2>1. CASE DemoteMembers
    BY <1>6, <2>1 DEF DemoteMembers
  <2>2. CASE PromoteListed
    <3>1. Len(queueTx.ids) \in Nat
      BY ListsAreSequences DEF QueueInv, QueueOpen
    <3>2. queueTx.at + 1 \in Nat
      BY <2>2, <3>1 DEF PromoteListed
    <3> QED  BY <1>6, <2>2, <3>2 DEF PromoteListed
  <2> QED  BY <1>7, <2>1, <2>2
<1> QED  BY <1>1, <1>3, <1>4, <1>5, <1>7 DEF PoolsAll, PoolsNext, SetQueueSteps

\* What the transaction leaves is the order of its list.
LEMMA CommittedOrder ==
    ASSUME QueueInv, HandleSetQueue
    PROVE  LET members == pools'[queueTx.pool]
           IN  InListOrder(members, queueTx.ids, Queued(members) \ queueTx.late)
<1> DEFINE p       == queueTx.pool
           ids     == queueTx.ids
           members == pools'[p]
           gs      == Queued(members) \ queueTx.late
<1>1. /\ QueueOpen /\ QueueLocks /\ ids \in Lists(Games) /\ queueTx.at = Len(ids)
      /\ Len(ids) \in Nat /\ DOMAIN ids = 1..Len(ids)
  <2>1. QueueOpen /\ queueTx.at = Len(ids)
    BY DEF HandleSetQueue, QueueInv
  <2>2. ids \in Lists(Games)
    BY <2>1 DEF QueueOpen
  <2>3. Len(ids) \in Nat /\ DOMAIN ids = 1..Len(ids)
    BY <2>2, ListsAreSequences
  <2> QED  BY <2>1, <2>2, <2>3 DEF HandleSetQueue, QueueInv, NULL
<1>2. members = [g \in Members(p) |-> IF g \in DOMAIN queueTx.new THEN queueTx.new[g] ELSE pools[p][g]]
  BY <1>1 DEF HandleSetQueue, SetMembers, QueueInv, QueueOpen
<1> HIDE DEF members
<1>3. ASSUME NEW g \in gs
      PROVE  g \in Range(ids) /\ LastIndex(ids, g) = members[g] + 1 /\ members[g] \in Int
  <2>1. g \in DOMAIN members /\ members[g] # NULL /\ g \notin queueTx.late
    BY DEF Queued
  <2>2. g \in DOMAIN queueTx.new
    BY <1>1, <1>2, <2>1 DEF QueueLocks, Queued, Members
  <2>3. members[g] = queueTx.new[g] /\ members[g] \in Int
    BY <1>1, <1>2, <2>1, <2>2 DEF QueueLocks
  <2>4. PlaceOf(g, members[g] + 1)
    BY <1>1, <2>1, <2>2, <2>3 DEF QueueLocks
  <2> DEFINE i == members[g] + 1
  <2>5. /\ i \in 1..Len(ids) /\ ids[i] = g
        /\ \A j \in 1..Len(ids) : ids[j] = ids[i] => j <= i
    BY <1>1, <2>4 DEF PlaceOf
  <2> HIDE DEF i
  <2>6. LastIndex(ids, g) = i
    BY <1>1, <2>5, LastPlace
  <2>7. g \in Range(ids)
    <3>1. i \in DOMAIN ids
      BY <1>1, <2>5
    <3>2. \E j \in DOMAIN ids : ids[j] = g
      BY <2>5, <3>1
    <3> QED  BY <3>2, Zenon DEF Range
  <2> QED  BY <2>3, <2>6, <2>7 DEF i
<1>4. gs \subseteq Range(ids)
  BY <1>3
<1>5. \A g, h \in gs : LastIndex(ids, g) < LastIndex(ids, h) => members[g] < members[h]
  BY <1>3
<1> QED  BY <1>4, <1>5 DEF InListOrder, members

(***************************************************************************)
(* However long the list and whoever joins or leaves the pool between the  *)
(* statements of HandleSetQueue: the games queued when it has committed    *)
(* are listed ones, in the order of the list, but for those that an import *)
(* put there after the demotion.                                           *)
(***************************************************************************)
THEOREM QueueFollowsList == PoolsSpec => QueueOrdered
<1> DEFINE Kept ==
      queueTx # NoQueue /\ queueTx' = NoQueue =>
         LET members == pools'[queueTx.pool]
         IN  InListOrder(members, queueTx.ids, Queued(members) \ queueTx.late)
<1>1. PoolsInit /\ LibraryInit => QueueInv
  BY DEF PoolsInit, LibraryInit, QueueInv
<1>2. QueueInv /\ [PoolsAll]_<<poolsVars, libraryVars>> => QueueInv'
  <2>1. ASSUME QueueInv, UNCHANGED <<poolsVars, libraryVars>>  PROVE  QueueInv'
    BY <2>1, OthersKeepQueue DEF libraryVars, txVars, QueueInv, Members
  <2> QED  BY <2>1, QueueInvKept
<1>3. QueueInv /\ [PoolsAll]_<<poolsVars, libraryVars>> => [Kept]_<<poolsVars, libraryVars>>
  BY OnlySetQueueEnds, CommittedOrder
<1> QED  BY <1>1, <1>2, <1>3, PTL DEF PoolsSpec, QueueOrdered, PoolsAll

---------------------------------------------------------------------------
(* The tags of a game. *)

TagTypes ==
    /\ tags \subseteq Spellings
    /\ links \in [TaggedGames -> SUBSET Spellings]
    /\ replacing \in [Requests -> {NoTags} \cup ReplaceRequests]

LEMMA ResolvedSpellings ==
    ASSUME NEW names \in SUBSET Spellings, NEW have \in SUBSET Spellings,
           NEW W \in Resolutions(names, have)
    PROVE  W \in SUBSET Spellings
BY DEF Resolutions

LEMMA RenamedSpellings ==
    ASSUME NEW S \in SUBSET Spellings, NEW n, NEW m \in Spellings
    PROVE  Renamed(S, n, m) \in SUBSET Spellings
BY DEF Renamed

\* A request renamed with its tags, or broken by a deletion, is a request still.
LEMMA StillRunning ==
    ASSUME NEW x \in ReplaceRequests, NEW n, NEW m \in Spellings
    PROVE  /\ [x EXCEPT !.want = Renamed(@, n, m), !.read = Renamed(@, n, m)] \in ReplaceRequests
           /\ [x EXCEPT !.broken = TRUE] \in ReplaceRequests
<1>1. Renamed(x.want, n, m) \in SUBSET Spellings /\ Renamed(x.read, n, m) \in SUBSET Spellings
  BY RenamedSpellings DEF ReplaceRequests
<1>2. PICK w \in SUBSET Spellings, r \in SUBSET Spellings :
         w = Renamed(x.want, n, m) /\ r = Renamed(x.read, n, m)
  BY <1>1
<1>3. [x EXCEPT !.want = w, !.read = r] \in ReplaceRequests
  BY DEF ReplaceRequests
<1> QED  BY <1>2, <1>3 DEF ReplaceRequests

LEMMA TagsTyped ==
    ASSUME TagTypes, TagsNext
    PROVE  TagTypes'
<1> USE DEF TagTypes
<1>1. ASSUME NEW n \in Spellings, HandleCreateTag(n)  PROVE  TagTypes'
  BY <1>1 DEF HandleCreateTag
<1>2. ASSUME NEW n \in Spellings, HandleDeleteTag(n)  PROVE  TagTypes'
  <2>1. \A r \in Requests : replacing'[r] \in {NoTags} \cup ReplaceRequests
    BY <1>2, StillRunning DEF HandleDeleteTag
  <2> QED  BY <1>2, <2>1 DEF HandleDeleteTag
<1>3. ASSUME NEW n \in Spellings, NEW m \in Spellings, HandleUpdateTag(n, m)  PROVE  TagTypes'
  <2>1. \A r \in Requests : replacing'[r] \in {NoTags} \cup ReplaceRequests
    BY <1>3, StillRunning DEF HandleUpdateTag
  <2>2. \A g \in TaggedGames : links'[g] \in SUBSET Spellings
    BY <1>3, RenamedSpellings DEF HandleUpdateTag
  <2> QED  BY <1>3, <2>1, <2>2, RenamedSpellings DEF HandleUpdateTag
<1>4. ASSUME NEW g \in TaggedGames, NEW n \in Spellings, ReconcileTags(g, n)  PROVE  TagTypes'
  BY <1>4 DEF ReconcileTags, ResolveOrCreateTag
<1>5. ASSUME NEW r \in Requests, NEW g \in TaggedGames, NEW names \in SUBSET Spellings,
             HandleReplaceTags(r, g, names)
      PROVE  TagTypes'
  <2>1. PICK W \in Resolutions(names, tags) :
           replacing' = [replacing EXCEPT ![r] =
             [game |-> g, want |-> W, read |-> links[g], create |-> W \ tags, broken |-> FALSE]]
    BY <1>5 DEF HandleReplaceTags
  <2>2. [game |-> g, want |-> W, read |-> links[g], create |-> W \ tags, broken |-> FALSE]
           \in ReplaceRequests
    BY ResolvedSpellings DEF ReplaceRequests
  <2> QED  BY <1>5, <2>1, <2>2 DEF HandleReplaceTags
<1>6. ASSUME NEW r \in Requests, ReplaceTags(r)  PROVE  TagTypes'
  <2>1. replacing[r] \in ReplaceRequests
    BY <1>6 DEF ReplaceTags
  <2>2. \A g \in TaggedGames : links'[g] \in SUBSET Spellings
    BY <1>6, <2>1 DEF ReplaceTags, ReplaceRequests
  <2> QED  BY <1>6, <2>1, <2>2 DEF ReplaceTags, ReplaceRequests
<1>7. ASSUME NEW r \in Requests, ReplaceTagsFails(r)  PROVE  TagTypes'
  BY <1>7 DEF ReplaceTagsFails
<1> QED  BY <1>1, <1>2, <1>3, <1>4, <1>5, <1>6, <1>7 DEF TagsNext

\* A request ends by its commit, or without having written.
LEMMA EndsByCommit ==
    ASSUME TagTypes, TagsNext, NEW r \in Requests, replacing[r] # NoTags, replacing'[r] = NoTags
    PROVE  ReplaceTags(r) \/ links' = links
<1> USE DEF TagTypes
<1>1. ASSUME NEW n \in Spellings, HandleCreateTag(n) \/ HandleDeleteTag(n)  PROVE  FALSE
  <2>1. replacing[r] \in ReplaceRequests
    OBVIOUS
  <2>2. [replacing[r] EXCEPT !.broken = TRUE] \in ReplaceRequests
    BY <1>1, <2>1, StillRunning
  <2>3. replacing'[r] \in {replacing[r], [replacing[r] EXCEPT !.broken = TRUE]}
    BY <1>1 DEF HandleCreateTag, HandleDeleteTag
  <2> QED  BY <2>1, <2>2, <2>3, TagsAssumption DEF TagsAssumption
<1>2. ASSUME NEW n \in Spellings, NEW m \in Spellings, HandleUpdateTag(n, m)  PROVE  FALSE
  <2>1. replacing[r] \in ReplaceRequests
    OBVIOUS
  <2>2. [replacing[r] EXCEPT !.want = Renamed(@, n, m), !.read = Renamed(@, n, m)]
           \in ReplaceRequests
    BY <2>1, StillRunning
  <2>3. replacing'[r]
           = [replacing[r] EXCEPT !.want = Renamed(@, n, m), !.read = Renamed(@, n, m)]
    BY <1>2 DEF HandleUpdateTag
  <2> QED  BY <2>2, <2>3, TagsAssumption DEF TagsAssumption
<1>3. ASSUME NEW g \in TaggedGames, NEW n \in Spellings, ReconcileTags(g, n)  PROVE  FALSE
  BY <1>3 DEF ReconcileTags
<1>4. ASSUME NEW q \in Requests, NEW g \in TaggedGames, NEW names \in SUBSET Spellings,
             HandleReplaceTags(q, g, names)
      PROVE  links' = links
  BY <1>4 DEF HandleReplaceTags
<1>5. ASSUME NEW q \in Requests, ReplaceTags(q)  PROVE  q = r
  BY <1>5 DEF ReplaceTags
<1>6. ASSUME NEW q \in Requests, ReplaceTagsFails(q)  PROVE  links' = links
  BY <1>6 DEF ReplaceTagsFails
<1> QED  BY <1>1, <1>2, <1>3, <1>4, <1>5, <1>6 DEF TagsNext

(***************************************************************************)
(* However many requests replace the tags of a game at once, and whatever  *)
(* is merged, renamed or deleted meanwhile: the one that ends takes away   *)
(* no link that it had not read.                                           *)
(***************************************************************************)
THEOREM MergedLinksStay == TagsSpec => MergedTagsStay
<1> DEFINE Stay(r) == replacing[r] # NoTags /\ replacing'[r] = NoTags =>
             LET g == replacing[r].game IN links[g] \ replacing[r].read \subseteq links'[g]
<1>1. TagsInit => TagTypes
  BY DEF TagsInit, TagTypes
<1>2. TagTypes /\ [TagsNext]_tagsVars => TagTypes'
  BY TagsTyped DEF TagTypes, tagsVars
<1>3. TagTypes /\ [TagsNext]_tagsVars => [\A r \in Requests : Stay(r)]_tagsVars
  <2> SUFFICES ASSUME TagTypes, TagsNext, NEW r \in Requests,
                      replacing[r] # NoTags, replacing'[r] = NoTags
               PROVE  links[replacing[r].game] \ replacing[r].read
                         \subseteq links'[replacing[r].game]
    OBVIOUS
  <2>1. CASE ReplaceTags(r)
    BY <2>1 DEF ReplaceTags, TagTypes, ReplaceRequests
  <2>2. CASE links' = links
    BY <2>2
  <2> QED  BY <2>1, <2>2, EndsByCommit
<1> QED  BY <1>1, <1>2, <1>3, PTL DEF TagsSpec, MergedTagsStay

---------------------------------------------------------------------------
(* The fixes of smells. *)

GameFields == [status : PlayStatuses, wish : BOOLEAN, rated : BOOLEAN]

SmellTypes ==
    /\ smGame \in [SmellGames -> GameFields]
    /\ smRows = [g \in SmellGames |-> smRows[g]]
    /\ smEdited \in BOOLEAN

\* A fix is of games that its check flagged, and flags still unless somebody wrote.
FixFlagged ==
    smFix # NoFix =>
        /\ smFix.check \in Fixable
        /\ smFix.games \subseteq SmellGames
        /\ ~smEdited => smFix.games \subseteq Detect(smFix.check)

SmellInv == SmellTypes /\ FixFlagged

\* What a fix writes to one game.
LEMMA FixWrites ==
    ASSUME SmellInv, ApplyFix, NEW g \in smFix.games
    PROVE  /\ g \in SmellGames
           /\ smFix.check = "played-but-not-started" =>
                 smGame'[g] = [smGame[g] EXCEPT !.status = "in_progress"]
           /\ smFix.check = "in-progress-untouched" =>
                 smGame'[g] = [smGame[g] EXCEPT !.status = "not_started"]
           /\ smFix.check = "wishlisted-yet-owned" =>
                 \E w \in BOOLEAN : /\ smGame'[g] = [smGame[g] EXCEPT !.wish = w]
                                    /\ w => smGame[g].wish /\ smRows[g] = {}
<1>1. g \in SmellGames /\ smFix.check \in Fixable
  BY DEF SmellInv, FixFlagged, ApplyFix
<1>2. smGame'[g] = CASE smFix.check = "played-but-not-started" -> [smGame[g] EXCEPT !.status = "in_progress"]
                     [] smFix.check = "in-progress-untouched"  -> [smGame[g] EXCEPT !.status = "not_started"]
                     [] OTHER -> [smGame[g] EXCEPT !.wish = @ /\ smRows[g] = {}]
  BY <1>1 DEF ApplyFix
<1>3. PICK w \in BOOLEAN : w = (smGame[g].wish /\ smRows[g] = {})
  OBVIOUS
<1> QED  BY <1>1, <1>2, <1>3

LEMMA FixedGames ==
    ASSUME SmellInv, ApplyFix
    PROVE  SmellTypes'
<1>1. ASSUME NEW g \in SmellGames
      PROVE  smGame'[g] \in GameFields
  <2>1. CASE g \notin smFix.games
    BY <2>1 DEF ApplyFix, SmellInv, SmellTypes
  <2>2. CASE g \in smFix.games
    <3>1. smGame[g] \in GameFields
      BY DEF SmellInv, SmellTypes
    <3>2. smFix.check \in Fixable
      BY DEF SmellInv, FixFlagged, ApplyFix
    <3>3. CASE smFix.check = "played-but-not-started"
      BY <2>2, <3>1, <3>3, FixWrites, ZenonT(60) DEF GameFields, PlayStatuses
    <3>4. CASE smFix.check = "in-progress-untouched"
      BY <2>2, <3>1, <3>4, FixWrites, ZenonT(60) DEF GameFields, PlayStatuses
    <3>5. CASE smFix.check = "wishlisted-yet-owned"
      BY <2>2, <3>1, <3>5, FixWrites, ZenonT(60) DEF GameFields
    <3> QED  BY <3>2, <3>3, <3>4, <3>5 DEF Fixable
  <2> QED  BY <2>1, <2>2
<1> QED  BY <1>1 DEF ApplyFix, SmellInv, SmellTypes

LEMMA SmellStep ==
    ASSUME SmellInv, SmellsNext
    PROVE  SmellInv'
<1> USE DEF SmellInv
<1>1. ASSUME NEW check \in Registry, NEW ids \in SUBSET SmellGames, Revalidate(check, ids)
      PROVE  SmellInv'
  <2>1. SmellTypes'
    BY <1>1 DEF Revalidate, SmellTypes
  <2>2. PICK S : /\ S = ids \cap Detect(check) /\ smFix' = [check |-> check, games |-> S]
                 /\ check \in Fixable /\ UNCHANGED <<smGame, smRows, smIgnores>>
    BY <1>1 DEF Revalidate
  <2>3. Detect(check)' = Detect(check)
    BY <2>2 DEF Detect, Flags, OrphanGame, StorefrontLess, MissingOwnership, ImpossibleDate,
                WishlistedYetOwned, InvalidStorefront, PlayedButNotStarted,
                InProgressUntouched, Unrated, Hours
  <2>4. smFix'.check = check /\ smFix'.games = S
    BY <2>2
  <2> QED  BY <2>1, <2>2, <2>3, <2>4 DEF FixFlagged
<1>2. CASE ApplyFix
  BY <1>2, FixedGames DEF ApplyFix, FixFlagged
<1>3. ASSUME NEW check \in Registry, NEW ids \in SUBSET SmellGames,
             HandleIgnore(check, ids) \/ HandleRestore(check, ids)
      PROVE  SmellInv'
  BY <1>3 DEF HandleIgnore, HandleRestore, SmellTypes, FixFlagged
<1>4. CASE OtherWriter
  BY <1>4, SmellsAssumption DEF OtherWriter, SmellTypes, GameFields, FixFlagged,
                              SmellsAssumption
<1> QED  BY <1>1, <1>2, <1>3, <1>4 DEF SmellsNext

\* What the checks see of a game.
LEMMA FixFits ==
    ASSUME SmellInv, ApplyFix, ~smEdited, NEW g \in smFix.games, NEW c \in Fixable, smFix.check = c
    PROVE  \A check \in Registry : Flags(check, g)' => Flags(check, g) /\ check # c
<1> USE DEF Registry, Fixable
<1>1. /\ Flags(c, g) /\ g \in SmellGames
      /\ smGame[g] \in GameFields
      /\ smRows' = smRows /\ PlayedFrom \in Nat \ {0}
  BY SmellsAssumption DEF SmellsAssumption, SmellInv, SmellTypes, FixFlagged, ApplyFix, Detect
<1>2. CASE c = "played-but-not-started"
  <2>1. smGame'[g] = [smGame[g] EXCEPT !.status = "in_progress"]
    BY <1>2, FixWrites
  <2>2. smGame[g].status = "not_started" /\ Hours(g) >= PlayedFrom /\ Hours(g) # 0
    BY <1>1, <1>2 DEF Flags, PlayedButNotStarted
  <2> QED
    BY <1>1, <1>2, <2>1, <2>2, ZenonT(60)
       DEF Flags, OrphanGame, StorefrontLess, MissingOwnership, ImpossibleDate, WishlistedYetOwned,
           InvalidStorefront, PlayedButNotStarted, InProgressUntouched, Unrated, Hours, GameFields
<1>3. CASE c = "in-progress-untouched"
  <2>1. smGame'[g] = [smGame[g] EXCEPT !.status = "not_started"]
    BY <1>3, FixWrites
  <2>2. smGame[g].status = "in_progress" /\ Hours(g) = 0 /\ ~(Hours(g) >= PlayedFrom)
    BY <1>1, <1>3 DEF Flags, InProgressUntouched
  <2> QED
    BY <1>1, <1>3, <2>1, <2>2, ZenonT(60)
       DEF Flags, OrphanGame, StorefrontLess, MissingOwnership, ImpossibleDate, WishlistedYetOwned,
           InvalidStorefront, PlayedButNotStarted, InProgressUntouched, Unrated, Hours, GameFields
<1>4. CASE c = "wishlisted-yet-owned"
  <2>1. smGame[g].wish /\ smRows[g] # {}
    BY <1>1, <1>4 DEF Flags, WishlistedYetOwned
  <2>2. smGame'[g] = [smGame[g] EXCEPT !.wish = FALSE]
    BY <1>4, <2>1, FixWrites
  <2> QED
    BY <1>1, <1>4, <2>1, <2>2, ZenonT(60)
       DEF Flags, OrphanGame, StorefrontLess, MissingOwnership, ImpossibleDate, WishlistedYetOwned,
           InvalidStorefront, PlayedButNotStarted, InProgressUntouched, Unrated, Hours, GameFields
<1> QED  BY <1>2, <1>3, <1>4

(***************************************************************************)
(* Whatever games, rows and dismissals there are: a fix of games that      *)
(* nobody edited since its check looked at them takes that smell away and  *)
(* brings none, for all nine checks and three fixes.                       *)
(***************************************************************************)
THEOREM FixesNeverFight == SmellsSpec => FixesSettle
<1> DEFINE Settles == smFix # NoFix /\ ApplyFix /\ ~smEdited =>
               \A g \in smFix.games : Smelly(g)' \subseteq Smelly(g) \ {smFix.check}
<1>1. SmellsInit => SmellInv
  BY SmellsAssumption DEF SmellsAssumption, SmellsInit, SmellInv, SmellTypes, GameFields, FixFlagged
<1>2. SmellInv /\ [SmellsNext]_smellVars => SmellInv'
  <2> SUFFICES ASSUME SmellInv, [SmellsNext]_smellVars  PROVE  SmellInv'
    OBVIOUS
  <2>1. CASE UNCHANGED smellVars
    <3>1. \A c : Detect(c)' = Detect(c)
      BY <2>1 DEF smellVars, Detect, Flags, OrphanGame, StorefrontLess, MissingOwnership,
           ImpossibleDate, WishlistedYetOwned, InvalidStorefront, PlayedButNotStarted,
           InProgressUntouched, Unrated, Hours
    <3>2. PICK c : c = smFix.check
      OBVIOUS
    <3>3. smFix' = smFix /\ (~smEdited => smFix.games \subseteq Detect(c))
             => (~smEdited => smFix'.games \subseteq Detect(c)')
      BY <3>1
    <3> QED  BY <2>1, <3>1, <3>2, <3>3 DEF smellVars, SmellInv, SmellTypes, FixFlagged
  <2> QED  BY <2>1, SmellStep
<1>3. SmellInv => Settles
  <2> SUFFICES ASSUME SmellInv, ApplyFix, ~smEdited, NEW g \in smFix.games
               PROVE  Smelly(g)' \subseteq Smelly(g) \ {smFix.check}
    OBVIOUS
  <2>1. smFix.check \in Fixable
    BY DEF SmellInv, FixFlagged, ApplyFix
  <2>2. \A check \in Registry : Flags(check, g)' => Flags(check, g) /\ check # smFix.check
    BY <2>1, FixFits
  <2>3. smIgnores' = smIgnores
    BY DEF ApplyFix
  <2> QED  BY <2>2, <2>3 DEF Smelly, Detect
<1> QED  BY <1>1, <1>2, <1>3, PTL DEF SmellsSpec, FixesSettle

---------------------------------------------------------------------------
(* The jobs a client polls. *)

LEMMA LargestExists ==
    ASSUME NEW S, IsFiniteSet(S), S \subseteq Nat, S # {}
    PROVE  LargestOf(S) \in S /\ \A y \in S : LargestOf(S) >= y
  BY GreatestNumber DEF LargestOf

---------------------------------------------------------------------------
(* Pages. *)

\* What is at place r is on one page, and every page has a first place.
LEMMA PageOfPlace ==
    ASSUME NEW n \in Nat, NEW r \in 0..(n - 1), NEW d \in Nat \ {0}
    PROVE  /\ r \div d + 1 \in 1..CeilDiv(n, d)
           /\ \A p \in Nat \ {0} : (p - 1) * d <= r /\ r < p * d <=> p = r \div d + 1
<1> DEFINE q == r \div d
           c == CeilDiv(n, d)
<1>1. q \in Nat /\ q * d <= r /\ r < q * d + d
  BY Quotient
<1>2. c \in Nat /\ c * d <= n + d - 1 /\ n + d - 1 < c * d + d
  BY Quotient DEF CeilDiv
<1> HIDE DEF q, c
<1>3. q < c
  <2>1. q * d < c * d
    BY <1>1, <1>2, Products
  <2> QED  BY <1>1, <1>2, <2>1, Products
<1>4. ASSUME NEW p \in Nat \ {0}
      PROVE  (p - 1) * d <= r /\ r < p * d <=> p = q + 1
  <2>1. p * d = (p - 1) * d + d /\ (p - 1) * d \in Nat /\ q * d \in Nat
    <3>1. p - 1 \in Nat /\ (p - 1) + 1 = p
      OBVIOUS
    <3> QED  BY <1>1, <3>1, Products
  <2>2. CASE p = q + 1
    BY <1>1, <2>1, <2>2
  <2>3. CASE p - 1 < q
    <3>1. p * d <= q * d
      BY <1>1, <2>3, Products
    <3> QED  BY <1>1, <2>1, <2>3, <3>1
  <2>4. CASE q < p - 1
    <3>1. (q + 1) * d <= (p - 1) * d
      BY <1>1, <2>4, Products
    <3>2. (q + 1) * d = q * d + d
      BY <1>1, Products
    <3> QED  BY <1>1, <2>1, <2>4, <3>1, <3>2
  <2> QED  BY <1>1, <2>2, <2>3, <2>4
<1> QED  BY <1>1, <1>2, <1>3, <1>4 DEF q, c

LEMMA FirstOfPage ==
    ASSUME NEW n \in Nat, NEW d \in Nat \ {0}, NEW p \in 1..CeilDiv(n, d)
    PROVE  /\ (p - 1) * d \in 0..(n - 1)
           /\ (p - 1) * d < p * d
<1> DEFINE c == CeilDiv(n, d)
<1>1. c \in Nat /\ c * d <= n + d - 1
  BY Quotient DEF CeilDiv
<1> HIDE DEF c
<1>2. p \in Nat \ {0} /\ p <= c
  BY <1>1 DEF c
<1>3. p * d <= c * d /\ c * d \in Nat
  BY <1>1, <1>2, Products
<1>4. p - 1 \in Nat /\ (p - 1) + 1 = p
  BY <1>2
<1>5. p * d = (p - 1) * d + d /\ (p - 1) * d \in Nat
  BY <1>4, Products
<1> QED  BY <1>1, <1>3, <1>5

---------------------------------------------------------------------------
(* What a poll answers. *)

JobRecords ==
    [status : {"absent", "pending", "processing", "completed", "failed", "cancelled", "deleted"},
     started_at : Nat, completed_at : Nat]

SomeJob == JobIds \cup {NoJob}

Answers == [active : SomeJob, last : SomeJob]

PollTypes ==
    /\ vwJobs \in [JobIds -> JobRecords]
    /\ vwClock \in Nat
    /\ vwPoll = <<>> \/ \E a \in SomeJob : vwPoll = <<Answer(a, NoJob)>>
    /\ vwSeen \in Answers \X Answers

LEMMA FoundJobs ==
    ASSUME PollTypes
    PROVE  /\ NewestActive \in SomeJob
           /\ LastEnded \in SomeJob
           /\ \A j \in JobIds : IsTerminal(j) =>
                 /\ LastEnded \in JobIds
                 /\ vwJobs[LastEnded].completed_at >= vwJobs[j].completed_at
<1> USE JobViewsAssumption DEF JobViewsAssumption
<1>1. \A A \in SUBSET JobIds : A # {} => LargestOf(A) \in A
  BY LargestExists, FS_Subset
<1>2. NewestActive \in SomeJob
  <2> DEFINE act == {j \in JobIds : IsActive(j)}
  <2>1. act # {} => LargestOf(act) \in JobIds
    BY <1>1
  <2> HIDE DEF act
  <2> QED  BY <2>1 DEF NewestActive, SomeJob, act
<1> DEFINE ended  == {j \in JobIds : IsTerminal(j)}
           stamps == {vwJobs[j].completed_at : j \in ended}
           newest == {j \in ended : \A k \in ended : vwJobs[k].completed_at <= vwJobs[j].completed_at}
<1>3. ended # {} => newest # {}
  <2> SUFFICES ASSUME ended # {}  PROVE  newest # {}
    OBVIOUS
  <2>1. IsFiniteSet(ended)
    BY FS_Subset
  <2>2. IsFiniteSet(stamps)
    <3> DEFINE f == [j \in ended |-> vwJobs[j].completed_at]
    <3>1. f \in Surjection(ended, stamps)
      BY DEF Surjection
    <3> HIDE DEF f, ended, stamps
    <3> QED  BY <2>1, <3>1, FS_Surjection
  <2>3. stamps \subseteq Nat /\ stamps # {}
    <3>1. \A j \in JobIds : vwJobs[j].completed_at \in Nat
      BY DEF PollTypes, JobRecords
    <3> QED  BY <3>1
  <2>4. PICK t \in stamps : \A u \in stamps : t >= u
    <3> HIDE DEF stamps
    <3> QED  BY <2>2, <2>3, LargestExists
  <2>5. PICK j \in ended : vwJobs[j].completed_at = t
    OBVIOUS
  <2>6. \A k \in ended : vwJobs[k].completed_at <= vwJobs[j].completed_at
    <3> SUFFICES ASSUME NEW k \in ended  PROVE  vwJobs[k].completed_at <= vwJobs[j].completed_at
      OBVIOUS
    <3>1. vwJobs[k].completed_at \in stamps
      OBVIOUS
    <3> HIDE DEF stamps
    <3> QED  BY <2>3, <2>4, <2>5, <3>1
  <2> QED  BY <2>6
<1>4. newest # {} => LargestOf(newest) \in newest
  BY <1>1
<1>5. LastEnded = IF ended = {} THEN NoJob ELSE LargestOf(newest)
  BY DEF LastEnded
<1>6. LastEnded \in SomeJob /\ (ended # {} => LastEnded \in newest)
  <2> HIDE DEF newest
  <2>1. newest \subseteq JobIds
    BY DEF newest
  <2> HIDE DEF ended
  <2> QED  BY <1>3, <1>4, <1>5, <2>1 DEF SomeJob
<1>7. ASSUME NEW j \in JobIds, IsTerminal(j)
      PROVE  /\ LastEnded \in JobIds
             /\ vwJobs[LastEnded].completed_at >= vwJobs[j].completed_at
  <2>1. j \in ended /\ LastEnded \in newest
    BY <1>6, <1>7
  <2>2. LastEnded \in JobIds /\ vwJobs[j].completed_at <= vwJobs[LastEnded].completed_at
    BY <2>1
  <2>3. vwJobs[j].completed_at \in Nat /\ vwJobs[LastEnded].completed_at \in Nat
    BY <2>2 DEF PollTypes, JobRecords
  <2> QED  BY <2>2, <2>3
<1> QED  BY <1>2, <1>6, <1>7

LEMMA RecordsTyped ==
    ASSUME PollTypes, NEW j \in JobIds, NEW st \in {"pending", "processing", "completed", "failed", "cancelled", "deleted"}
    PROVE  /\ [vwJobs EXCEPT ![j].status = st] \in [JobIds -> JobRecords]
           /\ [vwJobs EXCEPT ![j].status = st, ![j].started_at = vwClock] \in [JobIds -> JobRecords]
           /\ [vwJobs EXCEPT ![j].status = st, ![j].completed_at = vwClock] \in [JobIds -> JobRecords]
<1>1. vwJobs \in [JobIds -> JobRecords] /\ vwJobs[j] \in JobRecords /\ vwClock \in Nat
  BY DEF PollTypes
<1>2. /\ [vwJobs[j] EXCEPT !.status = st] \in JobRecords
      /\ [vwJobs[j] EXCEPT !.status = st, !.started_at = vwClock] \in JobRecords
      /\ [vwJobs[j] EXCEPT !.status = st, !.completed_at = vwClock] \in JobRecords
  BY <1>1 DEF JobRecords
<1>3. ASSUME NEW rec \in JobRecords  PROVE  [vwJobs EXCEPT ![j] = rec] \in [JobIds -> JobRecords]
  BY <1>1
<1>4. /\ [vwJobs EXCEPT ![j].status = st]
           = [vwJobs EXCEPT ![j] = [vwJobs[j] EXCEPT !.status = st]]
      /\ [vwJobs EXCEPT ![j].status = st, ![j].started_at = vwClock]
           = [vwJobs EXCEPT ![j] = [vwJobs[j] EXCEPT !.status = st, !.started_at = vwClock]]
      /\ [vwJobs EXCEPT ![j].status = st, ![j].completed_at = vwClock]
           = [vwJobs EXCEPT ![j] = [vwJobs[j] EXCEPT !.status = st, !.completed_at = vwClock]]
  BY <1>1
<1> QED  BY <1>2, <1>3, <1>4

LEMMA PollTyped ==
    ASSUME PollTypes, ViewsNext
    PROVE  PollTypes'
<1>1. ASSUME NEW j \in JobIds, JobStarts(j) \/ JobRuns(j) \/ JobReopened(j) \/ HandleDeleteJob(j)
      PROVE  PollTypes'
  <2>1. UNCHANGED <<vwClock, vwPoll, vwSeen>>
    BY <1>1 DEF JobStarts, JobRuns, JobReopened, HandleDeleteJob
  <2>2. vwJobs' \in [JobIds -> JobRecords]
    <3>1. \/ \E st \in {"pending", "processing", "deleted"} : vwJobs' = [vwJobs EXCEPT ![j].status = st]
          \/ vwJobs' = [vwJobs EXCEPT ![j].status = "processing", ![j].started_at = vwClock]
      BY <1>1 DEF JobStarts, JobRuns, JobReopened, HandleDeleteJob
    <3>2. ASSUME NEW st \in {"pending", "processing", "deleted"}, vwJobs' = [vwJobs EXCEPT ![j].status = st]
          PROVE  vwJobs' \in [JobIds -> JobRecords]
      BY <3>2, RecordsTyped, Zenon
    <3>3. ASSUME vwJobs' = [vwJobs EXCEPT ![j].status = "processing", ![j].started_at = vwClock]
          PROVE  vwJobs' \in [JobIds -> JobRecords]
      BY <3>3, RecordsTyped, Zenon
    <3> QED  BY <3>1, <3>2, <3>3
  <2> QED  BY <2>1, <2>2 DEF PollTypes
<1>2. ASSUME NEW j \in JobIds, NEW s \in {"completed", "failed", "cancelled"}, JobEnds(j, s)
      PROVE  PollTypes'
  <2>1. vwJobs' \in [JobIds -> JobRecords]
    BY <1>2, RecordsTyped DEF JobEnds
  <2> QED  BY <1>2, <2>1 DEF JobEnds, PollTypes
<1>3. CASE HandleJobTypeStatus
  <2>1. CASE vwPoll = <<>>
    BY <1>3, <2>1, FoundJobs DEF HandleJobTypeStatus, PollTypes
  <2>2. CASE vwPoll # <<>>
    <3>1. PICK a \in SomeJob : vwPoll = <<Answer(a, NoJob)>>
      BY <2>2 DEF PollTypes
    <3>2. [vwPoll[1] EXCEPT !.last = LastEnded] \in Answers
      BY <3>1, FoundJobs DEF Answers, Answer, SomeJob
    <3> QED  BY <1>3, <2>2, <3>2 DEF HandleJobTypeStatus, PollTypes
  <2> QED  BY <2>1, <2>2
<1>4. ASSUME NEW r \in RowIds, ItemWritten(r)  PROVE  PollTypes'
  BY <1>4 DEF ItemWritten, PollTypes
<1> QED  BY <1>1, <1>2, <1>3, <1>4 DEF ViewsNext

(***************************************************************************)
(* However many jobs start, end, are retried and deleted while a client    *)
(* polls: the first answer without an active job names the one that ended  *)
(* since, or one that ended no earlier, although the two queries of a poll *)
(* see different states.                                                   *)
(***************************************************************************)
THEOREM PollsSeeTheEnd == ViewsSpec => PollSeesCompletion
<1> DEFINE Sees == LET was == vwSeen[2].active
                       now == vwSeen'[2]
                   IN  vwPoll # <<>> /\ vwPoll' = <<>> /\ was # NoJob /\ now.active = NoJob /\ IsTerminal(was)
                         => now.last # NoJob /\ vwJobs[now.last].completed_at >= vwJobs[was].completed_at
<1>1. ViewsInit => PollTypes
  BY DEF ViewsInit, PollTypes, JobRecords, Answers, Answer, SomeJob
<1>2. PollTypes /\ [ViewsNext]_viewVars => PollTypes'
  BY PollTyped DEF PollTypes, viewVars
<1>3. PollTypes /\ [ViewsNext]_viewVars => [Sees]_viewVars
  <2> SUFFICES ASSUME PollTypes, ViewsNext, vwPoll # <<>>, vwPoll' = <<>>,
                      vwSeen[2].active # NoJob, IsTerminal(vwSeen[2].active)
               PROVE  /\ vwSeen'[2].last # NoJob
                      /\ vwJobs[vwSeen'[2].last].completed_at
                            >= vwJobs[vwSeen[2].active].completed_at
    OBVIOUS
  <2>1. vwSeen' = <<vwSeen[2], [vwPoll[1] EXCEPT !.last = LastEnded]>>
    BY DEF ViewsNext, JobStarts, JobRuns, JobReopened, HandleDeleteJob, JobEnds, ItemWritten,
           HandleJobTypeStatus
  <2>2. PICK a \in SomeJob : vwPoll = <<Answer(a, NoJob)>>
    BY DEF PollTypes
  <2>3. vwSeen'[2].last = LastEnded
    BY <2>1, <2>2 DEF Answer
  <2>4. vwSeen[2].active \in JobIds
    BY DEF PollTypes, Answers, SomeJob
  <2>5. NoJob \notin JobIds
    BY JobViewsAssumption DEF JobViewsAssumption, NoJob
  <2> QED  BY <2>3, <2>4, <2>5, FoundJobs
<1> QED  BY <1>1, <1>2, <1>3, PTL DEF ViewsSpec, PollSeesCompletion

---------------------------------------------------------------------------
(* Pages and counts of one state. *)

\* (A name for the provers, which else take k \in keys for a sort of its own.)
Numbered(S) == S \subseteq Nat

\* Each of a set of keys is on one page of them, and no page is empty.
LEMMA PagesOfKeys ==
    ASSUME NEW keys, IsFiniteSet(keys), Numbered(keys)
    PROVE  /\ \A k \in keys : \E q \in Nat :
                {p \in 1..CeilDiv(Cardinality(keys), ItemsPerPage) : k \in KeysOnPage(keys, p)} = {q}
           /\ \A p \in 1..CeilDiv(Cardinality(keys), ItemsPerPage) : KeysOnPage(keys, p) # {}
<1> DEFINE less == {w \in keys \X keys : w[1] < w[2]}
           n == Cardinality(keys)
           c == CeilDiv(n, ItemsPerPage)
<1>1. Orders(less, keys)
  BY DEF Orders, Numbered
<1>2. \A k \in keys : PlaceIn(less, keys, k) = Cardinality({m \in keys : m < k})
  <2> SUFFICES ASSUME NEW k \in keys  PROVE  PlaceIn(less, keys, k) = Cardinality({m \in keys : m < k})
    OBVIOUS
  <2>1. {y \in keys : <<y, k>> \in less} = {m \in keys : m < k}
    OBVIOUS
  <2> QED  BY <2>1 DEF PlaceIn
<1>3. n \in Nat /\ ItemsPerPage \in Nat \ {0}
  BY FS_CardinalityType, JobViewsAssumption DEF JobViewsAssumption
<1>4. \A k \in keys, p \in Nat \ {0} :
         k \in KeysOnPage(keys, p) <=>
            (p - 1) * ItemsPerPage <= PlaceIn(less, keys, k) /\ PlaceIn(less, keys, k) < p * ItemsPerPage
  BY <1>2 DEF KeysOnPage
<1> HIDE DEF less
<1>5. ASSUME NEW i \in 0..(n - 1)  PROVE  \E k \in keys : PlaceIn(less, keys, k) = i
  <2> HIDE DEF n
  <2>1. i \in 0..(Cardinality(keys) - 1)
    BY <1>5 DEF n
  <2> QED  BY <1>1, <2>1, EveryPlace
<1> HIDE DEF n
<1>6. ASSUME NEW k \in keys
      PROVE  \E q \in Nat : {p \in 1..c : k \in KeysOnPage(keys, p)} = {q}
  <2> DEFINE r == PlaceIn(less, keys, k)
             q == r \div ItemsPerPage + 1
  <2>1. r \in 0..(n - 1)
    BY <1>1, PlacesDiffer DEF n
  <2>2. q \in 1..c /\ \A p \in Nat \ {0} : (p - 1) * ItemsPerPage <= r /\ r < p * ItemsPerPage <=> p = q
    <3> HIDE DEF r
    <3> QED  BY <1>3, <2>1, PageOfPlace
  <2> HIDE DEF q, r, c
  <2>3. \A p \in 1..c : p \in Nat \ {0}
    OBVIOUS
  <2>4. \A p \in 1..c : k \in KeysOnPage(keys, p) <=> p = q
    BY <1>4, <2>2, <2>3 DEF r
  <2> QED  BY <2>2, <2>3, <2>4
<1>7. ASSUME NEW p \in 1..c  PROVE  KeysOnPage(keys, p) # {}
  <2>1. (p - 1) * ItemsPerPage \in 0..(n - 1) /\ (p - 1) * ItemsPerPage < p * ItemsPerPage
    BY <1>3, FirstOfPage
  <2> DEFINE i == (p - 1) * ItemsPerPage
  <2>2. PICK k \in keys : PlaceIn(less, keys, k) = i
    <3>1. i \in 0..(n - 1)
      BY <2>1
    <3> HIDE DEF i
    <3> QED  BY <1>5, <3>1
  <2>3. k \in KeysOnPage(keys, p)
    <3> HIDE DEF c
    <3>1. p \in Nat \ {0}
      OBVIOUS
    <3> QED  BY <1>4, <2>1, <2>2, <3>1
  <2> QED  BY <2>3
<1> QED  BY <1>6, <1>7 DEF n

ViewTypes == PollTypes /\ vwItems \in [RowIds -> JobItemRows]

LEMMA ItemsTyped ==
    ASSUME vwItems \in [RowIds -> JobItemRows]
    PROVE  \A r \in RowIds : /\ vwItems[r].status \in ItemStatuses /\ vwItems[r].title \in Nat
                             /\ vwItems[r].pools \in BOOLEAN
  BY JobViewsAssumption DEF JobViewsAssumption

LEMMA ReviewsCovered ==
    ASSUME ViewTypes
    PROVE  ReviewPagesCover
<1> DEFINE rows   == WithItemStatus({"pending_review"})
           titles == Titles(rows)
           f      == [r \in rows |-> vwItems[r].title]
<1>1. rows \subseteq RowIds /\ IsFiniteSet(rows)
  BY JobViewsAssumption, FS_Subset DEF JobViewsAssumption, WithItemStatus
<1>2. titles \subseteq Nat
  BY <1>1, ItemsTyped DEF Titles, ViewTypes
<1>3. f \in Surjection(rows, titles)
  BY DEF Surjection, Titles
<1>4. IsFiniteSet(titles)
  <2> HIDE DEF rows, titles, f
  <2> QED  BY <1>1, <1>3, FS_Surjection
<1>5. /\ \A t \in titles : \E q \in Nat : {p \in 1..ReviewPageCount : t \in ReviewPage(p)} = {q}
      /\ \A p \in 1..ReviewPageCount : ReviewPage(p) # {}
  <2>1. ReviewPageCount = CeilDiv(Cardinality(titles), ItemsPerPage)
    BY DEF ReviewPageCount, ListPages
  <2>2. \A p : ReviewPage(p) = KeysOnPage(titles, p)
    BY DEF ReviewPage
  <2> HIDE DEF titles
  <2>3. /\ \A t \in titles : \E q \in Nat :
             {p \in 1..CeilDiv(Cardinality(titles), ItemsPerPage) : t \in KeysOnPage(titles, p)} = {q}
        /\ \A p \in 1..CeilDiv(Cardinality(titles), ItemsPerPage) : KeysOnPage(titles, p) # {}
    BY <1>2, <1>4, PagesOfKeys DEF Numbered
  <2> QED  BY <2>1, <2>2, <2>3
<1>6. \A t \in titles : Cardinality({p \in 1..ReviewPageCount : t \in ReviewPage(p)}) = 1
  <2> HIDE DEF titles
  <2> QED  BY <1>5, FS_Singleton
<1> QED  BY <1>5, <1>6 DEF ReviewPagesCover

\* A row among whose equals the page does not change is on that page in every order.
LEMMA OnePage ==
    ASSUME NEW rows, IsFiniteSet(rows), NEW key, \A s \in rows : key[s] \in Int,
           NEW r \in rows, GroupOnPage(rows, key, r)
    PROVE  \E q \in 1..ListPages(rows) : \A p \in 1..ListPages(rows), tie \in TieBreaks(rows) :
              r \in PageOf(rows, key, tie, p) <=> p = q
<1> DEFINE below == {s \in rows : key[s] < key[r]}
           upto  == {s \in rows : key[s] <= key[r]}
           first == Cardinality(below)
           last  == Cardinality(upto) - 1
           c     == CeilDiv(Cardinality(rows), ItemsPerPage)
           q     == first \div ItemsPerPage + 1
<1>1. ItemsPerPage \in Nat \ {0} /\ Cardinality(rows) \in Nat
  BY JobViewsAssumption, FS_CardinalityType DEF JobViewsAssumption
<1>2. \A S \in SUBSET rows : /\ IsFiniteSet(S) /\ Cardinality(S) \in Nat
                             /\ Cardinality(S) <= Cardinality(rows)
  BY FS_Subset, FS_CardinalityType
<1>3. below \subseteq upto \ {r} /\ r \in upto /\ upto \subseteq rows
  OBVIOUS
<1> HIDE DEF below, upto
<1>4. Cardinality(upto \ {r}) = last
  BY <1>2, <1>3, FS_RemoveElement
<1>5. \A S : below \subseteq S /\ S \subseteq upto \ {r} => first <= Cardinality(S) /\ Cardinality(S) <= last
  BY <1>2, <1>3, <1>4, FS_Subset
<1>6. first \in Nat /\ last \in Nat /\ first <= last /\ last < Cardinality(rows)
  <2>1. Cardinality(upto \ {r}) \in Nat /\ Cardinality(upto) <= Cardinality(rows)
        /\ Cardinality(upto) \in Nat
    BY <1>2, <1>3
  <2> QED  BY <1>1, <1>2, <1>3, <1>4, <1>5, <2>1
<1>7. first \div ItemsPerPage = last \div ItemsPerPage
  BY DEF GroupOnPage, below, upto
<1>8. ASSUME NEW tie \in TieBreaks(rows), NEW p \in Nat \ {0}
      PROVE  r \in PageOf(rows, key, tie, p) <=> p = q
  <2> DEFINE S == {s \in rows : key[s] < key[r] \/ (key[s] = key[r] /\ tie[s] < tie[r])}
             n == Cardinality(S)
  <2>1. below \subseteq S /\ S \subseteq upto \ {r}
    <3>1. tie[r] \in Int /\ key[r] \in Int
      BY <1>1 DEF TieBreaks
    <3> QED  BY <3>1 DEF below, upto
  <2> HIDE DEF S
  <2>2. first <= n /\ n <= last /\ n \in Nat
    BY <1>2, <1>3, <1>5, <2>1
  <2>3. n \div ItemsPerPage = first \div ItemsPerPage
    <3> HIDE DEF n, first, last
    <3> QED  BY <1>1, <1>6, <1>7, <2>2, QuotientsGrow
  <2>4. r \in PageOf(rows, key, tie, p) <=> n \div ItemsPerPage = p - 1
    BY DEF PageOf, Place, S
  <2>5. first \div ItemsPerPage \in Nat
    BY <1>1, <1>6, Quotient
  <2> HIDE DEF n, first
  <2> QED  BY <2>3, <2>4, <2>5
<1>9. q \in 1..c
  <2> HIDE DEF first, last
  <2>1. first \in 0..(Cardinality(rows) - 1)
    BY <1>1, <1>6
  <2> QED  BY <1>1, <2>1, PageOfPlace
<1>10. ListPages(rows) = c
  BY DEF ListPages
<1>11. \A p \in 1..c : p \in Nat \ {0}
  <2>1. c \in Nat
    BY <1>1, Quotient DEF CeilDiv
  <2> HIDE DEF c
  <2> QED  BY <2>1
<1> HIDE DEF q, c
<1> QED  BY <1>8, <1>9, <1>10, <1>11

\* The columns of the job list are numbers.
LEMMA ColumnsTyped ==
    ASSUME PollTypes, NEW st, NEW sort \in SortColumns, NEW dir, NEW j \in JobsWith(st)
    PROVE  JobKeys(st, sort, dir)[j] \in Int
<1>1. /\ vwJobs[j] \in JobRecords /\ vwJobs[j].status \notin {"absent", "deleted"} /\ j \in Nat
  BY JobViewsAssumption DEF JobViewsAssumption, PollTypes, JobsWith
<1>2. StatusOrder[vwJobs[j].status] \in Int
  BY <1>1 DEF JobRecords, StatusOrder
<1>3. Stamp(vwJobs[j].started_at) \in Int /\ Stamp(vwJobs[j].completed_at) \in Int
  BY <1>1, JobViewsAssumption DEF JobViewsAssumption, JobRecords, Stamp
<1>4. Column(sort, j) \in Int
  BY <1>1, <1>2, <1>3 DEF Column, SortColumns
<1> QED  BY <1>4 DEF JobKeys

JobOnPage(st, sort, dir, j) ==
    LET rows == JobsWith(st)
        ties == TieBreaks(rows)
    IN  GroupOnPage(rows, JobKeys(st, sort, dir), j) =>
           \E q \in 1..ListPages(rows) : \A p \in 1..ListPages(rows), tie \in ties :
              j \in ListJobs(st, sort, dir, p, tie) <=> p = q

ItemOnPage(st, r) ==
    LET rows == ItemsListed(st)
        ties == TieBreaks(rows)
    IN  GroupOnPage(rows, BatchOf, r) =>
           \E q \in 1..ListPages(rows) : \A p \in 1..ListPages(rows), tie \in ties :
              r \in ItemPage(st, p, tie) <=> p = q

LEMMA ListsPaged ==
    ASSUME ViewTypes
    PROVE  PagesAgree
<1>1. ASSUME NEW st, NEW sort \in SortColumns, NEW dir, NEW j \in JobsWith(st)
      PROVE  JobOnPage(st, sort, dir, j)
  <2>1. IsFiniteSet(JobsWith(st))
    BY JobViewsAssumption, FS_Subset DEF JobViewsAssumption, JobsWith
  <2>2. \A k \in JobsWith(st) : JobKeys(st, sort, dir)[k] \in Int
    BY ColumnsTyped DEF ViewTypes
  <2> QED  BY <2>1, <2>2, OnePage DEF ListJobs, JobOnPage
<1>2. ASSUME NEW st, NEW r \in ItemsListed(st)  PROVE  ItemOnPage(st, r)
  <2>1. ItemsListed(st) \subseteq RowIds
    BY DEF ItemsListed, ListedItems
  <2>2. IsFiniteSet(ItemsListed(st)) /\ \A s \in ItemsListed(st) : BatchOf[s] \in Int
    BY <2>1, JobViewsAssumption, FS_Subset DEF JobViewsAssumption
  <2> QED  BY <2>2, OnePage DEF ItemPage, ItemOnPage
<1>3. /\ \A st \in {""} \cup DOMAIN StatusOrder :
            \A j \in JobsWith(st), sort \in SortColumns, dir \in {"asc", "desc"} : JobOnPage(st, sort, dir, j)
      /\ \A st \in {""} \cup (ItemStatuses \ {"pending_review"}) :
            \A r \in ItemsListed(st) : ItemOnPage(st, r)
  BY <1>1, <1>2
<1> QED  BY <1>3, Zenon DEF PagesAgree, JobOnPage, ItemOnPage

\* The summary and the recent jobs.
LEMMA JobsCounted ==
    ASSUME PollTypes
    PROVE  /\ HandleJobsSummary = [running |-> Cardinality(JobsWith("pending")) + Cardinality(JobsWith("processing")),
                                   failed  |-> Cardinality(JobsWith("failed"))]
           /\ HandleRecentJobs(Cardinality(JobsWith("")))
                 = {j \in JobIds : vwJobs[j].status \in {"completed", "failed"}}
<1> DEFINE with(s) == {j \in JobIds : vwJobs[j].status = s}
           all     == {j \in JobIds : vwJobs[j].status \notin {"absent", "deleted"}}
           recent  == {j \in JobIds : vwJobs[j].status \in {"completed", "failed"}}
<1>1. \A S \in SUBSET JobIds : IsFiniteSet(S) /\ Cardinality(S) \in Nat
  BY JobViewsAssumption, FS_Subset, FS_CardinalityType DEF JobViewsAssumption
<1>2. ASSUME NEW s \in {"pending", "processing", "failed"}
      PROVE  JobsWith(s) = with(s)
  BY DEF JobsWith
<1>3. JobsWith("") = all
  BY DEF JobsWith
<1>4. Cardinality({j \in JobIds : IsActive(j)}) = Cardinality(with("pending")) + Cardinality(with("processing"))
  <2>1. /\ {j \in JobIds : IsActive(j)} = with("pending") \cup with("processing")
        /\ with("pending") \cap with("processing") = {}
    BY DEF IsActive
  <2>2. with("pending") \in SUBSET JobIds /\ with("processing") \in SUBSET JobIds
    OBVIOUS
  <2> HIDE DEF with
  <2> QED  BY <1>1, <2>1, <2>2, FS_Union, FS_EmptySet
<1>5. HandleJobsSummary = [running |-> Cardinality(JobsWith("pending")) + Cardinality(JobsWith("processing")),
                           failed  |-> Cardinality(JobsWith("failed"))]
  BY <1>2, <1>4 DEF HandleJobsSummary
<1>6. ASSUME NEW j \in recent
      PROVE  Cardinality({k \in recent : k > j}) < Cardinality(all)
  <2> DEFINE A == {k \in recent : k > j}
  <2>1. A \subseteq all /\ all \subseteq JobIds /\ j \in all
    OBVIOUS
  <2>2. j \notin A
    BY JobViewsAssumption DEF JobViewsAssumption
  <2> HIDE DEF A, all
  <2>3. Cardinality(A) <= Cardinality(all) /\ Cardinality(A) # Cardinality(all)
    BY <1>1, <2>1, <2>2, FS_Subset
  <2>4. Cardinality(A) \in Nat /\ Cardinality(all) \in Nat
    BY <1>1, <2>1
  <2> QED  BY <2>3, <2>4 DEF A
<1>7. HandleRecentJobs(Cardinality(all)) = recent
  <2>1. HandleRecentJobs(Cardinality(all)) = {j \in recent : Cardinality({k \in recent : k > j}) < Cardinality(all)}
    BY DEF HandleRecentJobs
  <2> HIDE DEF recent, all
  <2> QED  BY <1>6, <2>1
<1> QED  BY <1>3, <1>5, <1>7

\* The items listed and the synthetic one make up the total.
LEMMA ItemsAddUp ==
    ASSUME ViewTypes
    PROVE  JobItemCounts.total = Cardinality(ItemsListed("")) + Cardinality(RowIds \ ListedItems)
<1>1. ListedItems \subseteq RowIds /\ IsFiniteSet(RowIds) /\ IsFiniteSet(ListedItems)
  BY JobViewsAssumption, FS_Subset DEF JobViewsAssumption, ListedItems
<1>2. ItemsListed("") = ListedItems
  BY DEF ItemsListed
<1>3. Cardinality(RowIds \ ListedItems) = Cardinality(RowIds) - Cardinality(ListedItems)
  <2>1. RowIds \cap ListedItems = ListedItems
    BY <1>1
  <2> QED  BY <1>1, <2>1, FS_Difference
<1>4. Cardinality(RowIds) \in Nat /\ Cardinality(ListedItems) \in Nat
  BY <1>1, FS_CardinalityType
<1>5. JobItemCounts.total = Cardinality(RowIds)
  BY DEF JobItemCounts
<1>6. Cardinality(RowIds) = Cardinality(ListedItems) + Cardinality(RowIds \ ListedItems)
  BY <1>3, <1>4
<1> QED  BY <1>2, <1>5, <1>6, Zenon

\* A hundred percent are all.
LEMMA Hundred ==
    ASSUME NEW n \in Nat \ {0}, NEW m \in Nat, m <= n, (m * 100) \div n = 100
    PROVE  m = n
<1>1. 100 * n <= m * 100
  BY Quotient
<1> QED  BY <1>1

LEMMA DoneIsDone ==
    ASSUME ViewTypes, JobItemCounts.percent = 100
    PROVE  HandlePendingReviewCount = 0 /\ WithItemStatus(ItemStatuses \ {"completed", "skipped"}) = {}
<1> DEFINE done == WithItemStatus({"completed", "skipped"})
<1>1. IsFiniteSet(RowIds) /\ done \subseteq RowIds
  BY JobViewsAssumption DEF JobViewsAssumption, WithItemStatus
<1>2. /\ Cardinality(RowIds) \in Nat /\ Cardinality(done) \in Nat /\ Cardinality(done) <= Cardinality(RowIds)
      /\ Cardinality(done) = Cardinality(RowIds) => done = RowIds
  BY <1>1, FS_Subset, FS_CardinalityType
<1>3. done = RowIds
  <2>1. RowIds # {} /\ (Cardinality(done) * 100) \div Cardinality(RowIds) = 100
    BY DEF JobItemCounts
  <2>2. Cardinality(RowIds) # 0
    BY <1>1, <2>1, FS_EmptySet
  <2> HIDE DEF done
  <2> QED  BY <1>2, <2>1, <2>2, Hundred
<1>4. WithItemStatus({"pending_review"}) = {} /\ WithItemStatus(ItemStatuses \ {"completed", "skipped"}) = {}
  BY <1>3 DEF WithItemStatus
<1>5. HandlePendingReviewCount = 0
  BY <1>4, FS_EmptySet DEF HandlePendingReviewCount
<1> QED  BY <1>4, <1>5

(***************************************************************************)
(* What clients are told of one state of the jobs fits together, for any   *)
(* jobs, items and page size: every question is on one page and no page of *)
(* them is empty; a job or an item whose equals in the column sorted by    *)
(* fit on one page is there once, in whatever order the database gives     *)
(* equals; the summary counts what the list shows, the items listed and    *)
(* the synthetic one are the total, and a hundred percent leave nothing to *)
(* do.                                                                     *)
(***************************************************************************)
THEOREM ViewsFit == ViewsSpec => []ViewsAgree
<1>1. ViewsInit => ViewTypes
  BY DEF ViewsInit, ViewTypes, PollTypes, JobRecords, Answers, Answer, SomeJob
<1>2. ViewTypes /\ [ViewsNext]_viewVars => ViewTypes'
  <2> SUFFICES ASSUME ViewTypes, [ViewsNext]_viewVars  PROVE  ViewTypes'
    OBVIOUS
  <2>1. PollTypes'
    BY PollTyped DEF PollTypes, viewVars, ViewTypes
  <2>2. vwItems' \in [RowIds -> JobItemRows]
    BY DEF ViewTypes, viewVars, ViewsNext, JobStarts, JobRuns, JobReopened, HandleDeleteJob, JobEnds,
           HandleJobTypeStatus, ItemWritten
  <2> QED  BY <2>1, <2>2 DEF ViewTypes
<1>3. ViewTypes => ViewsAgree
  <2> SUFFICES ASSUME ViewTypes  PROVE  CountsAgree
    BY ReviewsCovered, ListsPaged DEF ViewsAgree
  <2>1. PollTypes
    BY DEF ViewTypes
  <2> QED  BY <2>1, JobsCounted, ItemsAddUp, DoneIsDone DEF CountsAgree
<1> QED  BY <1>1, <1>2, <1>3, PTL DEF ViewsSpec

---------------------------------------------------------------------------
(* Reading the collection. *)

QueryTypes ==
    /\ qRows \in [Listed -> RowChoices]
    /\ qCard \in Cards

LEMMA RowsTyped ==
    ASSUME QueryTypes
    PROVE  /\ \A g \in Listed :
                /\ qRows[g] \in RowChoices
                /\ qRows[g].wish \in BOOLEAN /\ qRows[g].rating \in Nat
           /\ \A S \in SUBSET Listed : IsFiniteSet(S) /\ Cardinality(S) \in Nat
<1>1. \A g \in Listed : qRows[g] \in RowChoices
  BY DEF QueryTypes
<1>2. \A S \in SUBSET Listed : IsFiniteSet(S) /\ Cardinality(S) \in Nat
  BY QueryAssumption, FS_Subset, FS_CardinalityType DEF QueryAssumption
<1> QED  BY <1>1, <1>2, QueryAssumption DEF QueryAssumption

\* A facet selection that asks for one thing.
LEMMA OneStatus ==
    ASSUME QueryTypes, NEW st
    PROVE  {g \in Listed : ApplyUserGameFacetFilters(qRows[g], [NoFacets EXCEPT !.status = {st}], FALSE)}
             = {g \in InLibrary : qRows[g].status = st}
<1> SUFFICES ASSUME NEW g \in Listed
             PROVE  ApplyUserGameFacetFilters(qRows[g], [NoFacets EXCEPT !.status = {st}], FALSE)
                      <=> ~qRows[g].wish /\ qRows[g].status = st
  BY DEF InLibrary
<1>1. Joined(qRows[g]) # {}
  BY DEF Joined
<1>2. qRows[g].wish \in BOOLEAN
  BY RowsTyped
<1> QED  BY <1>1, <1>2 DEF ApplyUserGameFacetFilters, NoFacets, ApplyPlayStatus, ApplyRatingMin, ApplyGenre,
              ApplyTag, ApplyWishlist, ApplyPlatform, ApplyStorefront, ApplyOwnershipStatus

LEMMA OneOwnership ==
    ASSUME QueryTypes, NEW own \in {r.own : r \in UNION {qRows[g].rows : g \in Listed}}
    PROVE  {g \in Listed : ApplyUserGameFacetFilters(qRows[g], [NoFacets EXCEPT !.own = own], FALSE)}
             = {g \in InLibrary : \E r \in qRows[g].rows : r.own = own}
<1>1. own \notin {"null", ""}
  <2>1. PICK g \in Listed : \E r \in qRows[g].rows : own = r.own
    OBVIOUS
  <2> QED  BY <2>1, RowsTyped, QueryAssumption DEF QueryAssumption
<1> SUFFICES ASSUME NEW g \in Listed
             PROVE  ApplyUserGameFacetFilters(qRows[g], [NoFacets EXCEPT !.own = own], FALSE)
                      <=> ~qRows[g].wish /\ \E r \in qRows[g].rows : r.own = own
  BY DEF InLibrary
<1>2. qRows[g].wish \in BOOLEAN
  BY RowsTyped
<1>3. (\E r \in Joined(qRows[g]) : r.own = own) <=> \E r \in qRows[g].rows : r.own = own
  <2>1. CASE qRows[g].rows = {}
    <3>1. Joined(qRows[g]) = {NullRow} /\ NullRow.own = "null"
      BY <2>1 DEF Joined, NullRow
    <3> QED  BY <1>1, <2>1, <3>1
  <2>2. CASE qRows[g].rows # {}
    BY <2>2 DEF Joined
  <2> QED  BY <2>1, <2>2
<1>4. ApplyUserGameFacetFilters(qRows[g], [NoFacets EXCEPT !.own = own], FALSE)
         <=> ~qRows[g].wish /\ \E r \in Joined(qRows[g]) : r.own = own
  BY <1>1, <1>2 DEF ApplyUserGameFacetFilters, NoFacets, ApplyPlayStatus, ApplyRatingMin, ApplyGenre,
              ApplyTag, ApplyWishlist, ApplyPlatform, ApplyStorefront, ApplyOwnershipStatus
<1> QED  BY <1>3, <1>4

LEMMA OneGenre ==
    ASSUME QueryTypes, NEW x \in HandleFilterOptions
    PROVE  {g \in InLibrary : x \in qRows[g].genres}
             \subseteq {g \in Listed : ApplyUserGameFacetFilters(qRows[g], [NoFacets EXCEPT !.genre = {x}], FALSE)}
<1> SUFFICES ASSUME NEW g \in Listed, ~qRows[g].wish, x \in qRows[g].genres
             PROVE  ApplyUserGameFacetFilters(qRows[g], [NoFacets EXCEPT !.genre = {x}], FALSE)
  BY DEF InLibrary
<1>1. Joined(qRows[g]) # {}
  BY DEF Joined
<1>2. qRows[g].wish \in BOOLEAN /\ <<x, x>> \in Inside
  BY RowsTyped, QueryAssumption DEF QueryAssumption
<1> QED  BY <1>1, <1>2 DEF ApplyUserGameFacetFilters, NoFacets, ApplyPlayStatus, ApplyRatingMin, ApplyGenre,
              ApplyTag, ApplyWishlist, ApplyPlatform, ApplyStorefront, ApplyOwnershipStatus

\* The counts of a set of statuses add up to the games that have one of them.  The
\* fold obeys an equation that these sums obey too; were they to differ somewhere,
\* they would already on a smaller set.
LEMMA CountsAddUp ==
    ASSUME QueryTypes, NEW S, IsFiniteSet(S)
    PROVE  FoldSet(LAMBDA st, n : n + CompletionStats(st), 0, S)
             = Cardinality({g \in InLibrary : qRows[g].status \in S})
<1> DEFINE with(s)  == {g \in InLibrary : qRows[g].status \in s}
           some(s)  == CHOOSE x \in s : TRUE
           Adds(f)  == f = [s \in SUBSET S |-> IF s = {} THEN 0
                                               ELSE f[s \ {some(s)}] + CompletionStats(some(s))]
           sums == [s \in SUBSET S |-> Cardinality(with(s))]
           iter == CHOOSE f : Adds(f)
<1>1. \A s : with(s) \in SUBSET Listed /\ IsFiniteSet(with(s)) /\ Cardinality(with(s)) \in Nat
  BY RowsTyped DEF InLibrary
<1>2. ASSUME NEW s, NEW x \in s
      PROVE  Cardinality(with(s)) = Cardinality(with(s \ {x})) + CompletionStats(x)
  <2>1. CompletionStats(x) = Cardinality(with({x}))
    <3>1. {g \in InLibrary : qRows[g].status = x} = with({x})
      OBVIOUS
    <3> QED  BY <3>1 DEF CompletionStats
  <2>2. with(s) = with(s \ {x}) \cup with({x}) /\ with(s \ {x}) \cap with({x}) = {}
    BY <1>2
  <2> DEFINE A == with(s \ {x})
             B == with({x})
  <2>3. /\ IsFiniteSet(A) /\ Cardinality(A) \in Nat
        /\ IsFiniteSet(B) /\ Cardinality(B) \in Nat
    BY <1>1
  <2>4. with(s) = A \cup B /\ A \cap B = {} /\ CompletionStats(x) = Cardinality(B)
    BY <2>1, <2>2
  <2> HIDE DEF with, A, B
  <2>5. Cardinality(A \cup B) = Cardinality(A) + Cardinality(B) - Cardinality(A \cap B)
    BY <2>3, FS_Union
  <2>6. Cardinality(A \cap B) = 0
    BY <2>4, FS_EmptySet
  <2>7. Cardinality(with(s)) = Cardinality(A) + CompletionStats(x)
    BY <2>3, <2>4, <2>5, <2>6
  <2> QED  BY <2>7 DEF A
<1>3. Adds(sums)
  <2> SUFFICES ASSUME NEW s \in SUBSET S
               PROVE  Cardinality(with(s)) = IF s = {} THEN 0
                                             ELSE sums[s \ {some(s)}] + CompletionStats(some(s))
    OBVIOUS
  <2>1. CASE s = {}
    <3>1. with(s) = {}
      BY <2>1
    <3> QED  BY <2>1, <3>1, FS_EmptySet
  <2>2. CASE s # {}
    <3>1. some(s) \in s
      BY <2>2
    <3>2. sums[s \ {some(s)}] = Cardinality(with(s \ {some(s)}))
      OBVIOUS
    <3> HIDE DEF some, sums, with
    <3> QED  BY <1>2, <2>2, <3>1, <3>2
  <2> QED  BY <2>1, <2>2
<1>4. Adds(iter)
  <2> HIDE DEF Adds, sums
  <2> QED  BY <1>3
<1>5. ASSUME NEW s \in SUBSET S  PROVE  iter[s] = Cardinality(with(s))
  <2> DEFINE Bad == {t \in SUBSET S : iter[t] # Cardinality(with(t))}
             Sizes == {Cardinality(t) : t \in Bad}
  <2>1. \A t \in SUBSET S : IsFiniteSet(t) /\ Cardinality(t) \in Nat
    BY FS_Subset, FS_CardinalityType
  <2>2. ASSUME Bad # {}  PROVE  FALSE
    <3>1. Sizes \subseteq Nat /\ Sizes # {}
      <4> HIDE DEF iter, with
      <4> QED  BY <2>1, <2>2
    <3>2. PICK m \in Sizes : \A k \in Sizes : m <= k
      <4> HIDE DEF Sizes
      <4> QED  BY <3>1, LeastNumber
    <3>3. PICK t \in Bad : m = Cardinality(t)
      OBVIOUS
    <3>4. t \in SUBSET S
      OBVIOUS
    <3>5. iter[t] = IF t = {} THEN 0 ELSE iter[t \ {some(t)}] + CompletionStats(some(t))
      <4> HIDE DEF iter, some
      <4> QED  BY <1>4, <3>4
    <3>6. t # {}
      <4>1. with({}) = {}
        OBVIOUS
      <4> HIDE DEF iter, some, with
      <4> QED  BY <3>3, <3>5, <4>1, FS_EmptySet
    <3>7. some(t) \in t
      BY <3>6
    <3> HIDE DEF some
    <3>8. Cardinality(t \ {some(t)}) = m - 1 /\ m \in Nat
      BY <2>1, <3>3, <3>4, <3>7, FS_RemoveElement
    <3>9. iter[t \ {some(t)}] = Cardinality(with(t \ {some(t)}))
      <4>1. t \ {some(t)} \in SUBSET S
        BY <3>4
      <4>2. CASE t \ {some(t)} \in Bad
        <5>1. m - 1 \in Sizes
          BY <3>8, <4>2
        <5> HIDE DEF Sizes
        <5> QED  BY <3>2, <3>8, <5>1
      <4> HIDE DEF iter, with
      <4> QED  BY <4>1, <4>2
    <3>10. Cardinality(with(t)) = Cardinality(with(t \ {some(t)})) + CompletionStats(some(t))
      <4> HIDE DEF with
      <4> QED  BY <1>2, <3>7
    <3> HIDE DEF iter, with
    <3> QED  BY <3>3, <3>5, <3>6, <3>9, <3>10
  <2> HIDE DEF iter, with
  <2> QED  BY <2>2
<1>6. FoldSet(LAMBDA st, n : n + CompletionStats(st), 0, S) = iter[S]
  BY DEF FoldSet, MapThenFoldSet
<1>7. iter[S] = Cardinality(with(S))
  <2> HIDE DEF iter, with
  <2> QED  BY <1>5
<1> HIDE DEF iter
<1> QED  BY <1>6, <1>7

LEMMA StatsAgree ==
    ASSUME QueryTypes
    PROVE  StatsMatchList
<1> DEFINE found(c) == Cardinality({g \in Listed : ApplyUserGameFacetFilters(qRows[g], c, FALSE)})
           statuses == {qRows[g].status : g \in Listed}
<1>1. \A st \in statuses : CompletionStats(st) = found([NoFacets EXCEPT !.status = {st}])
  BY OneStatus DEF CompletionStats
<1>2. \A own \in {r.own : r \in UNION {qRows[g].rows : g \in Listed}} :
         OwnershipStats(own) = found([NoFacets EXCEPT !.own = own])
  BY OneOwnership DEF OwnershipStats
<1>3. FoldSet(LAMBDA st, n : n + CompletionStats(st), 0, statuses) = Cardinality(InLibrary)
  <2> DEFINE f == [g \in Listed |-> qRows[g].status]
  <2>1. f \in Surjection(Listed, statuses)
    BY DEF Surjection
  <2>2. IsFiniteSet(statuses)
    <3> HIDE DEF f, statuses
    <3> QED  BY <2>1, FS_Surjection, QueryAssumption DEF QueryAssumption
  <2>3. {g \in InLibrary : qRows[g].status \in statuses} = InLibrary
    BY DEF InLibrary
  <2> HIDE DEF statuses
  <2>4. FoldSet(LAMBDA st, n : n + CompletionStats(st), 0, statuses)
          = Cardinality({g \in InLibrary : qRows[g].status \in statuses})
    BY <2>2, CountsAddUp
  <2> QED  BY <2>3, <2>4
<1>4. ASSUME NEW x \in HandleFilterOptions
      PROVE  GenreStats(x) <= found([NoFacets EXCEPT !.genre = {x}])
  <2> DEFINE A == {g \in InLibrary : x \in qRows[g].genres}
             B == {g \in Listed : ApplyUserGameFacetFilters(qRows[g], [NoFacets EXCEPT !.genre = {x}], FALSE)}
  <2>1. A \subseteq B /\ B \subseteq Listed
    BY OneGenre
  <2>2. Cardinality(A) <= Cardinality(B)
    <3> HIDE DEF A, B
    <3> QED  BY <2>1, RowsTyped, FS_Subset
  <2> QED  BY <2>2 DEF GenreStats
<1> QED  BY <1>1, <1>2, <1>3, <1>4 DEF StatsMatchList

LEMMA CardsAgree ==
    ASSUME QueryTypes
    PROVE  CardMirrorsFacet
<1> SUFFICES ASSUME "unknown" \notin qCard.platform \cup qCard.storefront, qCard.own = "", NEW g \in Listed
             PROVE  ApplyPoolFilter(qRows[g], {qCard}) <=> ApplyUserGameFacetFilters(qRows[g], qCard, qRows[g].wish)
  BY DEF CardMirrorsFacet, ApplyPool
<1>1. "null" \notin qCard.platform \cup qCard.storefront /\ qRows[g].status \notin {"null", "unknown"}
  BY RowsTyped, QueryAssumption DEF QueryTypes, QueryAssumption
<1>2. ApplyPoolFilter(qRows[g], {qCard}) <=> \E r \in Joined(qRows[g]) : ApplyCardPredicates(qRows[g], r, qCard)
  BY DEF ApplyPoolFilter
<1>3. ASSUME NEW r
      PROVE  ApplyCardPredicates(qRows[g], r, qCard)
               <=> /\ ApplyPlayStatus(qRows[g], qCard) /\ ApplyRatingMin(qRows[g], qCard)
                   /\ ApplyGenre(qRows[g], qCard) /\ ApplyTag(qRows[g], qCard)
                   /\ ApplyPlatform(r, qCard) /\ ApplyStorefront(r, qCard)
  <2>1. OrIn(qRows[g].status, qCard.status) <=> ApplyPlayStatus(qRows[g], qCard)
    BY <1>1 DEF OrIn, ApplyPlayStatus
  <2>2. OrILike(qRows[g].genres, qCard.genre) <=> ApplyGenre(qRows[g], qCard)
    BY DEF OrILike, ApplyGenre
  <2>3. (OrIn(r.platform, qCard.platform) <=> ApplyPlatform(r, qCard))
        /\ (OrIn(r.storefront, qCard.storefront) <=> ApplyStorefront(r, qCard))
    BY <1>1 DEF OrIn, ApplyPlatform, ApplyStorefront
  <2>4. (qCard.rating_min # 0 => qRows[g].rating >= qCard.rating_min /\ qRows[g].rating # 0)
          <=> ApplyRatingMin(qRows[g], qCard)
    BY DEF ApplyRatingMin
  <2>5. (qCard.tag # {} => qRows[g].tags \cap qCard.tag # {}) <=> ApplyTag(qRows[g], qCard)
    BY DEF ApplyTag
  <2> QED  BY <2>1, <2>2, <2>3, <2>4, <2>5 DEF ApplyCardPredicates
<1> QED  BY <1>2, <1>3 DEF ApplyUserGameFacetFilters, ApplyWishlist, ApplyOwnershipStatus

\* Whoever has no rating is put before or behind all who have one.
LEMMA KeysTyped ==
    ASSUME QueryTypes, NEW g \in Listed
    PROVE  SortKey(g) \in Nat
<1> DEFINE ratings == {qRows[h].rating : h \in Listed}
           f == [h \in Listed |-> qRows[h].rating]
<1>1. f \in Surjection(Listed, ratings)
  BY DEF Surjection
<1>2. IsFiniteSet(ratings)
  <2> HIDE DEF f, ratings
  <2> QED  BY <1>1, FS_Surjection, QueryAssumption DEF QueryAssumption
<1>3. ratings \subseteq Nat /\ ratings # {}
  BY RowsTyped
<1>4. Max(ratings) \in Nat
  <2>1. Max(ratings) = LargestOf(ratings)
    BY DEF Max, LargestOf
  <2> HIDE DEF ratings
  <2> QED  BY <1>2, <1>3, <2>1, LargestExists
<1>5. qRows[g].rating \in Nat
  BY RowsTyped
<1> QED  BY <1>4, <1>5 DEF SortKey

LEMMA BeforeOrders ==
    ASSUME QueryTypes, NoTies
    PROVE  Orders({w \in Matches \X Matches : Before(w[1], w[2])}, Matches)
<1> DEFINE key(g) == SortKey(g)
<1>1. \A g \in Matches : key(g) \in Nat /\ CreatedAt[g] \in Nat
  BY KeysTyped, QueryAssumption DEF QueryAssumption, Matches
<1>2. \A g, h \in Matches : key(g) = key(h) /\ CreatedAt[g] = CreatedAt[h] => g = h
  BY DEF NoTies
<1>3. \A g, h : Before(g, h) <=>
         \/ (IF qOrder = "desc" THEN key(g) > key(h) ELSE key(g) < key(h))
         \/ key(g) = key(h) /\ CreatedAt[g] > CreatedAt[h]
  BY DEF Before
<1> HIDE DEF key
<1>4. \A g \in Matches : ~Before(g, g)
  BY <1>1, <1>3
<1>5. \A g, h \in Matches : g = h \/ Before(g, h) \/ Before(h, g)
  BY <1>1, <1>2, <1>3
<1>6. \A f, g, h \in Matches : Before(f, g) /\ Before(g, h) => Before(f, h)
  BY <1>1, <1>3
<1> QED  BY <1>4, <1>5, <1>6 DEF Orders

\* Each match has its place in the list, and each place a match.
LEMMA AllSorted ==
    ASSUME QueryTypes, NoTies
    PROVE  /\ Sorted \in [1..Total -> Matches] /\ Total \in Nat
           /\ \A g \in Matches : \E i \in 1..Total : Sorted[i] = g
<1> DEFINE R == {w \in Matches \X Matches : Before(w[1], w[2])}
<1>1. IsFiniteSet(Matches) /\ Total \in Nat
  BY RowsTyped DEF Matches, Total
<1>2. Orders(R, Matches)
  BY BeforeOrders
<1>3. ASSUME NEW g \in Matches  PROVE  PlaceIn(R, Matches, g) = Cardinality({h \in Matches : Before(h, g)})
  <2>1. {h \in Matches : <<h, g>> \in R} = {h \in Matches : Before(h, g)}
    BY <1>3
  <2> QED  BY <2>1 DEF PlaceIn
<1> HIDE DEF R
<1>4. ASSUME NEW i \in 1..Total
      PROVE  Sorted[i] \in Matches /\ PlaceIn(R, Matches, Sorted[i]) = i - 1
  <2>1. i - 1 \in 0..(Cardinality(Matches) - 1)
    BY <1>1 DEF Total
  <2>2. PICK g \in Matches : PlaceIn(R, Matches, g) = i - 1
    BY <1>1, <1>2, <2>1, EveryPlace
  <2>3. Sorted[i] = CHOOSE h \in AtPlace(i) : TRUE
    BY DEF Sorted
  <2>4. AtPlace(i) = {h \in Matches : PlaceIn(R, Matches, h) = i - 1}
    BY <1>3 DEF AtPlace
  <2> QED  BY <2>2, <2>3, <2>4
<1>5. ASSUME NEW g \in Matches  PROVE  \E i \in 1..Total : Sorted[i] = g
  <2>1. PlaceIn(R, Matches, g) \in 0..(Total - 1)
    BY <1>1, <1>2, PlacesDiffer DEF Total
  <2> DEFINE i == PlaceIn(R, Matches, g) + 1
  <2>2. i \in 1..Total /\ PlaceIn(R, Matches, g) = i - 1
    BY <1>1, <2>1
  <2> HIDE DEF i
  <2>3. Sorted[i] = g
    BY <1>1, <1>2, <1>4, <2>2, PlacesDiffer
  <2> QED  BY <2>2, <2>3
<1>6. Sorted \in [1..Total -> Matches]
  <2>1. Sorted = [i \in 1..Total |-> Sorted[i]]
    BY DEF Sorted
  <2> QED  BY <1>4, <2>1
<1> QED  BY <1>1, <1>5, <1>6

LEMMA PrefixGrows ==
    ASSUME NEW T, NEW s \in Seq(T), NEW a \in 0..Len(s), NEW b \in a..Len(s)
    PROVE  [i \in 1..a |-> s[i]] \o SubSeq(s, a + 1, b) = [i \in 1..b |-> s[i]]
  OBVIOUS

\* The pages before the last are full, and the last one ends the list.
LEMMA PagesReach ==
    ASSUME QueryTypes
    PROVE  /\ PageCount \in Nat \ {0} /\ Total \in Nat /\ PerPage \in Nat \ {0}
           /\ \A p \in Nat : p < PageCount => PerPage * p <= Total
           /\ PerPage * PageCount >= Total
<1> DEFINE c == (Total + PerPage - 1) \div PerPage
<1>1. Total \in Nat /\ PerPage \in Nat \ {0}
  BY RowsTyped, QueryAssumption DEF Matches, Total, QueryAssumption
<1>2. c \in Nat /\ c * PerPage <= Total + PerPage - 1 /\ Total + PerPage - 1 < c * PerPage + PerPage
  <2>1. Total + PerPage - 1 \in Nat
    BY <1>1
  <2> QED  BY <1>1, <2>1, Quotient
<1> HIDE DEF c
<1>3. PageCount = IF c >= 1 THEN c ELSE 1
  <2>1. PageCount = CHOOSE x \in {1, c} : \A y \in {1, c} : x >= y
    BY DEF PageCount, Max, c
  <2> QED  BY <1>2, <2>1
<1>4. PageCount \in Nat \ {0} /\ c <= PageCount
  BY <1>2, <1>3
<1>5. ASSUME NEW p \in Nat, p < PageCount  PROVE  PerPage * p <= Total
  <2>1. CASE p = 0
    BY <1>1, <2>1
  <2>2. CASE p # 0
    <3>1. p + 1 <= c
      BY <1>2, <1>3, <1>5, <2>2
    <3>2. (p + 1) * PerPage <= c * PerPage /\ (p + 1) * PerPage = p * PerPage + PerPage
      BY <1>1, <1>2, <3>1, Products
    <3>3. p * PerPage \in Nat /\ c * PerPage \in Nat
      BY <1>1, <1>2, Products
    <3>4. p * PerPage <= Total
      BY <1>1, <1>2, <3>2, <3>3
    <3> QED  BY <1>1, <3>4
  <2> QED  BY <2>1, <2>2
<1>6. PerPage * PageCount >= Total
  <2>1. c * PerPage <= PageCount * PerPage /\ c * PerPage \in Nat /\ PageCount * PerPage \in Nat
    BY <1>1, <1>2, <1>4, Products
  <2>2. Total <= c * PerPage
    BY <1>1, <1>2, <2>1
  <2>3. Total <= PageCount * PerPage
    BY <1>1, <2>1, <2>2
  <2> QED  BY <1>1, <1>4, <2>3
<1> QED  BY <1>1, <1>4, <1>5, <1>6

\* How far p pages reach.
Reached(p) == IF PerPage * p < Total THEN PerPage * p ELSE Total

QueryInv ==
    /\ QueryTypes
    /\ qPage \in 0..PageCount
    /\ NoTies => qSeen = [i \in 1..Reached(qPage) |-> Sorted[i]]

LEMMA NothingRead ==
    ASSUME QueryTypes, qPage = 0, qSeen = <<>>
    PROVE  QueryInv
<1>1. Reached(0) = 0
  BY PagesReach DEF Reached
<1>2. qSeen = [i \in 1..0 |-> Sorted[i]]
  OBVIOUS
<1> QED  BY <1>1, <1>2, PagesReach DEF QueryInv

\* The answers are functions of the rows and the request.
LEMMA SameAnswers ==
    ASSUME QueryTypes, UNCHANGED <<qRows, qCard, qOrder>>
    PROVE  /\ QueryTypes' /\ (NoTies' <=> NoTies)
           /\ Sorted' = Sorted /\ Total' = Total /\ PageCount' = PageCount
<1>1. Matches' = Matches
  BY DEF Matches
<1>2. ASSUME NEW g  PROVE  SortKey(g)' = SortKey(g)
  BY DEF SortKey
<1>3. Total' = Total /\ PageCount' = PageCount
  BY <1>1 DEF Total, PageCount
<1>4. Sorted' = Sorted
  <2>1. ASSUME NEW g, NEW h  PROVE  Before(g, h)' <=> Before(g, h)
    BY <1>2 DEF Before
  <2>2. ASSUME NEW g  PROVE  {h \in Matches : Before(h, g)}' = {h \in Matches : Before(h, g)}
    BY <1>1, <2>1
  <2>3. ASSUME NEW i  PROVE  AtPlace(i)' = AtPlace(i)
    BY <1>1, <2>2 DEF AtPlace
  <2> QED  BY <1>3, <2>3 DEF Sorted
<1>5. QueryTypes' /\ (NoTies' <=> NoTies)
  BY <1>1, <1>2 DEF QueryTypes, NoTies
<1> QED  BY <1>3, <1>4, <1>5

LEMMA PageRead ==
    ASSUME QueryInv, HandleListUserGames
    PROVE  QueryInv'
<1>1. /\ QueryTypes' /\ (NoTies' <=> NoTies)
      /\ Sorted' = Sorted /\ Total' = Total /\ PageCount' = PageCount
  BY SameAnswers DEF HandleListUserGames, QueryInv
<1>2. qPage \in Nat /\ qPage < PageCount /\ qPage' = qPage + 1
  BY PagesReach DEF HandleListUserGames, QueryInv
<1>3. qPage' \in 0..PageCount'
  BY <1>1, <1>2, PagesReach DEF QueryInv
<1>4. ASSUME NoTies  PROVE  qSeen' = [i \in 1..Reached(qPage') |-> Sorted[i]]
  <2> DEFINE a == PerPage * qPage
             b == Reached(qPage + 1)
  <2>1. a \in 0..Total
    BY <1>2, PagesReach DEF QueryInv
  <2>2. b \in a..Total
    <3>1. PerPage * (qPage + 1) = a + PerPage
      BY <1>2, PagesReach DEF QueryInv
    <3> HIDE DEF a
    <3> QED  BY <2>1, <3>1, PagesReach DEF QueryInv, Reached
  <2>3. qSeen = [i \in 1..a |-> Sorted[i]]
    <3>1. Reached(qPage) = a
      BY <2>1, PagesReach DEF Reached, QueryInv
    <3> QED  BY <1>4, <3>1 DEF QueryInv
  <2>4. qSeen' = qSeen \o SubSeq(Sorted, a + 1, b)
    BY <1>2 DEF HandleListUserGames, Reached
  <2>5. Sorted \in Seq(Matches) /\ Len(Sorted) = Total
    BY <1>4, AllSorted DEF QueryInv
  <2> HIDE DEF a, b
  <2>6. qSeen' = [i \in 1..b |-> Sorted[i]]
    BY <2>1, <2>2, <2>3, <2>4, <2>5, PrefixGrows
  <2> QED  BY <1>2, <2>6 DEF b
<1>5. Reached(qPage') = Reached(qPage)'
  BY <1>1 DEF Reached
<1> QED  BY <1>1, <1>3, <1>4, <1>5 DEF QueryInv

LEMMA CollectionPaged ==
    ASSUME QueryInv
    PROVE  PagesPartition
<1> SUFFICES ASSUME NoTies, qPage = PageCount
             PROVE  Len(qSeen) = Total /\ ToSet(qSeen) = HandleListUserGameIDs
  BY DEF PagesPartition
<1>1. Reached(qPage) = Total
  BY PagesReach DEF Reached, QueryInv
<1>2. qSeen = [i \in 1..Total |-> Sorted[i]] /\ Total \in Nat
  BY <1>1, PagesReach DEF QueryInv
<1>3. Len(qSeen) = Total /\ DOMAIN qSeen = 1..Total
  BY <1>2
<1>4. ToSet(qSeen) = Matches
  BY <1>2, <1>3, AllSorted DEF ToSet, QueryInv
<1> QED  BY <1>3, <1>4 DEF Matches, HandleListUserGameIDs

(***************************************************************************)
(* What a client reads of one library fits together, for any library,      *)
(* facets, cards and page size: whoever turns all pages has seen every     *)
(* match once, as many as the ids endpoint names; the statistics count     *)
(* what the list finds; and a card suggests what the list shows for it.    *)
(***************************************************************************)
THEOREM ReadsFit == QuerySpec => []ReadsAgree
<1>1. QueryInit => QueryInv
  BY NothingRead DEF QueryInit, QueryTypes
<1>2. QueryInv /\ [QueryNext]_queryVars => QueryInv'
  <2> SUFFICES ASSUME QueryInv, [QueryNext]_queryVars  PROVE  QueryInv'
    OBVIOUS
  <2>1. CASE HandleListUserGames
    BY <2>1, PageRead
  <2>2. CASE Rescroll
    <3>1. /\ QueryTypes' /\ (NoTies' <=> NoTies)
          /\ Sorted' = Sorted /\ Total' = Total /\ PageCount' = PageCount
      BY <2>2, SameAnswers DEF Rescroll, QueryInv
    <3>2. qPage' = 0 /\ qSeen' = <<>>
      BY <2>2 DEF Rescroll
    <3>3. Reached(qPage)' = 0
      BY <3>1, <3>2, PagesReach DEF Reached, QueryInv
    <3>4. <<>> = [i \in 1..0 |-> Sorted'[i]]
      OBVIOUS
    <3> QED  BY <3>1, <3>2, <3>3, <3>4, PagesReach DEF QueryInv
  <2>3. CASE UNCHANGED queryVars
    <3>1. /\ QueryTypes' /\ (NoTies' <=> NoTies)
          /\ Sorted' = Sorted /\ Total' = Total /\ PageCount' = PageCount
      BY <2>3, SameAnswers DEF queryVars, QueryInv
    <3>2. qPage' = qPage /\ qSeen' = qSeen
      BY <2>3 DEF queryVars
    <3> QED  BY <3>1, <3>2 DEF QueryInv, Reached
  <2> QED  BY <2>1, <2>2, <2>3 DEF QueryNext
<1>3. QueryInv => ReadsAgree
  BY StatsAgree, CardsAgree, CollectionPaged DEF ReadsAgree, QueryInv
<1> QED  BY <1>1, <1>2, <1>3, PTL DEF QuerySpec
=============================================================================
