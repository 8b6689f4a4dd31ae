---------------------- MODULE PopulateEmbeddingsProofs ----------------------
(***************************************************************************)
(* Proofs about PopulateEmbeddings, for any stores and operations, and for *)
(* any number of crashes, failed embeddings and releases.                  *)
(***************************************************************************)
EXTENDS PopulateEmbeddings, TLAPS

AtWork == {"writing", "opening", "embedding", "inserting", "checking", "compressing",
           "removing"}

\* The store at hand is not done with, and a run has no result before it ends.
InOrder ==
    /\ pc \in AtWork => store \in todo
    /\ result = "running" <=> pc # "ended"
    /\ ~mismatch

\* How far the working copy has come, step by step.
WorkingCopy ==
    /\ pc = "writing" => Complete(zst[store])
    /\ pc \in {"embedding", "inserting", "checking", "compressing", "removing"}
          => Complete(raw[store])
    /\ pc \in {"embedding", "inserting"} => Operations \ rows \subseteq raw[store].embedded
    /\ pc = "inserting" => row \in rows
    /\ pc \in {"checking", "compressing", "removing"} => raw[store].embedded = Operations
    /\ pc = "removing" => zst[store] = raw[store]

\* A working copy is of the latest release, or was there before it.
RawReleaseKept ==
    \A s \in Stores \ shadowed : Complete(raw[s]) => raw[s].release = released[s]

Populated(s) == Complete(zst[s]) /\ zst[s].embedded = Operations /\ raw[s] = Missing

\* What is done with stays as it is for the rest of the run.
DoneIsDone == pc # "ended" => \A s \in targets \ todo : Populated(s)

\* NeverHalfEmbedded and SuccessMeansPopulated, in terms of what the files hold.
WholeOrBare ==
    \A s \in Stores : Complete(zst[s]) => zst[s].embedded \in {{}, Operations}

DoneWhenOk == result = "ok" => \A s \in targets : Populated(s)

Parts ==
    /\ InOrder /\ WorkingCopy /\ OneCompleteCopy /\ WholeOrBare
    /\ RawReleaseKept /\ ReleaseKept /\ DoneIsDone /\ DoneWhenOk

IInv == TypeOK /\ Parts

-----------------------------------------------------------------------------
LEMMA StoresAreComplete == \A contents \in Store : Complete(contents)
  BY PopulateAssumption DEF Complete

LEMMA CompleteIsStore == \A contents \in Contents : Complete(contents) => contents \in Store
  BY DEF Complete, Contents

\* What the embeddings of the store at hand become, and what stays.
LEMMA Embedded ==
    ASSUME TypeOK, NEW operations \in SUBSET Operations, store \in Stores,
           Complete(raw[store]), Embed(operations)
    PROVE  /\ raw' \in [Stores -> Contents]
           /\ raw'[store] \in Store
           /\ raw'[store].embedded = operations
           /\ raw'[store].release = raw[store].release
           /\ \A s \in Stores \ {store} : raw'[s] = raw[s]
<1>1. raw[store] \in Store
  BY CompleteIsStore DEF TypeOK
<1>2. raw' = [raw EXCEPT ![store] = [raw[store] EXCEPT !.embedded = operations]]
  BY DEF Embed
<1>3. [raw[store] EXCEPT !.embedded = operations] \in Store
  BY <1>1 DEF Store
<1>4. QED
  BY <1>1, <1>2, <1>3 DEF TypeOK, Store, Contents

-----------------------------------------------------------------------------
LEMMA InitIInv == Init => IInv
<1> SUFFICES ASSUME Init PROVE IInv
  OBVIOUS
<1>1. ASSUME NEW s \in Stores
      PROVE  zst[s] \in Store /\ zst[s].release = 0 /\ zst[s].embedded \in {{}, Operations}
  <2>1. zst[s] \in [release : {0}, embedded : {{}, Operations}]
    BY DEF Init
  <2>2. 0 \in 0..MaxReleases
    BY PopulateAssumption
  <2>3. PICK e \in {{}, Operations} : zst[s] = [release |-> 0, embedded |-> e]
    BY <2>1
  <2>4. QED
    BY <2>2, <2>3 DEF Store
<1>2. TypeOK
  <2>1. zst \in [Stores -> Contents]
    <3>1. \A s \in Stores : zst[s] \in Contents
      BY <1>1 DEF Contents
    <3>2. QED
      BY <3>1 DEF Init
  <2>2. raw \in [Stores -> Contents]
    BY DEF Init, Contents
  <2>3. released \in [Stores -> 0..MaxReleases] /\ mishaps \in 0..MaxMishaps
    BY PopulateAssumption DEF Init
  <2>4. pc = "ended" /\ result = "none" /\ mismatch = FALSE
    BY DEF Init
  <2>5. QED
    BY <2>1, <2>2, <2>3, <2>4 DEF Init, TypeOK
<1>3. Parts
  BY <1>1, StoresAreComplete, PopulateAssumption
  DEF Init, Parts, InOrder, AtWork, WorkingCopy, OneCompleteCopy, WholeOrBare,
      RawReleaseKept, ReleaseKept, DoneIsDone, DoneWhenOk, Complete
<1>4. QED
  BY <1>2, <1>3 DEF IInv

LEMMA StartKeepsIInv ==
    ASSUME TypeOK, Parts, NEW ts \in SUBSET Stores, Start(ts)
    PROVE  TypeOK' /\ Parts'
<1> USE PopulateAssumption
    DEF Start, Goes, Unchanged, files, run, TypeOK, Parts, Complete
<1>1. TypeOK'
  BY DEF Contents
<1>2. InOrder'
  BY DEF InOrder, AtWork, WorkingCopy
<1>3. WorkingCopy'
  BY DEF InOrder, AtWork, WorkingCopy
<1>4. OneCompleteCopy'
  BY DEF OneCompleteCopy, WorkingCopy, InOrder, AtWork
<1>5. WholeOrBare'
  BY DEF WholeOrBare, WorkingCopy, InOrder, AtWork
<1>6. RawReleaseKept'
  BY DEF RawReleaseKept, ReleaseKept, WorkingCopy, InOrder, AtWork
<1>7. ReleaseKept'
  BY DEF ReleaseKept, RawReleaseKept, WorkingCopy, InOrder, AtWork
<1>8. DoneIsDone'
  BY DEF DoneIsDone, Populated, InOrder, AtWork
<1>9. DoneWhenOk'
  BY DEF DoneWhenOk, DoneIsDone, Populated, InOrder, AtWork
<1>10. QED
  BY <1>1, <1>2, <1>3, <1>4, <1>5, <1>6, <1>7, <1>8, <1>9 DEF Parts

LEMMA RawExistsKeepsIInv ==
    ASSUME TypeOK, Parts, NEW s \in Stores, RawExists(s)
    PROVE  TypeOK' /\ Parts'
<1> USE PopulateAssumption
    DEF RawExists, Goes, Unchanged, files, run, TypeOK, Parts, Complete
<1>1. TypeOK'
  BY DEF Contents
<1>2. InOrder'
  BY DEF InOrder, AtWork, WorkingCopy
<1>3. WorkingCopy'
  BY DEF InOrder, AtWork, WorkingCopy
<1>4. OneCompleteCopy'
  BY DEF OneCompleteCopy, WorkingCopy, InOrder, AtWork
<1>5. WholeOrBare'
  BY DEF WholeOrBare, WorkingCopy, InOrder, AtWork
<1>6. RawReleaseKept'
  BY DEF RawReleaseKept, ReleaseKept, WorkingCopy, InOrder, AtWork
<1>7. ReleaseKept'
  BY DEF ReleaseKept, RawReleaseKept, WorkingCopy, InOrder, AtWork
<1>8. DoneIsDone'
  BY DEF DoneIsDone, Populated, InOrder, AtWork
<1>9. DoneWhenOk'
  BY DEF DoneWhenOk, DoneIsDone, Populated, InOrder, AtWork
<1>10. QED
  BY <1>1, <1>2, <1>3, <1>4, <1>5, <1>6, <1>7, <1>8, <1>9 DEF Parts

LEMMA DecompressZstKeepsIInv ==
    ASSUME TypeOK, Parts, NEW s \in Stores, DecompressZst(s)
    PROVE  TypeOK' /\ Parts'
<1> USE PopulateAssumption
    DEF DecompressZst, Goes, Unchanged, files, run, TypeOK, Parts, Complete, ZstSibling
<1>1. TypeOK'
  BY DEF Contents
<1>2. InOrder'
  BY DEF InOrder, AtWork, WorkingCopy
<1>3. WorkingCopy'
  BY DEF InOrder, AtWork, WorkingCopy
<1>4. OneCompleteCopy'
  BY DEF OneCompleteCopy, WorkingCopy, InOrder, AtWork
<1>5. WholeOrBare'
  BY DEF WholeOrBare, WorkingCopy, InOrder, AtWork
<1>6. RawReleaseKept'
  BY DEF RawReleaseKept, ReleaseKept, WorkingCopy, InOrder, AtWork
<1>7. ReleaseKept'
  BY DEF ReleaseKept, RawReleaseKept, WorkingCopy, InOrder, AtWork
<1>8. DoneIsDone'
  BY DEF DoneIsDone, Populated, InOrder, AtWork
<1>9. DoneWhenOk'
  BY DEF DoneWhenOk, DoneIsDone, Populated, InOrder, AtWork
<1>10. QED
  BY <1>1, <1>2, <1>3, <1>4, <1>5, <1>6, <1>7, <1>8, <1>9 DEF Parts

LEMMA WriteRawKeepsIInv ==
    ASSUME TypeOK, Parts, WriteRaw
    PROVE  TypeOK' /\ Parts'
<1> USE PopulateAssumption
    DEF WriteRaw, Goes, Unchanged, files, run, TypeOK, Parts, Complete, ZstSibling
<1>1. TypeOK'
  BY DEF Contents
<1>2. InOrder'
  BY DEF InOrder, AtWork, WorkingCopy
<1>3. WorkingCopy'
  BY DEF InOrder, AtWork, WorkingCopy
<1>4. OneCompleteCopy'
  BY DEF OneCompleteCopy, WorkingCopy, InOrder, AtWork
<1>5. WholeOrBare'
  BY DEF WholeOrBare, WorkingCopy, InOrder, AtWork
<1>6. RawReleaseKept'
  BY DEF RawReleaseKept, ReleaseKept, WorkingCopy, InOrder, AtWork
<1>7. ReleaseKept'
  BY DEF ReleaseKept, RawReleaseKept, WorkingCopy, InOrder, AtWork
<1>8. DoneIsDone'
  BY DEF DoneIsDone, Populated, InOrder, AtWork
<1>9. DoneWhenOk'
  BY DEF DoneWhenOk, DoneIsDone, Populated, InOrder, AtWork
<1>10. QED
  BY <1>1, <1>2, <1>3, <1>4, <1>5, <1>6, <1>7, <1>8, <1>9 DEF Parts

LEMMA SelectRowsKeepsIInv ==
    ASSUME TypeOK, Parts, SelectRows
    PROVE  TypeOK' /\ Parts'
<1> USE PopulateAssumption
    DEF SelectRows, Goes, Unchanged, files, run, TypeOK, Parts, Complete
<1>1. TypeOK'
  BY DEF Contents
<1>2. InOrder'
  BY DEF InOrder, AtWork, WorkingCopy
<1>3. WorkingCopy'
  BY DEF InOrder, AtWork, WorkingCopy
<1>4. OneCompleteCopy'
  BY DEF OneCompleteCopy, WorkingCopy, InOrder, AtWork
<1>5. WholeOrBare'
  BY DEF WholeOrBare, WorkingCopy, InOrder, AtWork
<1>6. RawReleaseKept'
  BY DEF RawReleaseKept, ReleaseKept, WorkingCopy, InOrder, AtWork
<1>7. ReleaseKept'
  BY DEF ReleaseKept, RawReleaseKept, WorkingCopy, InOrder, AtWork
<1>8. DoneIsDone'
  BY DEF DoneIsDone, Populated, InOrder, AtWork
<1>9. DoneWhenOk'
  BY DEF DoneWhenOk, DoneIsDone, Populated, InOrder, AtWork
<1>10. QED
  BY <1>1, <1>2, <1>3, <1>4, <1>5, <1>6, <1>7, <1>8, <1>9 DEF Parts

LEMMA SelectFailsKeepsIInv ==
    ASSUME TypeOK, Parts, SelectFails
    PROVE  TypeOK' /\ Parts'
<1> USE PopulateAssumption
    DEF SelectFails, Goes, Unchanged, files, run, TypeOK, Parts, Complete, Fail
<1>1. TypeOK'
  BY DEF Contents
<1>2. InOrder'
  BY DEF InOrder, AtWork, WorkingCopy
<1>3. WorkingCopy'
  BY DEF InOrder, AtWork, WorkingCopy
<1>4. OneCompleteCopy'
  BY DEF OneCompleteCopy, WorkingCopy, InOrder, AtWork
<1>5. WholeOrBare'
  BY DEF WholeOrBare, WorkingCopy, InOrder, AtWork
<1>6. RawReleaseKept'
  BY DEF RawReleaseKept, ReleaseKept, WorkingCopy, InOrder, AtWork
<1>7. ReleaseKept'
  BY DEF ReleaseKept, RawReleaseKept, WorkingCopy, InOrder, AtWork
<1>8. DoneIsDone'
  BY DEF DoneIsDone, Populated, InOrder, AtWork
<1>9. DoneWhenOk'
  BY DEF DoneWhenOk, DoneIsDone, Populated, InOrder, AtWork
<1>10. QED
  BY <1>1, <1>2, <1>3, <1>4, <1>5, <1>6, <1>7, <1>8, <1>9 DEF Parts

LEMMA DeleteRowKeepsIInv ==
    ASSUME TypeOK, Parts, NEW o \in Operations, DeleteRow(o)
    PROVE  TypeOK' /\ Parts'
<1> USE PopulateAssumption
    DEF DeleteRow, Goes, Unchanged, files, run, TypeOK, Parts, Complete
<1>e. /\ raw' \in [Stores -> Contents]
      /\ raw'[store] \in Store
      /\ raw'[store].embedded = raw[store].embedded \ {o}
      /\ raw'[store].release = raw[store].release
      /\ \A s \in Stores \ {store} : raw'[s] = raw[s]
  <2>1. store \in Stores /\ Complete(raw[store])
    BY DEF InOrder, AtWork, WorkingCopy
  <2>2. raw[store] \in Store
    BY <2>1, CompleteIsStore
  <2>3. raw[store].embedded \ {o} \in SUBSET Operations
    BY <2>2 DEF Store, InOrder, WorkingCopy
  <2>4. QED
    BY <2>1, <2>3, Embedded
<1> USE <1>e
<1>1. TypeOK'
  BY DEF Contents
<1>2. InOrder'
  BY DEF InOrder, AtWork, WorkingCopy
<1>3. WorkingCopy'
  BY DEF InOrder, AtWork, WorkingCopy
<1>4. OneCompleteCopy'
  BY DEF OneCompleteCopy, WorkingCopy, InOrder, AtWork
<1>5. WholeOrBare'
  BY DEF WholeOrBare, WorkingCopy, InOrder, AtWork
<1>6. RawReleaseKept'
  BY DEF RawReleaseKept, ReleaseKept, WorkingCopy, InOrder, AtWork
<1>7. ReleaseKept'
  BY DEF ReleaseKept, RawReleaseKept, WorkingCopy, InOrder, AtWork
<1>8. DoneIsDone'
  BY DEF DoneIsDone, Populated, InOrder, AtWork
<1>9. DoneWhenOk'
  BY DEF DoneWhenOk, DoneIsDone, Populated, InOrder, AtWork
<1>10. QED
  BY <1>1, <1>2, <1>3, <1>4, <1>5, <1>6, <1>7, <1>8, <1>9 DEF Parts

LEMMA InsertRowKeepsIInv ==
    ASSUME TypeOK, Parts, InsertRow
    PROVE  TypeOK' /\ Parts'
<1> USE PopulateAssumption
    DEF InsertRow, Goes, Unchanged, files, run, TypeOK, Parts, Complete
<1>e. /\ raw' \in [Stores -> Contents]
      /\ raw'[store] \in Store
      /\ raw'[store].embedded = raw[store].embedded \cup {row}
      /\ raw'[store].release = raw[store].release
      /\ \A s \in Stores \ {store} : raw'[s] = raw[s]
  <2>1. store \in Stores /\ Complete(raw[store])
    BY DEF InOrder, AtWork, WorkingCopy
  <2>2. raw[store] \in Store
    BY <2>1, CompleteIsStore
  <2>3. raw[store].embedded \cup {row} \in SUBSET Operations
    BY <2>2 DEF Store, InOrder, WorkingCopy
  <2>4. QED
    BY <2>1, <2>3, Embedded
<1> USE <1>e
<1>1. TypeOK'
  BY DEF Contents
<1>2. InOrder'
  BY DEF InOrder, AtWork, WorkingCopy
<1>3. WorkingCopy'
  BY DEF InOrder, AtWork, WorkingCopy
<1>4. OneCompleteCopy'
  BY DEF OneCompleteCopy, WorkingCopy, InOrder, AtWork
<1>5. WholeOrBare'
  BY DEF WholeOrBare, WorkingCopy, InOrder, AtWork
<1>6. RawReleaseKept'
  BY DEF RawReleaseKept, ReleaseKept, WorkingCopy, InOrder, AtWork
<1>7. ReleaseKept'
  BY DEF ReleaseKept, RawReleaseKept, WorkingCopy, InOrder, AtWork
<1>8. DoneIsDone'
  BY DEF DoneIsDone, Populated, InOrder, AtWork
<1>9. DoneWhenOk'
  BY DEF DoneWhenOk, DoneIsDone, Populated, InOrder, AtWork
<1>10. QED
  BY <1>1, <1>2, <1>3, <1>4, <1>5, <1>6, <1>7, <1>8, <1>9 DEF Parts

LEMMA CheckKeepsIInv ==
    ASSUME TypeOK, Parts, Check
    PROVE  TypeOK' /\ Parts'
<1> USE PopulateAssumption
    DEF Check, Goes, Unchanged, files, run, TypeOK, Parts, Complete
<1>e. raw[store].embedded = Operations
  <2>1. raw[store] \in Store
    BY CompleteIsStore DEF InOrder, AtWork, WorkingCopy
  <2>2. QED
    BY <2>1 DEF Store, WorkingCopy
<1> USE <1>e
<1>1. TypeOK'
  BY DEF Contents
<1>2. InOrder'
  BY DEF InOrder, AtWork, WorkingCopy
<1>3. WorkingCopy'
  BY DEF InOrder, AtWork, WorkingCopy
<1>4. OneCompleteCopy'
  BY DEF OneCompleteCopy, WorkingCopy, InOrder, AtWork
<1>5. WholeOrBare'
  BY DEF WholeOrBare, WorkingCopy, InOrder, AtWork
<1>6. RawReleaseKept'
  BY DEF RawReleaseKept, ReleaseKept, WorkingCopy, InOrder, AtWork
<1>7. ReleaseKept'
  BY DEF ReleaseKept, RawReleaseKept, WorkingCopy, InOrder, AtWork
<1>8. DoneIsDone'
  BY DEF DoneIsDone, Populated, InOrder, AtWork
<1>9. DoneWhenOk'
  BY DEF DoneWhenOk, DoneIsDone, Populated, InOrder, AtWork
<1>10. QED
  BY <1>1, <1>2, <1>3, <1>4, <1>5, <1>6, <1>7, <1>8, <1>9 DEF Parts

LEMMA CreateZstKeepsIInv ==
    ASSUME TypeOK, Parts, CreateZst
    PROVE  TypeOK' /\ Parts'
<1> USE PopulateAssumption
    DEF CreateZst, Goes, Unchanged, files, run, TypeOK, Parts, Complete, ZstSibling
<1>1. TypeOK'
  BY DEF Contents
<1>2. InOrder'
  BY DEF InOrder, AtWork, WorkingCopy
<1>3. WorkingCopy'
  BY DEF InOrder, AtWork, WorkingCopy
<1>4. OneCompleteCopy'
  BY DEF OneCompleteCopy, WorkingCopy, InOrder, AtWork
<1>5. WholeOrBare'
  BY DEF WholeOrBare, WorkingCopy, InOrder, AtWork
<1>6. RawReleaseKept'
  BY DEF RawReleaseKept, ReleaseKept, WorkingCopy, InOrder, AtWork
<1>7. ReleaseKept'
  BY DEF ReleaseKept, RawReleaseKept, WorkingCopy, InOrder, AtWork
<1>8. DoneIsDone'
  BY DEF DoneIsDone, Populated, InOrder, AtWork
<1>9. DoneWhenOk'
  BY DEF DoneWhenOk, DoneIsDone, Populated, InOrder, AtWork
<1>10. QED
  BY <1>1, <1>2, <1>3, <1>4, <1>5, <1>6, <1>7, <1>8, <1>9 DEF Parts

LEMMA WriteZstKeepsIInv ==
    ASSUME TypeOK, Parts, WriteZst
    PROVE  TypeOK' /\ Parts'
<1> USE PopulateAssumption
    DEF WriteZst, Goes, Unchanged, files, run, TypeOK, Parts, Complete, ZstSibling
<1>1. TypeOK'
  BY DEF Contents
<1>2. InOrder'
  BY DEF InOrder, AtWork, WorkingCopy
<1>3. WorkingCopy'
  BY DEF InOrder, AtWork, WorkingCopy
<1>4. OneCompleteCopy'
  BY DEF OneCompleteCopy, WorkingCopy, InOrder, AtWork
<1>5. WholeOrBare'
  BY DEF WholeOrBare, WorkingCopy, InOrder, AtWork
<1>6. RawReleaseKept'
  BY DEF RawReleaseKept, ReleaseKept, WorkingCopy, InOrder, AtWork
<1>7. ReleaseKept'
  BY DEF ReleaseKept, RawReleaseKept, WorkingCopy, InOrder, AtWork
<1>8. DoneIsDone'
  BY DEF DoneIsDone, Populated, InOrder, AtWork
<1>9. DoneWhenOk'
  BY DEF DoneWhenOk, DoneIsDone, Populated, InOrder, AtWork
<1>10. QED
  BY <1>1, <1>2, <1>3, <1>4, <1>5, <1>6, <1>7, <1>8, <1>9 DEF Parts

LEMMA RemoveRawKeepsIInv ==
    ASSUME TypeOK, Parts, RemoveRaw
    PROVE  TypeOK' /\ Parts'
<1> USE PopulateAssumption
    DEF RemoveRaw, Goes, Unchanged, files, run, TypeOK, Parts, Complete
<1>1. TypeOK'
  BY DEF Contents
<1>2. InOrder'
  BY DEF InOrder, AtWork, WorkingCopy
<1>3. WorkingCopy'
  BY DEF InOrder, AtWork, WorkingCopy
<1>4. OneCompleteCopy'
  BY DEF OneCompleteCopy, WorkingCopy, InOrder, AtWork
<1>5. WholeOrBare'
  BY DEF WholeOrBare, WorkingCopy, InOrder, AtWork
<1>6. RawReleaseKept'
  BY DEF RawReleaseKept, ReleaseKept, WorkingCopy, InOrder, AtWork
<1>7. ReleaseKept'
  BY DEF ReleaseKept, RawReleaseKept, WorkingCopy, InOrder, AtWork
<1>8. DoneIsDone'
  <2> SUFFICES ASSUME NEW s \in targets \ todo' PROVE Populated(s)'
    BY DEF DoneIsDone
  <2>1. CASE s = store
    BY <2>1 DEF Populated, InOrder, AtWork, WorkingCopy
  <2>2. CASE s # store
    BY <2>2 DEF Populated, DoneIsDone, InOrder, AtWork
  <2>3. QED
    BY <2>1, <2>2
<1>9. DoneWhenOk'
  BY DEF DoneWhenOk, DoneIsDone, Populated, InOrder, AtWork
<1>10. QED
  BY <1>1, <1>2, <1>3, <1>4, <1>5, <1>6, <1>7, <1>8, <1>9 DEF Parts

LEMMA FinishKeepsIInv ==
    ASSUME TypeOK, Parts, Finish
    PROVE  TypeOK' /\ Parts'
<1> USE PopulateAssumption
    DEF Finish, Goes, Unchanged, files, run, TypeOK, Parts, Complete
<1>1. TypeOK'
  BY DEF Contents
<1>2. InOrder'
  BY DEF InOrder, AtWork, WorkingCopy
<1>3. WorkingCopy'
  BY DEF InOrder, AtWork, WorkingCopy
<1>4. OneCompleteCopy'
  BY DEF OneCompleteCopy, WorkingCopy, InOrder, AtWork
<1>5. WholeOrBare'
  BY DEF WholeOrBare, WorkingCopy, InOrder, AtWork
<1>6. RawReleaseKept'
  BY DEF RawReleaseKept, ReleaseKept, WorkingCopy, InOrder, AtWork
<1>7. ReleaseKept'
  BY DEF ReleaseKept, RawReleaseKept, WorkingCopy, InOrder, AtWork
<1>8. DoneIsDone'
  BY DEF DoneIsDone, Populated, InOrder, AtWork
<1>9. DoneWhenOk'
  BY DEF DoneWhenOk, DoneIsDone, Populated, InOrder, AtWork
<1>10. QED
  BY <1>1, <1>2, <1>3, <1>4, <1>5, <1>6, <1>7, <1>8, <1>9 DEF Parts

LEMMA EmbedFailsKeepsIInv ==
    ASSUME TypeOK, Parts, NEW o \in Operations, EmbedFails(o)
    PROVE  TypeOK' /\ Parts'
<1> USE PopulateAssumption
    DEF EmbedFails, Goes, Unchanged, files, run, TypeOK, Parts, Complete, Fail, Mishap
<1>1. TypeOK'
  BY DEF Contents
<1>2. InOrder'
  BY DEF InOrder, AtWork, WorkingCopy
<1>3. WorkingCopy'
  BY DEF InOrder, AtWork, WorkingCopy
<1>4. OneCompleteCopy'
  BY DEF OneCompleteCopy, WorkingCopy, InOrder, AtWork
<1>5. WholeOrBare'
  BY DEF WholeOrBare, WorkingCopy, InOrder, AtWork
<1>6. RawReleaseKept'
  BY DEF RawReleaseKept, ReleaseKept, WorkingCopy, InOrder, AtWork
<1>7. ReleaseKept'
  BY DEF ReleaseKept, RawReleaseKept, WorkingCopy, InOrder, AtWork
<1>8. DoneIsDone'
  BY DEF DoneIsDone, Populated, InOrder, AtWork
<1>9. DoneWhenOk'
  BY DEF DoneWhenOk, DoneIsDone, Populated, InOrder, AtWork
<1>10. QED
  BY <1>1, <1>2, <1>3, <1>4, <1>5, <1>6, <1>7, <1>8, <1>9 DEF Parts

LEMMA CrashKeepsIInv ==
    ASSUME TypeOK, Parts, Crash
    PROVE  TypeOK' /\ Parts'
<1> USE PopulateAssumption
    DEF Crash, Goes, Unchanged, files, run, TypeOK, Parts, Complete, Fail, Mishap
<1>1. TypeOK'
  BY DEF Contents
<1>2. InOrder'
  BY DEF InOrder, AtWork, WorkingCopy
<1>3. WorkingCopy'
  BY DEF InOrder, AtWork, WorkingCopy
<1>4. OneCompleteCopy'
  BY DEF OneCompleteCopy, WorkingCopy, InOrder, AtWork
<1>5. WholeOrBare'
  BY DEF WholeOrBare, WorkingCopy, InOrder, AtWork
<1>6. RawReleaseKept'
  BY DEF RawReleaseKept, ReleaseKept, WorkingCopy, InOrder, AtWork
<1>7. ReleaseKept'
  BY DEF ReleaseKept, RawReleaseKept, WorkingCopy, InOrder, AtWork
<1>8. DoneIsDone'
  BY DEF DoneIsDone, Populated, InOrder, AtWork
<1>9. DoneWhenOk'
  BY DEF DoneWhenOk, DoneIsDone, Populated, InOrder, AtWork
<1>10. QED
  BY <1>1, <1>2, <1>3, <1>4, <1>5, <1>6, <1>7, <1>8, <1>9 DEF Parts

LEMMA ReleaseKeepsIInv ==
    ASSUME TypeOK, Parts, NEW s \in Stores, Release(s)
    PROVE  TypeOK' /\ Parts'
<1> USE PopulateAssumption
    DEF Release, Goes, Unchanged, files, run, TypeOK, Parts, Complete
<1>e. [release |-> released[s] + 1, embedded |-> {}] \in Store
  BY DEF Store
<1> USE <1>e
<1>1. TypeOK'
  BY DEF Contents
<1>2. InOrder'
  BY DEF InOrder, AtWork, WorkingCopy
<1>3. WorkingCopy'
  BY DEF InOrder, AtWork, WorkingCopy
<1>4. OneCompleteCopy'
  BY DEF OneCompleteCopy, WorkingCopy, InOrder, AtWork
<1>5. WholeOrBare'
  BY DEF WholeOrBare, WorkingCopy, InOrder, AtWork
<1>6. RawReleaseKept'
  BY DEF RawReleaseKept, ReleaseKept, WorkingCopy, InOrder, AtWork
<1>7. ReleaseKept'
  BY DEF ReleaseKept, RawReleaseKept, WorkingCopy, InOrder, AtWork
<1>8. DoneIsDone'
  BY DEF DoneIsDone, Populated, InOrder, AtWork
<1>9. DoneWhenOk'
  BY DEF DoneWhenOk, DoneIsDone, Populated, InOrder, AtWork
<1>10. QED
  BY <1>1, <1>2, <1>3, <1>4, <1>5, <1>6, <1>7, <1>8, <1>9 DEF Parts

-----------------------------------------------------------------------------
LEMMA NextIInv == IInv /\ [Next]_vars => IInv'
<1> SUFFICES ASSUME TypeOK, Parts, [Next]_vars PROVE TypeOK' /\ Parts'
  BY DEF IInv
<1>1. ASSUME NEW ts \in {Stores} \cup {{s} : s \in Stores}, Start(ts) PROVE TypeOK' /\ Parts'
  <2>1. ts \in SUBSET Stores
    OBVIOUS
  <2>2. QED
    BY <1>1, <2>1, StartKeepsIInv
<1>2. CASE Step
  BY <1>2, RawExistsKeepsIInv, DecompressZstKeepsIInv, WriteRawKeepsIInv, SelectRowsKeepsIInv,
     SelectFailsKeepsIInv, DeleteRowKeepsIInv, InsertRowKeepsIInv, CheckKeepsIInv,
     CreateZstKeepsIInv, WriteZstKeepsIInv, RemoveRawKeepsIInv, FinishKeepsIInv DEF Step
<1>3. CASE \E o \in Operations : EmbedFails(o)
  BY <1>3, EmbedFailsKeepsIInv
<1>4. CASE Crash
  BY <1>4, CrashKeepsIInv
<1>5. CASE \E s \in Stores : Release(s)
  BY <1>5, ReleaseKeepsIInv
<1>6. CASE UNCHANGED vars
  <2>1. TypeOK'
    BY <1>6 DEF vars, files, run, TypeOK
  <2>2. Parts'
    BY <1>6 DEF vars, files, run, Parts, InOrder, WorkingCopy, OneCompleteCopy,
       WholeOrBare, RawReleaseKept, ReleaseKept, DoneIsDone, Populated,
       DoneWhenOk
  <2>3. QED
    BY <2>1, <2>2
<1>7. QED
  BY <1>1, <1>2, <1>3, <1>4, <1>5, <1>6 DEF Next

LEMMA SpecIInv == Spec => []IInv
  BY InitIInv, NextIInv, PTL DEF Spec

-----------------------------------------------------------------------------
\* Every variable keeps its type: a file is missing, cut off, or the store of one
\* release with embeddings of its own operations only.
THEOREM TypeCorrect == Spec => []TypeOK
<1>1. IInv => TypeOK
  BY DEF IInv
<1>2. QED
  BY SpecIInv, <1>1, PTL

\* Wherever runs are stopped, one complete file of each store is left: the .zst file is
\* truncated only after the .db file is complete, which is removed only after the
\* .zst file is (recompress_and_remove_raw).
THEOREM OneCopyIsComplete == Spec => []OneCompleteCopy
<1>1. IInv => OneCompleteCopy
  BY DEF IInv, Parts
<1>2. QED
  BY SpecIInv, <1>1, PTL

\* A store with only some of its embeddings is never folded back, although rows are
\* deleted and inserted without a transaction (populate_one).
THEOREM FoldedBackWhole == Spec => []NeverHalfEmbedded
<1>1. IInv => NeverHalfEmbedded
  BY DEF IInv, Parts, WholeOrBare, NeverHalfEmbedded, Found
<1>2. QED
  BY SpecIInv, <1>1, PTL

\* A store checked out is never put back to an earlier release, unless an earlier run
\* had left a working copy of it (ensure_raw_db).
THEOREM ReleaseIsKept == Spec => []ReleaseKept
<1>1. IInv => ReleaseKept
  BY DEF IInv, Parts
<1>2. QED
  BY SpecIInv, <1>1, PTL

\* Success means that every target is embedded and no working copy is left (main).
THEOREM SuccessIsTrue == Spec => []SuccessMeansPopulated
<1>1. IInv => SuccessMeansPopulated
  BY DEF IInv, Parts, DoneWhenOk, Populated, SuccessMeansPopulated, Found
<1>2. QED
  BY SpecIInv, <1>1, PTL

\* The exit for operations that are still without a row is never taken: with one run at
\* a time nothing removes a row between its insertion and the comparison (main).
THEOREM NothingIsMissing == Spec => [](~mismatch)
<1>1. IInv => ~mismatch
  BY DEF IInv, Parts, InOrder
<1>2. QED
  BY SpecIInv, <1>1, PTL

-----------------------------------------------------------------------------
(* What a step may never do.                                                *)

\* A working copy is there when it is opened, and what is left to do is of what the
\* run was to do.
AtHand == (pc = "opening" => raw[store] # Missing) /\ todo \subseteq targets

\* A run fails by a mishap, or because the working copy at hand is cut off.
Foreseen ==
    result' = "failed" /\ result # "failed" => mishaps' = mishaps + 1 \/ raw[store] = Broken

FailuresAreMishaps == [][Foreseen]_vars

\* What a .zst file becomes: cut off, embedded, or a new release.
FoldedBack(s) ==
    zst'[s] # zst[s] =>
        \/ zst'[s] = Broken
        \/ Complete(zst'[s]) /\ Found(zst'[s]) = Operations
        \/ released'[s] = released[s] + 1

OnlyFoldsBackWhole == [][\A s \in Stores : FoldedBack(s)]_vars

LeftAlone(s) == raw'[s] = raw[s] /\ (zst'[s] = zst[s] \/ released'[s] # released[s])

OthersLeftAlone == [][\A s \in Stores \ targets : LeftAlone(s)]_vars

\* The steps of a run that change no file, and those that change those of its store.
Looks ==
    \/ \E s \in Stores : RawExists(s)
    \/ SelectRows \/ SelectFails \/ Check \/ Finish
    \/ \E o \in Operations : EmbedFails(o)
    \/ Crash

LEMMA AtHandKept == IInv /\ AtHand /\ [Next]_vars => AtHand'
<1> SUFFICES ASSUME IInv, AtHand, [Next]_vars  PROVE AtHand'
  OBVIOUS
<1> USE DEF AtHand, Goes, Unchanged, files, run
<1>1. ASSUME NEW ts \in {Stores} \cup {{s} : s \in Stores}, Start(ts)  PROVE AtHand'
  BY <1>1 DEF Start
<1>2. CASE Looks
  BY <1>2 DEF Looks, RawExists, SelectRows, SelectFails, Check, Finish, EmbedFails, Crash, Fail
<1>3. ASSUME NEW s \in Stores, DecompressZst(s)  PROVE AtHand'
  BY <1>3 DEF DecompressZst
<1>4. CASE WriteRaw
  <2>1. store \in Stores /\ Complete(zst[store])
    BY <1>4 DEF IInv, TypeOK, Parts, InOrder, AtWork, WorkingCopy, WriteRaw
  <2> QED  BY <1>4, <2>1 DEF WriteRaw, ZstSibling, Complete, IInv, TypeOK
<1>5. ASSUME NEW o \in Operations, DeleteRow(o)  PROVE AtHand'
  BY <1>5 DEF DeleteRow
<1>6. CASE InsertRow \/ CreateZst \/ WriteZst \/ RemoveRaw
  BY <1>6 DEF InsertRow, CreateZst, WriteZst, RemoveRaw
<1>7. ASSUME NEW s \in Stores, Release(s)  PROVE AtHand'
  BY <1>7 DEF Release
<1>8. CASE UNCHANGED vars
  BY <1>8 DEF vars
<1> QED
  BY <1>1, <1>2, <1>3, <1>4, <1>5, <1>6, <1>7, <1>8 DEF Next, Step, Looks

LEMMA SpecAtHand == Spec => []AtHand
<1>1. Init => AtHand
  BY DEF Init, AtHand
<1> QED  BY <1>1, AtHandKept, SpecIInv, PTL DEF Spec

LEMMA StepsForeseen == IInv /\ AtHand /\ [Next]_vars => Foreseen
<1> SUFFICES ASSUME IInv, AtHand, [Next]_vars, result' = "failed", result # "failed"
             PROVE  mishaps' = mishaps + 1 \/ raw[store] = Broken
  BY DEF Foreseen
<1>1. CASE SelectFails
  BY <1>1 DEF SelectFails, AtHand, Complete
<1>2. CASE Finish
  BY <1>2 DEF Finish, IInv, Parts, InOrder
<1>3. CASE Crash \/ \E o \in Operations : EmbedFails(o)
  BY <1>3 DEF Crash, EmbedFails, Mishap
<1>4. ~(\E ts \in {Stores} \cup {{s} : s \in Stores} : Start(ts))
  BY DEF Start
<1>5. ~(\E s \in Stores : RawExists(s) \/ DecompressZst(s) \/ Release(s))
  BY DEF RawExists, DecompressZst, Release
<1>6. ~(WriteRaw \/ SelectRows \/ (\E o \in Operations : DeleteRow(o)) \/ InsertRow \/ Check
        \/ CreateZst \/ WriteZst \/ RemoveRaw \/ UNCHANGED vars)
  BY DEF WriteRaw, SelectRows, DeleteRow, InsertRow, Check, CreateZst, WriteZst, RemoveRaw,
     vars, run
<1> QED  BY <1>1, <1>2, <1>3, <1>4, <1>5, <1>6 DEF Next, Step

\* The files of a store change only while it is at hand, or when it is released.
LEMMA FilesOfOthers ==
    ASSUME IInv, [Next]_vars, NEW s \in Stores
    PROVE  /\ raw'[s] # raw[s] => s \in todo
           /\ zst'[s] # zst[s] =>
                  \/ s \in todo /\ zst'[s] = Broken
                  \/ /\ s \in todo /\ s = store /\ pc = "compressing"
                     /\ zst'[s] = raw[s]
                  \/ released'[s] = released[s] + 1 /\ released[s] \in Nat
<1> USE DEF IInv, TypeOK, files
<1>1. pc \in AtWork => store \in todo /\ store \in Stores
  BY DEF Parts, InOrder
<1>2. CASE Looks \/ \E ts \in {Stores} \cup {{t} : t \in Stores} : Start(ts)
  <2>1. UNCHANGED <<raw, zst>>
    BY <1>2 DEF Looks, RawExists, SelectRows, SelectFails, Check, Finish, EmbedFails, Crash,
       Fail, Start
  <2> QED  BY <2>1
<1>3. ASSUME NEW t \in Stores, DecompressZst(t)
      PROVE  UNCHANGED zst /\ (raw'[s] # raw[s] => s \in todo)
  BY <1>3 DEF DecompressZst
<1>4. CASE WriteRaw \/ RemoveRaw \/ InsertRow \/ \E o \in Operations : DeleteRow(o)
  <2>1. UNCHANGED zst
    BY <1>4 DEF WriteRaw, RemoveRaw, InsertRow, DeleteRow
  <2>2. \E contents : raw' = [raw EXCEPT ![store] = contents]
    BY <1>4 DEF WriteRaw, RemoveRaw, InsertRow, DeleteRow, Embed
  <2>3. pc \in AtWork
    BY <1>4 DEF WriteRaw, RemoveRaw, InsertRow, DeleteRow, Goes, AtWork
  <2> QED  BY <1>1, <2>1, <2>2, <2>3
<1>5. CASE CreateZst
  BY <1>1, <1>5 DEF CreateZst, Goes, AtWork, ZstSibling
<1>6. CASE WriteZst
  BY <1>1, <1>6 DEF WriteZst, Goes, AtWork, ZstSibling
<1>7. ASSUME NEW t \in Stores, Release(t)
      PROVE  /\ UNCHANGED raw
             /\ zst'[s] # zst[s] => released'[s] = released[s] + 1 /\ released[s] \in Nat
  BY <1>7, PopulateAssumption DEF Release
<1>8. CASE UNCHANGED vars
  BY <1>8 DEF vars
<1> QED
  BY <1>2, <1>3, <1>4, <1>5, <1>6, <1>7, <1>8 DEF Next, Step, Looks

LEMMA StepsFoldBackWhole ==
    ASSUME IInv, [Next]_vars, NEW s \in Stores
    PROVE  FoldedBack(s)
<1>1. pc = "compressing" => Complete(raw[store]) /\ raw[store].embedded = Operations
  BY DEF IInv, Parts, WorkingCopy
<1> QED  BY <1>1, FilesOfOthers DEF FoldedBack, Found

LEMMA StepsLeaveOthersAlone ==
    ASSUME IInv, AtHand, [Next]_vars, NEW s \in Stores \ targets
    PROVE  LeftAlone(s)
<1>1. s \notin todo
  BY DEF AtHand
<1>2. raw'[s] = raw[s]
  BY <1>1, FilesOfOthers
<1>3. zst'[s] # zst[s] => released'[s] = released[s] + 1 /\ released[s] \in Nat
  BY <1>1, FilesOfOthers
<1> QED  BY <1>2, <1>3 DEF LeftAlone

\* No run fails of itself: it takes a crash, an embedding that cannot be had, or a
\* working copy that a crash cut off (main and populate_one).
THEOREM RunsFailByMishap == Spec => FailuresAreMishaps
BY StepsForeseen, SpecIInv, SpecAtHand, PTL DEF Spec, FailuresAreMishaps

\* An embedded store never loses its embeddings to a later run, whatever that run finds
\* and wherever it stops: what recompress_and_remove_raw writes is embedded throughout.
THEOREM EmbeddedStaysEmbedded == Spec => OnlyFoldsBackWhole
<1>1. IInv /\ [Next]_vars => [\A s \in Stores : FoldedBack(s)]_vars
  BY StepsFoldBackWhole
<1> QED  BY <1>1, SpecIInv, PTL DEF Spec, OnlyFoldsBackWhole

\* A run for one store leaves the files of the others alone (targets and zst_sibling).
THEOREM OnlyTargetsAreTouched == Spec => OthersLeftAlone
<1>1. IInv /\ AtHand /\ [Next]_vars => [\A s \in Stores \ targets : LeftAlone(s)]_vars
  BY StepsLeaveOthersAlone
<1> QED  BY <1>1, SpecIInv, SpecAtHand, PTL DEF Spec, OthersLeftAlone
=============================================================================
