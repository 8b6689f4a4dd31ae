----------------------- MODULE StoreExtractionProofs -----------------------
(***************************************************************************)
(* Proofs about StoreExtraction, for any processes, tasks and builds, and  *)
(* for any number of retries, failures, restarts and cleanings.            *)
(***************************************************************************)
EXTENDS StoreExtraction, TLAPS

Resolved == {"resolved", "missed", "copying", "copied", "served", "probing"}

\* The lock is held by the task that extracts, and by no other.
LockHeld ==
    \A p \in Processes, t \in Tasks : <<p, t>> \in Callers =>
        (lock[p] = t <=> pc[<<p, t>>] \in {"writing", "renaming"})

\* A task renames a file that is complete: its process's own, if nobody removed it.
TmpComplete ==
    \A p \in Processes, t \in Tasks :
        <<p, t>> \in Callers /\ pc[<<p, t>>] = "renaming" => tmp[p] \in {build[p], None}

\* While a process extracts it knows no path, so none of its tasks is past that.
ResolvedFirst ==
    \A p \in Processes :
        /\ lock[p] # None => p \notin extracted
        /\ owner[p] # None => p \in extracted
        /\ \A t \in Tasks : <<p, t>> \in Callers /\ pc[<<p, t>>] \in Resolved
                                => p \in extracted

\* The path leads to the file the process put there.
DiskIsOwn ==
    \A p \in Processes : p \in extracted \ replaced => disk \in {build[p], None}

\* So does a copy, until it is given up.
CopyIsOwn ==
    \A p \in Processes \ replaced, t \in Tasks :
        <<p, t>> \in Callers /\ pc[<<p, t>>] \in {"copying", "copied"}
            => copy[<<p, t>>] = build[p]

\* The task whose copy is kept makes no other.
OwnerIsDone ==
    \A p \in Processes, t \in Tasks : <<p, t>> \in Callers /\ owner[p] = t =>
        pc[<<p, t>>] \notin {"missed", "copying", "copied"}

OwnerIsCaller == \A p \in Processes : owner[p] # None => <<p, owner[p]>> \in Callers

\* OneConnection, of a process and a task.
SameGiven ==
    \A p \in Processes, t \in Tasks : <<p, t>> \in Callers /\ pc[<<p, t>>] = "served" =>
        owner[p] # None /\ got[<<p, t>>] = owner[p]

Parts ==
    /\ LockHeld /\ TmpComplete /\ CompleteCopies /\ ResolvedFirst
    /\ DiskIsOwn /\ CopyIsOwn /\ OwnerIsDone /\ OwnerIsCaller
    /\ OwnStoreUnlessReplaced /\ SameGiven

IInv == TypeOK /\ Parts

-----------------------------------------------------------------------------
(* What a step that leaves some variables alone keeps.                      *)

\* What Moves says of each caller.
MovedOne(p, t, from, to) ==
    /\ pc[<<p, t>>] = from
    /\ pc'[<<p, t>>] = to
    /\ \A q \in Processes, u \in Tasks :
          <<q, u>> \in Callers /\ (q # p \/ u # t) => pc'[<<q, u>>] = pc[<<q, u>>]

LEMMA Moved ==
    ASSUME TypeOK, NEW p \in Processes, NEW t \in Tasks, <<p, t>> \in Callers,
           NEW from, NEW to, Moves(<<p, t>>, from, to)
    PROVE  MovedOne(p, t, from, to)
  BY DEF TypeOK, Moves, MovedOne

LEMMA LockStays ==
    ASSUME NEW p \in Processes, NEW t \in Tasks, NEW from, NEW to,
           MovedOne(p, t, from, to), LockHeld,
           lock' = lock,
           from \in {"writing", "renaming"} <=> to \in {"writing", "renaming"}
    PROVE  LockHeld'
<1> SUFFICES ASSUME NEW q \in Processes, NEW u \in Tasks, <<q, u>> \in Callers
             PROVE  lock'[q] = u <=> pc'[<<q, u>>] \in {"writing", "renaming"}
  BY DEF LockHeld
<1>1. CASE q = p /\ u = t
  BY <1>1 DEF MovedOne, LockHeld
<1>2. CASE q # p \/ u # t
  BY <1>2 DEF MovedOne, LockHeld
<1>3. QED
  BY <1>1, <1>2

LEMMA TmpStays ==
    ASSUME NEW p \in Processes, NEW t \in Tasks, NEW from, NEW to,
           MovedOne(p, t, from, to), TmpComplete,
           tmp' = tmp,
           build' = build,
           to # "renaming" \/ from = "renaming"
    PROVE  TmpComplete'
<1> SUFFICES ASSUME NEW q \in Processes, NEW u \in Tasks, <<q, u>> \in Callers,
                    pc'[<<q, u>>] = "renaming"
             PROVE  tmp'[q] \in {build'[q], None}
  BY DEF TmpComplete
<1>1. CASE q = p /\ u = t
  BY <1>1 DEF MovedOne, TmpComplete
<1>2. CASE q # p \/ u # t
  BY <1>2 DEF MovedOne, TmpComplete
<1>3. QED
  BY <1>1, <1>2

LEMMA ResolvedStays ==
    ASSUME NEW p \in Processes, NEW t \in Tasks, NEW from, NEW to,
           MovedOne(p, t, from, to), ResolvedFirst,
           lock' = lock,
           owner' = owner,
           extracted' = extracted,
           to \in Resolved => p \in extracted
    PROVE  ResolvedFirst'
<1> DEFINE Past(q, u) == <<q, u>> \in Callers /\ pc[<<q, u>>] \in Resolved => q \in extracted
<1>1. ASSUME NEW q \in Processes, NEW u \in Tasks PROVE Past(q, u)'
  <2>1. CASE q = p /\ u = t
    BY <2>1 DEF MovedOne
  <2>2. CASE q # p \/ u # t
    BY <2>2 DEF MovedOne, ResolvedFirst
  <2>3. QED
    BY <2>1, <2>2
<1>2. QED
  BY <1>1 DEF ResolvedFirst

LEMMA CopyStays ==
    ASSUME NEW p \in Processes, NEW t \in Tasks, NEW from, NEW to,
           MovedOne(p, t, from, to), CopyIsOwn,
           copy' = copy,
           build' = build,
           replaced' = replaced,
           to \notin {"copying", "copied"} \/ from \in {"copying", "copied"}
    PROVE  CopyIsOwn'
<1> SUFFICES ASSUME NEW q \in Processes, NEW u \in Tasks, <<q, u>> \in Callers,
                    q \notin replaced', pc'[<<q, u>>] \in {"copying", "copied"}
             PROVE  copy'[<<q, u>>] = build'[q]
  BY DEF CopyIsOwn
<1>1. CASE q = p /\ u = t
  BY <1>1 DEF MovedOne, CopyIsOwn
<1>2. CASE q # p \/ u # t
  BY <1>2 DEF MovedOne, CopyIsOwn
<1>3. QED
  BY <1>1, <1>2

LEMMA OwnerStays ==
    ASSUME NEW p \in Processes, NEW t \in Tasks, NEW from, NEW to,
           MovedOne(p, t, from, to), OwnerIsDone,
           owner' = owner,
           \/ to \notin {"missed", "copying", "copied"}
           \/ from \in {"missed", "copying", "copied"}
    PROVE  OwnerIsDone'
<1> SUFFICES ASSUME NEW q \in Processes, NEW u \in Tasks, <<q, u>> \in Callers,
                    owner'[q] = u
             PROVE  pc'[<<q, u>>] \notin {"missed", "copying", "copied"}
  BY DEF OwnerIsDone
<1>1. CASE q = p /\ u = t
  BY <1>1 DEF MovedOne, OwnerIsDone
<1>2. CASE q # p \/ u # t
  BY <1>2 DEF MovedOne, OwnerIsDone
<1>3. QED
  BY <1>1, <1>2

LEMMA GivenStays ==
    ASSUME NEW p \in Processes, NEW t \in Tasks, NEW from, NEW to,
           MovedOne(p, t, from, to), SameGiven,
           owner' = owner,
           got' = got,
           to # "served"
    PROVE  SameGiven'
<1> SUFFICES ASSUME NEW q \in Processes, NEW u \in Tasks, <<q, u>> \in Callers,
                    pc'[<<q, u>>] = "served"
             PROVE  owner'[q] # None /\ got'[<<q, u>>] = owner'[q]
  BY DEF SameGiven
<1>1. CASE q = p /\ u = t
  BY <1>1 DEF MovedOne, SameGiven
<1>2. CASE q # p \/ u # t
  BY <1>2 DEF MovedOne, SameGiven
<1>3. QED
  BY <1>1, <1>2

-----------------------------------------------------------------------------
LEMMA InitIInv == Init => IInv
  BY StoreAssumption DEF Init, IInv, Parts, TypeOK, LockHeld, TmpComplete, CompleteCopies,
     ResolvedFirst, Resolved, DiskIsOwn, CopyIsOwn, OwnerIsDone, OwnerIsCaller,
     OwnStoreUnlessReplaced, SameGiven, Contents

LEMMA ResolveHitKeepsParts ==
    ASSUME TypeOK, Parts, NEW p \in Processes, NEW t \in Tasks, <<p, t>> \in Callers,
           ResolveHit(p, t)
    PROVE  Parts'
<1>m. MovedOne(p, t, "idle", "resolved")
  BY Moved DEF ResolveHit
<1>1. LockHeld' /\ TmpComplete' /\ ResolvedFirst' /\ CopyIsOwn' /\ OwnerIsDone' /\ SameGiven'
  BY <1>m, LockStays, TmpStays, ResolvedStays, CopyStays, OwnerStays, GivenStays
  DEF Parts, ResolveHit, Resolved
<1>2. CompleteCopies' /\ DiskIsOwn' /\ OwnerIsCaller' /\ OwnStoreUnlessReplaced'
  BY DEF ResolveHit, Parts, CompleteCopies, DiskIsOwn, OwnerIsCaller, OwnStoreUnlessReplaced
<1>3. QED
  BY <1>1, <1>2 DEF Parts

LEMMA ResolveMissKeepsParts ==
    ASSUME TypeOK, Parts, NEW p \in Processes, NEW t \in Tasks, <<p, t>> \in Callers,
           ResolveMiss(p, t)
    PROVE  Parts'
<1>m. MovedOne(p, t, "idle", "writing")
  BY Moved DEF ResolveMiss
<1>1. CopyIsOwn' /\ OwnerIsDone' /\ SameGiven'
  BY <1>m, CopyStays, OwnerStays, GivenStays DEF Parts, ResolveMiss
<1>2. CompleteCopies' /\ DiskIsOwn' /\ OwnerIsCaller' /\ OwnStoreUnlessReplaced'
  BY DEF ResolveMiss, Parts, CompleteCopies, DiskIsOwn, OwnerIsCaller,
     OwnStoreUnlessReplaced
<1>3. LockHeld'
  <2> SUFFICES ASSUME NEW q \in Processes, NEW u \in Tasks, <<q, u>> \in Callers
               PROVE  lock'[q] = u <=> pc'[<<q, u>>] \in {"writing", "renaming"}
    BY DEF LockHeld
  <2>1. CASE q = p /\ u = t
    BY <1>m, <2>1, StoreAssumption DEF MovedOne, ResolveMiss, TypeOK, Parts, LockHeld
  <2>2. CASE q = p /\ u # t
    BY <1>m, <2>2, StoreAssumption DEF MovedOne, ResolveMiss, TypeOK, Parts, LockHeld
  <2>3. CASE q # p
    BY <1>m, <2>3, StoreAssumption DEF MovedOne, ResolveMiss, TypeOK, Parts, LockHeld
  <2>4. QED
    BY <2>1, <2>2, <2>3
<1>4. TmpComplete'
  <2> SUFFICES ASSUME NEW q \in Processes, NEW u \in Tasks, <<q, u>> \in Callers,
                      pc'[<<q, u>>] = "renaming"
               PROVE  tmp'[q] \in {build'[q], None}
    BY DEF TmpComplete
  <2>1. CASE q = p /\ u = t
    BY <1>m, <2>1, StoreAssumption
    DEF MovedOne, ResolveMiss, TypeOK, Parts, TmpComplete, LockHeld, TmpName
  <2>2. CASE q = p /\ u # t
    BY <1>m, <2>2, StoreAssumption
    DEF MovedOne, ResolveMiss, TypeOK, Parts, TmpComplete, LockHeld, TmpName
  <2>3. CASE q # p
    BY <1>m, <2>3, StoreAssumption
    DEF MovedOne, ResolveMiss, TypeOK, Parts, TmpComplete, LockHeld, TmpName
  <2>4. QED
    BY <2>1, <2>2, <2>3
<1>5. ResolvedFirst'
  <2> SUFFICES ASSUME NEW q \in Processes
               PROVE  /\ lock'[q] # None => q \notin extracted'
                      /\ owner'[q] # None => q \in extracted'
                      /\ \A u \in Tasks : <<q, u>> \in Callers /\ pc'[<<q, u>>] \in Resolved
                                              => q \in extracted'
    BY DEF ResolvedFirst
  <2>1. lock'[q] # None => q \notin extracted'
    BY DEF ResolveMiss, TypeOK, Parts, ResolvedFirst
  <2>2. ASSUME NEW u \in Tasks, <<q, u>> \in Callers, pc'[<<q, u>>] \in Resolved
        PROVE  q \in extracted'
    <3>1. pc[<<q, u>>] \in Resolved
      BY <1>m, <2>2 DEF MovedOne, Resolved
    <3>2. QED
      BY <2>2, <3>1 DEF ResolveMiss, Parts, ResolvedFirst
  <2>3. QED
    BY <2>1, <2>2 DEF ResolveMiss, Parts, ResolvedFirst
<1>6. QED
  BY <1>1, <1>2, <1>3, <1>4, <1>5 DEF Parts

LEMMA WriteTmpKeepsParts ==
    ASSUME TypeOK, Parts, NEW p \in Processes, NEW t \in Tasks, <<p, t>> \in Callers,
           WriteTmp(p, t)
    PROVE  Parts'
<1>m. MovedOne(p, t, "writing", "renaming")
  BY Moved DEF WriteTmp
<1>1. LockHeld' /\ ResolvedFirst' /\ CopyIsOwn' /\ OwnerIsDone' /\ SameGiven'
  BY <1>m, LockStays, ResolvedStays, CopyStays, OwnerStays, GivenStays
  DEF Parts, WriteTmp, Resolved
<1>2. CompleteCopies' /\ DiskIsOwn' /\ OwnerIsCaller' /\ OwnStoreUnlessReplaced'
  BY DEF WriteTmp, Parts, CompleteCopies, DiskIsOwn, OwnerIsCaller, OwnStoreUnlessReplaced
<1>3. TmpComplete'
  BY <1>m, StoreAssumption
  DEF MovedOne, WriteTmp, TypeOK, Parts, TmpComplete, LockHeld, TmpName
<1>4. QED
  BY <1>1, <1>2, <1>3 DEF Parts

LEMMA RenameKeepsParts ==
    ASSUME TypeOK, Parts, NEW p \in Processes, NEW t \in Tasks, <<p, t>> \in Callers,
           Rename(p, t)
    PROVE  Parts'
<1>m. MovedOne(p, t, "renaming", "resolved")
  BY Moved DEF Rename
<1>1. OwnerIsDone' /\ SameGiven'
  BY <1>m, OwnerStays, GivenStays DEF Parts, Rename
<1>2. OwnerIsCaller'
  BY DEF Rename, Parts, OwnerIsCaller
<1>3. LockHeld'
  <2> SUFFICES ASSUME NEW q \in Processes, NEW u \in Tasks, <<q, u>> \in Callers
               PROVE  lock'[q] = u <=> pc'[<<q, u>>] \in {"writing", "renaming"}
    BY DEF LockHeld
  <2>1. CASE q = p /\ u = t
    BY <1>m, <2>1, StoreAssumption DEF MovedOne, Rename, TypeOK, Parts, LockHeld
  <2>2. CASE q = p /\ u # t
    BY <1>m, <2>2, StoreAssumption DEF MovedOne, Rename, TypeOK, Parts, LockHeld
  <2>3. CASE q # p
    BY <1>m, <2>3, StoreAssumption DEF MovedOne, Rename, TypeOK, Parts, LockHeld
  <2>4. QED
    BY <2>1, <2>2, <2>3
<1>4. TmpComplete'
  <2> SUFFICES ASSUME NEW q \in Processes, NEW u \in Tasks, <<q, u>> \in Callers,
                      pc'[<<q, u>>] = "renaming"
               PROVE  tmp'[q] \in {build'[q], None}
    BY DEF TmpComplete
  <2>1. CASE q = p /\ u = t
    BY <1>m, <2>1, StoreAssumption
    DEF MovedOne, Rename, TypeOK, Parts, TmpComplete, LockHeld, TmpName
  <2>2. CASE q = p /\ u # t
    BY <1>m, <2>2, StoreAssumption
    DEF MovedOne, Rename, TypeOK, Parts, TmpComplete, LockHeld, TmpName
  <2>3. CASE q # p
    BY <1>m, <2>3, StoreAssumption
    DEF MovedOne, Rename, TypeOK, Parts, TmpComplete, LockHeld, TmpName
  <2>4. QED
    BY <2>1, <2>2, <2>3
<1>5. CompleteCopies'
  BY <1>m, StoreAssumption
  DEF MovedOne, Rename, TypeOK, Parts, CompleteCopies, TmpComplete, TmpName
<1>6. ResolvedFirst'
  BY <1>m, StoreAssumption
  DEF MovedOne, Rename, TypeOK, Parts, ResolvedFirst, Resolved, LockHeld
<1>7. DiskIsOwn'
  BY <1>m, StoreAssumption
  DEF MovedOne, Rename, TypeOK, Parts, DiskIsOwn, TmpComplete, ResolvedFirst, TmpName
<1>8. CopyIsOwn'
  <2> SUFFICES ASSUME NEW q \in Processes, NEW u \in Tasks, <<q, u>> \in Callers,
                    q \notin replaced', pc'[<<q, u>>] \in {"copying", "copied"}
               PROVE  copy'[<<q, u>>] = build'[q]
    BY DEF CopyIsOwn
  <2>1. CASE q = p /\ u = t
    BY <1>m, <2>1, StoreAssumption
    DEF MovedOne, Rename, TypeOK, Parts, CopyIsOwn, ResolvedFirst, Resolved, LockHeld
  <2>2. CASE q = p /\ u # t
    BY <1>m, <2>2, StoreAssumption
    DEF MovedOne, Rename, TypeOK, Parts, CopyIsOwn, ResolvedFirst, Resolved, LockHeld
  <2>3. CASE q # p
    BY <1>m, <2>3, StoreAssumption
    DEF MovedOne, Rename, TypeOK, Parts, CopyIsOwn, ResolvedFirst, Resolved, LockHeld
  <2>4. QED
    BY <2>1, <2>2, <2>3
<1>9. OwnStoreUnlessReplaced'
  BY <1>m, StoreAssumption
  DEF MovedOne, Rename, TypeOK, Parts, OwnStoreUnlessReplaced, CopyIsOwn, ResolvedFirst,
      OwnerIsDone, OwnerIsCaller, LockHeld
<1>10. QED
  BY <1>1, <1>2, <1>3, <1>4, <1>5, <1>6, <1>7, <1>8, <1>9 DEF Parts

LEMMA RenameRetryKeepsParts ==
    ASSUME TypeOK, Parts, NEW p \in Processes, NEW t \in Tasks, <<p, t>> \in Callers,
           RenameRetry(p, t)
    PROVE  Parts'
<1>m. MovedOne(p, t, "renaming", "renaming")
  BY Moved DEF RenameRetry
<1>1. LockHeld' /\ TmpComplete' /\ ResolvedFirst' /\ CopyIsOwn' /\ OwnerIsDone' /\ SameGiven'
  BY <1>m, LockStays, TmpStays, ResolvedStays, CopyStays, OwnerStays, GivenStays
  DEF Parts, RenameRetry, Resolved
<1>2. CompleteCopies' /\ DiskIsOwn' /\ OwnerIsCaller' /\ OwnStoreUnlessReplaced'
  BY DEF RenameRetry, Parts, CompleteCopies, DiskIsOwn, OwnerIsCaller,
     OwnStoreUnlessReplaced
<1>3. QED
  BY <1>1, <1>2 DEF Parts

LEMMA RenameGivesUpKeepsParts ==
    ASSUME TypeOK, Parts, NEW p \in Processes, NEW t \in Tasks, <<p, t>> \in Callers,
           RenameGivesUp(p, t)
    PROVE  Parts'
<1>m. MovedOne(p, t, "renaming", "idle")
  BY Moved DEF RenameGivesUp
<1>1. TmpComplete' /\ CopyIsOwn' /\ OwnerIsDone' /\ SameGiven'
  BY <1>m, TmpStays, CopyStays, OwnerStays, GivenStays DEF Parts, RenameGivesUp
<1>2. CompleteCopies' /\ DiskIsOwn' /\ OwnerIsCaller' /\ OwnStoreUnlessReplaced'
  BY DEF RenameGivesUp, Parts, CompleteCopies, DiskIsOwn, OwnerIsCaller,
     OwnStoreUnlessReplaced
<1>3. LockHeld'
  <2> SUFFICES ASSUME NEW q \in Processes, NEW u \in Tasks, <<q, u>> \in Callers
               PROVE  lock'[q] = u <=> pc'[<<q, u>>] \in {"writing", "renaming"}
    BY DEF LockHeld
  <2>1. CASE q = p /\ u = t
    BY <1>m, <2>1, StoreAssumption DEF MovedOne, RenameGivesUp, TypeOK, Parts, LockHeld
  <2>2. CASE q = p /\ u # t
    BY <1>m, <2>2, StoreAssumption DEF MovedOne, RenameGivesUp, TypeOK, Parts, LockHeld
  <2>3. CASE q # p
    BY <1>m, <2>3, StoreAssumption DEF MovedOne, RenameGivesUp, TypeOK, Parts, LockHeld
  <2>4. QED
    BY <2>1, <2>2, <2>3
<1>4. ResolvedFirst'
  <2>1. ASSUME NEW q \in Processes PROVE lock'[q] # None => q \notin extracted'
    BY <1>m, StoreAssumption DEF RenameGivesUp, TypeOK, Parts, ResolvedFirst
  <2>2. ASSUME NEW q \in Processes PROVE owner'[q] # None => q \in extracted'
    BY <1>m DEF RenameGivesUp, Parts, ResolvedFirst
  <2>3. ASSUME NEW q \in Processes, NEW u \in Tasks, <<q, u>> \in Callers,
               pc'[<<q, u>>] \in Resolved
        PROVE  q \in extracted'
    <3>1. q # p \/ u # t
      BY <1>m, <2>3 DEF MovedOne, Resolved
    <3>2. pc[<<q, u>>] \in Resolved
      BY <1>m, <2>3, <3>1 DEF MovedOne
    <3>3. QED
      BY <2>3, <3>2 DEF RenameGivesUp, Parts, ResolvedFirst
  <2>4. QED
    BY <2>1, <2>2, <2>3 DEF ResolvedFirst
<1>5. QED
  BY <1>1, <1>2, <1>3, <1>4 DEF Parts

LEMMA LookupHitKeepsParts ==
    ASSUME TypeOK, Parts, NEW p \in Processes, NEW t \in Tasks, <<p, t>> \in Callers,
           LookupHit(p, t)
    PROVE  Parts'
<1>m. MovedOne(p, t, "resolved", "served")
  BY Moved DEF LookupHit
<1>1. LockHeld' /\ TmpComplete' /\ ResolvedFirst' /\ CopyIsOwn' /\ OwnerIsDone'
  BY <1>m, LockStays, TmpStays, ResolvedStays, CopyStays, OwnerStays
  DEF Parts, LookupHit, Resolved, ResolvedFirst, MovedOne
<1>2. CompleteCopies' /\ DiskIsOwn' /\ OwnerIsCaller' /\ OwnStoreUnlessReplaced'
  BY DEF LookupHit, Parts, CompleteCopies, DiskIsOwn, OwnerIsCaller, OwnStoreUnlessReplaced
<1>3. SameGiven'
  BY <1>m, StoreAssumption DEF MovedOne, LookupHit, TypeOK, Parts, SameGiven
<1>4. QED
  BY <1>1, <1>2, <1>3 DEF Parts

LEMMA LookupMissKeepsParts ==
    ASSUME TypeOK, Parts, NEW p \in Processes, NEW t \in Tasks, <<p, t>> \in Callers,
           LookupMiss(p, t)
    PROVE  Parts'
<1>m. MovedOne(p, t, "resolved", "missed")
  BY Moved DEF LookupMiss
<1>1. LockHeld' /\ TmpComplete' /\ ResolvedFirst' /\ CopyIsOwn' /\ SameGiven'
  BY <1>m, LockStays, TmpStays, ResolvedStays, CopyStays, GivenStays
  DEF Parts, LookupMiss, Resolved, ResolvedFirst, MovedOne
<1>2. CompleteCopies' /\ DiskIsOwn' /\ OwnerIsCaller' /\ OwnStoreUnlessReplaced'
  BY DEF LookupMiss, Parts, CompleteCopies, DiskIsOwn, OwnerIsCaller, OwnStoreUnlessReplaced
<1>3. OwnerIsDone'
  BY <1>m, StoreAssumption
  DEF MovedOne, LookupMiss, TypeOK, Parts, OwnerIsDone, OwnerIsCaller
<1>4. QED
  BY <1>1, <1>2, <1>3 DEF Parts

LEMMA OpenKeepsParts ==
    ASSUME TypeOK, Parts, NEW p \in Processes, NEW t \in Tasks, <<p, t>> \in Callers,
           Open(p, t)
    PROVE  Parts'
<1>m. MovedOne(p, t, "missed", "copying")
  BY Moved DEF Open
<1>1. LockHeld' /\ TmpComplete' /\ ResolvedFirst' /\ OwnerIsDone' /\ SameGiven'
  BY <1>m, LockStays, TmpStays, ResolvedStays, OwnerStays, GivenStays
  DEF Parts, Open, Resolved, ResolvedFirst, MovedOne
<1>2. DiskIsOwn' /\ OwnerIsCaller'
  BY DEF Open, Parts, DiskIsOwn, OwnerIsCaller
<1>3. CompleteCopies'
  BY <1>m, StoreAssumption
  DEF MovedOne, Open, TypeOK, Parts, CompleteCopies, TmpComplete, TmpName
<1>4. CopyIsOwn'
  BY <1>m, StoreAssumption
  DEF MovedOne, Open, TypeOK, Parts, CopyIsOwn, DiskIsOwn, ResolvedFirst, Resolved,
      OwnerIsCaller
<1>5. OwnStoreUnlessReplaced'
  BY <1>m, StoreAssumption
  DEF MovedOne, Open, TypeOK, Parts, OwnStoreUnlessReplaced, CopyIsOwn, ResolvedFirst,
      OwnerIsDone, OwnerIsCaller, LockHeld
<1>6. QED
  BY <1>1, <1>2, <1>3, <1>4, <1>5 DEF Parts

LEMMA OpenFailsKeepsParts ==
    ASSUME TypeOK, Parts, NEW p \in Processes, NEW t \in Tasks, <<p, t>> \in Callers,
           OpenFails(p, t)
    PROVE  Parts'
<1>m. MovedOne(p, t, "missed", "idle")
  BY Moved DEF OpenFails
<1>1. LockHeld' /\ TmpComplete' /\ ResolvedFirst' /\ CopyIsOwn' /\ OwnerIsDone' /\ SameGiven'
  BY <1>m, LockStays, TmpStays, ResolvedStays, CopyStays, OwnerStays, GivenStays
  DEF Parts, OpenFails, Resolved
<1>2. CompleteCopies' /\ DiskIsOwn' /\ OwnerIsCaller' /\ OwnStoreUnlessReplaced'
  BY DEF OpenFails, Parts, CompleteCopies, DiskIsOwn, OwnerIsCaller, OwnStoreUnlessReplaced
<1>3. QED
  BY <1>1, <1>2 DEF Parts

LEMMA BackupKeepsParts ==
    ASSUME TypeOK, Parts, NEW p \in Processes, NEW t \in Tasks, <<p, t>> \in Callers,
           Backup(p, t)
    PROVE  Parts'
<1>m. MovedOne(p, t, "copying", "copied")
  BY Moved DEF Backup
<1>1. LockHeld' /\ TmpComplete' /\ ResolvedFirst' /\ CopyIsOwn' /\ OwnerIsDone' /\ SameGiven'
  BY <1>m, LockStays, TmpStays, ResolvedStays, CopyStays, OwnerStays, GivenStays
  DEF Parts, Backup, Resolved, ResolvedFirst, MovedOne
<1>2. CompleteCopies' /\ DiskIsOwn' /\ OwnerIsCaller' /\ OwnStoreUnlessReplaced'
  BY DEF Backup, Parts, CompleteCopies, DiskIsOwn, OwnerIsCaller, OwnStoreUnlessReplaced
<1>3. QED
  BY <1>1, <1>2 DEF Parts

LEMMA InsertKeepsParts ==
    ASSUME TypeOK, Parts, NEW p \in Processes, NEW t \in Tasks, <<p, t>> \in Callers,
           Insert(p, t)
    PROVE  Parts'
<1>m. MovedOne(p, t, "copied", "served")
  BY Moved DEF Insert
<1>1. LockHeld' /\ TmpComplete'
  BY <1>m, LockStays, TmpStays DEF Parts, Insert
<1>2. DiskIsOwn'
  BY DEF Insert, Parts, DiskIsOwn
<1>3. CompleteCopies'
  BY <1>m, StoreAssumption
  DEF MovedOne, Insert, TypeOK, Parts, CompleteCopies, TmpComplete, TmpName
<1>4. ResolvedFirst'
  BY <1>m, StoreAssumption
  DEF MovedOne, Insert, TypeOK, Parts, ResolvedFirst, Resolved, LockHeld
<1>5. CopyIsOwn'
  <2> SUFFICES ASSUME NEW q \in Processes, NEW u \in Tasks, <<q, u>> \in Callers,
                    q \notin replaced', pc'[<<q, u>>] \in {"copying", "copied"}
               PROVE  copy'[<<q, u>>] = build'[q]
    BY DEF CopyIsOwn
  <2>1. CASE q = p /\ u = t
    BY <1>m, <2>1, StoreAssumption DEF MovedOne, Insert, TypeOK, Parts, CopyIsOwn
  <2>2. CASE q = p /\ u # t
    BY <1>m, <2>2, StoreAssumption DEF MovedOne, Insert, TypeOK, Parts, CopyIsOwn
  <2>3. CASE q # p
    BY <1>m, <2>3, StoreAssumption DEF MovedOne, Insert, TypeOK, Parts, CopyIsOwn
  <2>4. QED
    BY <2>1, <2>2, <2>3
<1>6. OwnerIsDone'
  <2> SUFFICES ASSUME NEW q \in Processes, NEW u \in Tasks, <<q, u>> \in Callers,
                      owner'[q] = u
               PROVE  pc'[<<q, u>>] \notin {"missed", "copying", "copied"}
    BY DEF OwnerIsDone
  <2>1. CASE q = p /\ u = t
    BY <1>m, <2>1, StoreAssumption DEF MovedOne, Insert, TypeOK, Parts, OwnerIsDone
  <2>2. CASE q = p /\ u # t
    BY <1>m, <2>2, StoreAssumption DEF MovedOne, Insert, TypeOK, Parts, OwnerIsDone
  <2>3. CASE q # p
    BY <1>m, <2>3, StoreAssumption DEF MovedOne, Insert, TypeOK, Parts, OwnerIsDone
  <2>4. QED
    BY <2>1, <2>2, <2>3
<1>7. OwnerIsCaller'
  BY <1>m, StoreAssumption DEF MovedOne, Insert, TypeOK, Parts, OwnerIsCaller
<1>8. OwnStoreUnlessReplaced'
  <2> SUFFICES ASSUME NEW q \in Processes, owner'[q] # None, q \notin replaced'
               PROVE  copy'[<<q, owner'[q]>>] = build'[q]
    BY DEF OwnStoreUnlessReplaced
  <2>1. CASE q = p /\ owner[p] = None
    <3>1. owner'[q] = t /\ copy'[<<p, t>>] = copy[<<p, t>>]
      BY <2>1, StoreAssumption DEF Insert, TypeOK
    <3>2. copy[<<p, t>>] = build[p]
      BY <1>m, <2>1 DEF MovedOne, Parts, CopyIsOwn, Insert
    <3>3. QED
      BY <2>1, <3>1, <3>2 DEF Insert
  <2>2. CASE q # p \/ owner[p] # None
    <3>1. owner'[q] = owner[q]
      BY <2>2 DEF Insert, TypeOK
    <3>2. <<q, owner[q]>> # <<p, t>>
      BY <1>m, <2>2, StoreAssumption DEF MovedOne, Parts, OwnerIsDone
    <3>3. copy'[<<q, owner[q]>>] = copy[<<q, owner[q]>>]
      BY <3>1, <3>2 DEF Insert, TypeOK, Parts, OwnerIsCaller
    <3>4. QED
      BY <3>1, <3>3 DEF Insert, Parts, OwnStoreUnlessReplaced
  <2>3. QED
    BY <2>1, <2>2
<1>9. SameGiven'
  BY <1>m, StoreAssumption DEF MovedOne, Insert, TypeOK, Parts, SameGiven
<1>10. QED
  BY <1>1, <1>2, <1>3, <1>4, <1>5, <1>6, <1>7, <1>8, <1>9 DEF Parts

LEMMA ReturnKeepsParts ==
    ASSUME TypeOK, Parts, NEW p \in Processes, NEW t \in Tasks, <<p, t>> \in Callers,
           Return(p, t)
    PROVE  Parts'
<1>m. MovedOne(p, t, "served", "idle")
  BY Moved DEF Return
<1>1. LockHeld' /\ TmpComplete' /\ ResolvedFirst' /\ CopyIsOwn' /\ OwnerIsDone'
  BY <1>m, LockStays, TmpStays, ResolvedStays, CopyStays, OwnerStays
  DEF Parts, Return, Resolved
<1>2. CompleteCopies' /\ DiskIsOwn' /\ OwnerIsCaller' /\ OwnStoreUnlessReplaced'
  BY DEF Return, Parts, CompleteCopies, DiskIsOwn, OwnerIsCaller, OwnStoreUnlessReplaced
<1>3. SameGiven'
  BY <1>m, StoreAssumption DEF MovedOne, Return, TypeOK, Parts, SameGiven
<1>4. QED
  BY <1>1, <1>2, <1>3 DEF Parts

LEMMA ProbeKeepsParts ==
    ASSUME TypeOK, Parts, NEW p \in Processes, NEW t \in Tasks, <<p, t>> \in Callers,
           Probe(p, t)
    PROVE  Parts'
<1>m. MovedOne(p, t, "idle", "probing")
  BY Moved DEF Probe
<1>1. LockHeld' /\ TmpComplete' /\ ResolvedFirst' /\ CopyIsOwn' /\ OwnerIsDone' /\ SameGiven'
  BY <1>m, LockStays, TmpStays, ResolvedStays, CopyStays, OwnerStays, GivenStays
  DEF Parts, Probe, Resolved
<1>2. CompleteCopies' /\ DiskIsOwn' /\ OwnerIsCaller' /\ OwnStoreUnlessReplaced'
  BY DEF Probe, Parts, CompleteCopies, DiskIsOwn, OwnerIsCaller, OwnStoreUnlessReplaced
<1>3. QED
  BY <1>1, <1>2 DEF Parts

LEMMA ProbeEndsKeepsParts ==
    ASSUME TypeOK, Parts, NEW p \in Processes, NEW t \in Tasks, <<p, t>> \in Callers,
           ProbeEnds(p, t)
    PROVE  Parts'
<1>m. MovedOne(p, t, "probing", "idle")
  BY Moved DEF ProbeEnds
<1>1. LockHeld' /\ TmpComplete' /\ ResolvedFirst' /\ CopyIsOwn' /\ OwnerIsDone' /\ SameGiven'
  BY <1>m, LockStays, TmpStays, ResolvedStays, CopyStays, OwnerStays, GivenStays
  DEF Parts, ProbeEnds, Resolved
<1>2. CompleteCopies' /\ DiskIsOwn' /\ OwnerIsCaller' /\ OwnStoreUnlessReplaced'
  BY DEF ProbeEnds, Parts, CompleteCopies, DiskIsOwn, OwnerIsCaller, OwnStoreUnlessReplaced
<1>3. QED
  BY <1>1, <1>2 DEF Parts

LEMMA FailsKeepsParts ==
    ASSUME TypeOK, Parts, NEW p \in Processes, NEW t \in Tasks, <<p, t>> \in Callers,
           Fails(p, t)
    PROVE  Parts'
<1>1. CASE Moves(<<p, t>>, "writing", "idle") /\ lock' = [lock EXCEPT ![p] = None] /\ copy' = copy
  <2>m. MovedOne(p, t, "writing", "idle")
    BY <1>1, Moved
  <2>1. LockHeld'
    <3> SUFFICES ASSUME NEW q \in Processes, NEW u \in Tasks, <<q, u>> \in Callers
                 PROVE  lock'[q] = u <=> pc'[<<q, u>>] \in {"writing", "renaming"}
      BY DEF LockHeld
    <3>1. CASE q = p /\ u = t
      BY <1>1, <2>m, <3>1, StoreAssumption DEF MovedOne, TypeOK
    <3>2. CASE q = p /\ u # t
      BY <1>1, <2>m, <3>2, StoreAssumption DEF MovedOne, TypeOK, Parts, LockHeld
    <3>3. CASE q # p
      BY <1>1, <2>m, <3>3 DEF MovedOne, TypeOK, Parts, LockHeld
    <3>4. QED
      BY <3>1, <3>2, <3>3
  <2>2. TmpComplete'
    BY <2>m, TmpStays DEF Parts, Fails
  <2>3. ResolvedFirst'
    <3>1. ASSUME NEW q \in Processes PROVE lock'[q] # None => q \notin extracted'
      BY <1>1 DEF Fails, TypeOK, Parts, ResolvedFirst
    <3>2. ASSUME NEW q \in Processes PROVE owner'[q] # None => q \in extracted'
      BY DEF Fails, Parts, ResolvedFirst
    <3>3. ASSUME NEW q \in Processes, NEW u \in Tasks, <<q, u>> \in Callers,
                 pc'[<<q, u>>] \in Resolved
          PROVE  q \in extracted'
      <4>1. q # p \/ u # t
        BY <2>m, <3>3 DEF MovedOne, Resolved
      <4>2. pc[<<q, u>>] \in Resolved
        BY <2>m, <3>3, <4>1 DEF MovedOne
      <4>3. QED
        BY <3>3, <4>2 DEF Fails, Parts, ResolvedFirst
    <3>4. QED
      BY <3>1, <3>2, <3>3 DEF ResolvedFirst
  <2>4. CopyIsOwn'
    BY <1>1, <2>m, CopyStays DEF Parts, Fails
  <2>5. OwnerIsDone' /\ SameGiven'
    BY <2>m, OwnerStays, GivenStays DEF Parts, Fails
  <2>6. CompleteCopies' /\ DiskIsOwn' /\ OwnerIsCaller' /\ OwnStoreUnlessReplaced'
    BY <1>1
    DEF Fails, Parts, CompleteCopies, DiskIsOwn, OwnerIsCaller, OwnStoreUnlessReplaced
  <2>7. QED
    BY <2>1, <2>2, <2>3, <2>4, <2>5, <2>6 DEF Parts
<1>2. CASE Moves(<<p, t>>, "copying", "idle") /\ lock' = lock /\ copy' = [copy EXCEPT ![<<p, t>>] = None]
  <2>m. MovedOne(p, t, "copying", "idle")
    BY <1>2, Moved
  <2>1. LockHeld' /\ TmpComplete' /\ ResolvedFirst'
    BY <1>2, <2>m, LockStays, TmpStays, ResolvedStays DEF Parts, Fails, Resolved
  <2>2. OwnerIsDone' /\ SameGiven'
    BY <2>m, OwnerStays, GivenStays DEF Parts, Fails
  <2>3. CopyIsOwn'
    <3> SUFFICES ASSUME NEW q \in Processes, NEW u \in Tasks, <<q, u>> \in Callers,
                        q \notin replaced', pc'[<<q, u>>] \in {"copying", "copied"}
                 PROVE  copy'[<<q, u>>] = build'[q]
      BY DEF CopyIsOwn
    <3>1. q # p \/ u # t
      BY <2>m DEF MovedOne
    <3>2. QED
      BY <1>2, <2>m, <3>1 DEF MovedOne, TypeOK, Fails, Parts, CopyIsOwn
  <2>4. OwnStoreUnlessReplaced'
    <3> SUFFICES ASSUME NEW q \in Processes, owner[q] # None, q \notin replaced
                 PROVE  copy'[<<q, owner[q]>>] = build[q]
      BY DEF OwnStoreUnlessReplaced, Fails
    <3>1. <<q, owner[q]>> # <<p, t>>
      BY <2>m DEF MovedOne, Parts, OwnerIsDone
    <3>2. QED
      BY <1>2, <3>1 DEF TypeOK, Parts, OwnStoreUnlessReplaced, OwnerIsCaller
  <2>5. CompleteCopies' /\ DiskIsOwn' /\ OwnerIsCaller'
    BY <1>2, StoreAssumption
    DEF Fails, TypeOK, Parts, CompleteCopies, DiskIsOwn, OwnerIsCaller
  <2>6. QED
    BY <2>1, <2>2, <2>3, <2>4, <2>5 DEF Parts
<1>3. QED
  BY <1>1, <1>2 DEF Fails

LEMMA RestartKeepsParts ==
    ASSUME TypeOK, Parts, NEW p \in Processes, NEW b \in Builds, Restart(p, b)
    PROVE  Parts'
<1> DEFINE Fresh(q) == /\ lock'[q] = None /\ owner'[q] = None
                       /\ \A u \in Tasks : <<q, u>> \in Callers =>
                             pc'[<<q, u>>] = "idle" /\ copy'[<<q, u>>] = None
           Same(q) == /\ lock'[q] = lock[q] /\ owner'[q] = owner[q] /\ build'[q] = build[q]
                      /\ tmp'[q] = tmp[q]
                      /\ q \in extracted' <=> q \in extracted
                      /\ q \in replaced' <=> q \in replaced
                      /\ \A u \in Tasks : <<q, u>> \in Callers =>
                            /\ pc'[<<q, u>>] = pc[<<q, u>>]
                            /\ copy'[<<q, u>>] = copy[<<q, u>>]
                            /\ got'[<<q, u>>] = got[<<q, u>>]
<1>1. Fresh(p) /\ p \notin extracted'
  BY DEF Restart, TypeOK
<1>2. \A q \in Processes \ {p} : Same(q)
  BY DEF Restart, TypeOK
<1>3. disk' = disk
  BY DEF Restart
<1> HIDE DEF Fresh, Same
<1>4. LockHeld' /\ TmpComplete' /\ OwnerIsDone' /\ SameGiven'
  <2> SUFFICES ASSUME NEW q \in Processes, NEW u \in Tasks, <<q, u>> \in Callers
               PROVE  /\ lock'[q] = u <=> pc'[<<q, u>>] \in {"writing", "renaming"}
                      /\ pc'[<<q, u>>] = "renaming" => tmp'[q] \in {build'[q], None}
                      /\ owner'[q] = u => pc'[<<q, u>>] \notin {"missed", "copying", "copied"}
                      /\ pc'[<<q, u>>] = "served"
                            => owner'[q] # None /\ got'[<<q, u>>] = owner'[q]
    BY DEF LockHeld, TmpComplete, OwnerIsDone, SameGiven
  <2>1. CASE q = p
    BY <1>1, <2>1, StoreAssumption DEF Fresh
  <2>2. CASE q # p
    BY <1>2, <2>2 DEF Same, Parts, LockHeld, TmpComplete, OwnerIsDone, SameGiven
  <2>3. QED
    BY <2>1, <2>2
<1>5. CopyIsOwn'
  <2> SUFFICES ASSUME NEW q \in Processes \ replaced', NEW u \in Tasks, <<q, u>> \in Callers,
                      pc'[<<q, u>>] \in {"copying", "copied"}
               PROVE  copy'[<<q, u>>] = build'[q]
    BY DEF CopyIsOwn
  <2>1. q # p
    BY <1>1 DEF Fresh
  <2>2. QED
    BY <1>2, <2>1 DEF Same, Parts, CopyIsOwn
<1>6. ResolvedFirst'
  <2> SUFFICES ASSUME NEW q \in Processes
               PROVE  /\ lock'[q] # None => q \notin extracted'
                      /\ owner'[q] # None => q \in extracted'
                      /\ \A u \in Tasks : <<q, u>> \in Callers /\ pc'[<<q, u>>] \in Resolved
                                              => q \in extracted'
    BY DEF ResolvedFirst
  <2>1. CASE q = p
    BY <1>1, <2>1 DEF Fresh, Resolved
  <2>2. CASE q # p
    BY <1>2, <2>2 DEF Same, Parts, ResolvedFirst
  <2>3. QED
    BY <2>1, <2>2
<1>7. CompleteCopies' /\ DiskIsOwn'
  <2>1. \A q \in Processes : q \in extracted' \ replaced' =>
            q \in extracted \ replaced /\ build'[q] = build[q]
    BY <1>1, <1>2 DEF Same
  <2>2. \A c \in Callers : copy'[c] \in {copy[c], None}
    BY DEF Restart
  <2>3. QED
    BY <1>3, <2>1, <2>2, StoreAssumption DEF Parts, CompleteCopies, DiskIsOwn
<1>8. OwnerIsCaller' /\ OwnStoreUnlessReplaced'
  <2> SUFFICES ASSUME NEW q \in Processes, owner'[q] # None
               PROVE  /\ <<q, owner'[q]>> \in Callers
                      /\ copy'[<<q, owner'[q]>>] # build'[q] => q \in replaced'
    BY DEF OwnerIsCaller, OwnStoreUnlessReplaced
  <2>1. q # p
    BY <1>1 DEF Fresh
  <2>2. owner'[q] = owner[q] /\ owner[q] \in Tasks /\ <<q, owner[q]>> \in Callers
    BY <1>2, <2>1 DEF Same, TypeOK, Parts, OwnerIsCaller
  <2>3. QED
    BY <1>2, <2>1, <2>2 DEF Same, Parts, OwnStoreUnlessReplaced
<1>9. QED
  BY <1>4, <1>5, <1>6, <1>7, <1>8 DEF Parts

LEMMA CleanKeepsParts == TypeOK /\ Parts /\ Clean => Parts'
<1> SUFFICES ASSUME TypeOK, Parts, Clean PROVE Parts'
  OBVIOUS
<1>1. \A p \in Processes : tmp'[p] \in {tmp[p], None}
  BY DEF Clean
<1>2. TmpComplete'
  BY <1>1 DEF Clean, Parts, TmpComplete
<1>3. QED
  BY <1>2, StoreAssumption DEF Clean, Parts, LockHeld, CompleteCopies, ResolvedFirst,
     Resolved, DiskIsOwn, CopyIsOwn, OwnerIsDone, OwnerIsCaller, OwnStoreUnlessReplaced,
     SameGiven

-----------------------------------------------------------------------------
\* The types, which every step keeps.
LEMMA CallTypeOK ==
    ASSUME TypeOK, Parts, NEW p \in Processes, NEW t \in Tasks, <<p, t>> \in Callers, Call(p, t)
    PROVE  TypeOK'
<1> USE StoreAssumption DEF TypeOK, Moves
<1>1. CASE ResolveHit(p, t)
  BY <1>1 DEF ResolveHit
<1>2. CASE ResolveMiss(p, t)
  BY <1>2 DEF ResolveMiss, TmpName, Contents
<1>3. CASE WriteTmp(p, t)
  BY <1>3 DEF WriteTmp, TmpName, Contents
<1>4. CASE Rename(p, t)
  BY <1>4 DEF Rename, TmpName, Contents
<1>5. CASE RenameRetry(p, t)
  BY <1>5 DEF RenameRetry
<1>6. CASE RenameGivesUp(p, t)
  BY <1>6 DEF RenameGivesUp
<1>7. CASE LookupHit(p, t)
  BY <1>7 DEF LookupHit
<1>8. CASE LookupMiss(p, t)
  BY <1>8 DEF LookupMiss
<1>9. CASE Open(p, t)
  BY <1>9 DEF Open, Contents
<1>10. CASE OpenFails(p, t)
  BY <1>10 DEF OpenFails
<1>11. CASE Backup(p, t)
  BY <1>11 DEF Backup
<1>12. CASE Insert(p, t)
  BY <1>12 DEF Insert, Contents
<1>13. CASE Return(p, t)
  BY <1>13 DEF Return
<1>14. CASE Probe(p, t)
  BY <1>14 DEF Probe
<1>15. CASE ProbeEnds(p, t)
  BY <1>15 DEF ProbeEnds
<1>16. CASE Fails(p, t)
  <2>1. mishaps' \in 0..MaxMishaps
    BY <1>16 DEF Fails, Mishap
  <2>2. /\ pc' \in [Callers -> {"idle", "writing", "renaming", "resolved", "missed",
                                "copying", "copied", "served", "probing"}]
        /\ lock' \in [Processes -> Tasks \cup {None}]
        /\ copy' \in [Callers -> Contents]
    BY <1>16 DEF Fails, Contents
  <2>3. QED
    BY <1>16, <2>1, <2>2 DEF Fails
<1>17. QED
  BY <1>1, <1>2, <1>3, <1>4, <1>5, <1>6, <1>7, <1>8, <1>9, <1>10, <1>11, <1>12, <1>13,
     <1>14,
     <1>15, <1>16 DEF Call, Extraction, Loading

LEMMA RestartTypeOK ==
    ASSUME TypeOK, NEW p \in Processes, NEW b \in Builds, Restart(p, b)
    PROVE  TypeOK'
<1>1. mishaps' \in 0..MaxMishaps
  BY StoreAssumption DEF Restart, Mishap, TypeOK
<1>2. QED
  BY <1>1, StoreAssumption DEF Restart, TypeOK, Contents

LEMMA NextIInv == IInv /\ [Next]_vars => IInv'
<1> SUFFICES ASSUME TypeOK, Parts, [Next]_vars PROVE TypeOK' /\ Parts'
  BY DEF IInv
<1>1. ASSUME NEW p \in Processes, NEW t \in Tasks, <<p, t>> \in Callers, Call(p, t)
      PROVE  TypeOK' /\ Parts'
  <2>1. TypeOK'
    BY <1>1, CallTypeOK
  <2>2. Parts'
    BY <1>1, ResolveHitKeepsParts, ResolveMissKeepsParts, WriteTmpKeepsParts,
       RenameKeepsParts,
       RenameRetryKeepsParts, RenameGivesUpKeepsParts, LookupHitKeepsParts,
       LookupMissKeepsParts, OpenKeepsParts, OpenFailsKeepsParts, BackupKeepsParts,
       InsertKeepsParts, ReturnKeepsParts, ProbeKeepsParts, ProbeEndsKeepsParts,
       FailsKeepsParts
    DEF Call, Extraction, Loading
  <2>3. QED
    BY <2>1, <2>2
<1>2. ASSUME NEW p \in Processes, NEW b \in Builds, Restart(p, b) PROVE TypeOK' /\ Parts'
  BY <1>2, RestartTypeOK, RestartKeepsParts
<1>3. CASE Clean
  <2>1. TypeOK'
    <3>1. tmp' \in [Processes -> Contents]
      BY <1>3 DEF Clean, TypeOK, Contents
    <3>2. QED
      BY <1>3, <3>1, StoreAssumption DEF Clean, Mishap, TypeOK, Contents
  <2>2. QED
    BY <1>3, <2>1, CleanKeepsParts
<1>4. CASE UNCHANGED vars
  <2>1. TypeOK'
    BY <1>4 DEF vars, TypeOK
  <2>2. Parts'
    BY <1>4
    DEF vars, Parts, LockHeld, TmpComplete, CompleteCopies, ResolvedFirst, DiskIsOwn,
       CopyIsOwn, OwnerIsDone, OwnerIsCaller, OwnStoreUnlessReplaced, SameGiven
  <2>3. QED
    BY <2>1, <2>2
<1>5. QED
  BY <1>1, <1>2, <1>3, <1>4 DEF Next

LEMMA SpecIInv == Spec => []IInv
  BY InitIInv, NextIInv, PTL DEF Spec

-----------------------------------------------------------------------------
\* Every variable keeps its type: no rename is tried more often than the bound says,
\* and only a task of the process holds its lock (resolve_store_path).
THEOREM TypeCorrect == Spec => []TypeOK
<1>1. IInv => TypeOK
  BY DEF IInv
<1>2. QED
  BY SpecIInv, <1>1, PTL

\* No caller finds, opens or copies a partly written store, whatever the processes
\* write at the same time and wherever one is stopped (fs::write, fs::rename).
THEOREM CopiesAreComplete == Spec => []CompleteCopies
<1>1. IInv => CompleteCopies
  BY DEF IInv, Parts
<1>2. QED
  BY SpecIInv, <1>1, PTL

\* No task of a process has the store open while another one renames over it: the
\* lock of EXTRACTED is held until the path is known.
THEOREM ProcessNeverRacesItself == Spec => []NeverRacesItself
<1>1. IInv => NeverRacesItself
  <2> SUFFICES ASSUME IInv, NEW c \in Callers, lock[c[1]] # None PROVE ~HasOpen(c)
    BY DEF NeverRacesItself
  <2>1. PICK p \in Processes, t \in Tasks : c = <<p, t>>
    BY StoreAssumption
  <2>2. QED
    BY <2>1 DEF IInv, Parts, ResolvedFirst, Resolved, HasOpen
<1>2. QED
  BY SpecIInv, <1>1, PTL

\* All callers of a process get the one connection that is kept, though several may
\* have copied the store at the same time (cached_in_memory_connection).
THEOREM ConnectionIsShared == Spec => []OneConnection
<1>1. IInv => OneConnection
  <2> SUFFICES ASSUME IInv, NEW c \in Callers, pc[c] = "served"
               PROVE  owner[c[1]] # None /\ got[c] = owner[c[1]]
    BY DEF OneConnection
  <2>1. PICK p \in Processes, t \in Tasks : c = <<p, t>>
    BY StoreAssumption
  <2>2. QED
    BY <2>1 DEF IInv, Parts, SameGiven
<1>2. QED
  BY SpecIInv, <1>1, PTL

\* A process serves the store it embeds, unless another build's process came between
\* its rename and its load: a leftover in the directory is never what it serves.
THEOREM StoreIsOwn == Spec => []OwnStoreUnlessReplaced
<1>1. IInv => OwnStoreUnlessReplaced
  BY DEF IInv, Parts
<1>2. QED
  BY SpecIInv, <1>1, PTL

-----------------------------------------------------------------------------
(* Nothing is held for ever: the safety half of EveryCallEnds.              *)

\* Whoever holds the lock of EXTRACTED is at work on the extraction.
LockAtWork ==
    \A p \in Processes : lock[p] # None =>
        <<p, lock[p]>> \in Callers /\ pc[<<p, lock[p]>>] \in {"writing", "renaming"}

\* Only a caller ever takes it.
LockIsCallers == \A p \in Processes : lock[p] # None => <<p, lock[p]>> \in Callers

LEMMA NextLockIsCallers == LockIsCallers /\ IInv /\ [Next]_vars => LockIsCallers'
<1> SUFFICES ASSUME LockIsCallers, TypeOK, [Next]_vars PROVE LockIsCallers'
  BY DEF IInv
<1>1. ASSUME NEW p \in Processes, NEW t \in Tasks, <<p, t>> \in Callers, Call(p, t)
      PROVE  LockIsCallers'
  <2>1. \A q \in Processes : lock'[q] \in {lock[q], None} \/ (q = p /\ lock'[q] = t)
    BY <1>1
    DEF TypeOK, Call, Extraction, Loading, ResolveHit, ResolveMiss, WriteTmp, Rename,
        RenameRetry, RenameGivesUp, LookupHit, LookupMiss, Open, OpenFails, Backup, Insert,
        Return, Probe, ProbeEnds, Fails
  <2>2. QED
    BY <1>1, <2>1 DEF LockIsCallers
<1>2. ASSUME NEW p \in Processes, NEW b \in Builds, Restart(p, b) PROVE LockIsCallers'
  BY <1>2 DEF Restart, TypeOK, LockIsCallers
<1>3. CASE Clean \/ UNCHANGED vars
  BY <1>3 DEF Clean, vars, LockIsCallers
<1>4. QED
  BY <1>1, <1>2, <1>3 DEF Next

\* No error path leaks the lock: while it is held, its holder still has a step of the
\* extraction to make, and none of them waits for a lock (resolve_store_path).
THEOREM LockIsNeverLeaked == Spec => []LockAtWork
<1>1. Init => LockIsCallers
  BY DEF Init, LockIsCallers
<1>2. IInv /\ LockIsCallers => LockAtWork
  BY DEF IInv, TypeOK, Parts, LockHeld, LockIsCallers, LockAtWork
<1>3. QED
  BY <1>1, <1>2, SpecIInv, NextLockIsCallers, PTL DEF Spec

\* The most steps a call can still make until it is served or has failed.
Left(p, t) ==
    CASE pc[<<p, t>>] = "writing"  -> MaxAttempts + 7
      [] pc[<<p, t>>] = "renaming" -> (MaxAttempts - attempts[p]) + 6
      [] pc[<<p, t>>] = "resolved" -> 5
      [] pc[<<p, t>>] = "missed"   -> 4
      [] pc[<<p, t>>] = "copying"  -> 3
      [] pc[<<p, t>>] = "copied"   -> 2
      [] pc[<<p, t>>] = "probing"  -> 1
      [] OTHER                     -> 0

Under(p, t) == pc[<<p, t>>] \notin {"idle", "served"}

Nearer(p, t) ==
    /\ Under(p, t) => Left(p, t)' <= Left(p, t)
    /\ Extraction(p, t) \/ Loading(p, t) => Left(p, t)' < Left(p, t)

AllNearer == \A p \in Processes, t \in Tasks : <<p, t>> \in Callers => Nearer(p, t)

\* No step of anyone sends a call back, and each step of its own brings it closer to
\* its end: it makes at most MaxAttempts + 7 of them.
GetsOn == [][AllNearer]_vars

\* A step of the call itself: the rename is the only one that repeats, and it counts.
LEMMA OwnSteps ==
    ASSUME IInv, NEW p \in Processes, NEW t \in Tasks, <<p, t>> \in Callers,
           Extraction(p, t) \/ Loading(p, t)
    PROVE  Left(p, t)' < Left(p, t) /\ Left(p, t)' <= Left(p, t)
<1> USE StoreAssumption DEF Left
<1>0. TypeOK /\ attempts[p] \in 0..MaxAttempts
  BY DEF IInv, TypeOK
<1>1. CASE WriteTmp(p, t)
  <2>1. MovedOne(p, t, "writing", "renaming") /\ attempts' = attempts
    BY <1>0, <1>1, Moved DEF WriteTmp
  <2>2. QED
    BY <1>0, <2>1 DEF MovedOne
<1>2. CASE Rename(p, t)
  <2>1. MovedOne(p, t, "renaming", "resolved")
    BY <1>0, <1>2, Moved DEF Rename
  <2>2. QED
    BY <1>0, <2>1 DEF MovedOne
<1>3. CASE RenameRetry(p, t)
  <2>1. MovedOne(p, t, "renaming", "renaming")
    BY <1>0, <1>3, Moved DEF RenameRetry
  <2>2. attempts'[p] = attempts[p] + 1 /\ attempts[p] < MaxAttempts
    BY <1>3 DEF RenameRetry, IInv, TypeOK
  <2>3. QED
    BY <1>0, <2>1, <2>2 DEF MovedOne
<1>4. CASE RenameGivesUp(p, t)
  <2>1. MovedOne(p, t, "renaming", "idle")
    BY <1>0, <1>4, Moved DEF RenameGivesUp
  <2>2. QED
    BY <1>0, <2>1 DEF MovedOne
<1>5. CASE Loading(p, t)
  <2>1. \/ MovedOne(p, t, "resolved", "served") \/ MovedOne(p, t, "resolved", "missed")
        \/ MovedOne(p, t, "missed", "copying") \/ MovedOne(p, t, "missed", "idle")
        \/ MovedOne(p, t, "copying", "copied") \/ MovedOne(p, t, "copied", "served")
        \/ MovedOne(p, t, "probing", "idle")
    BY <1>0, <1>5, Moved
    DEF Loading, LookupHit, LookupMiss, Open, OpenFails, Backup, Insert, ProbeEnds
  <2>2. QED
    BY <2>1 DEF MovedOne
<1>6. QED
  BY <1>1, <1>2, <1>3, <1>4, <1>5 DEF Extraction

\* What the call of one task leaves alone in the call of another.
LEMMA OthersStayPut ==
    ASSUME IInv, NEW p \in Processes, NEW t \in Tasks, <<p, t>> \in Callers, Call(p, t),
           NEW q \in Processes, NEW u \in Tasks, <<q, u>> \in Callers, q # p \/ u # t
    PROVE  /\ pc'[<<q, u>>] = pc[<<q, u>>]
           /\ pc[<<q, u>>] = "renaming" => attempts'[q] = attempts[q]
<1> USE StoreAssumption DEF TypeOK
<1>0. TypeOK
  BY DEF IInv
<1>1. pc'[<<q, u>>] = pc[<<q, u>>]
  BY <1>0
  DEF Moves, Call, Extraction, Loading, ResolveHit, ResolveMiss, WriteTmp, Rename,
      RenameRetry, RenameGivesUp, LookupHit, LookupMiss, Open, OpenFails, Backup, Insert,
      Return, Probe, ProbeEnds, Fails
<1>2. ASSUME pc[<<q, u>>] = "renaming" PROVE attempts'[q] = attempts[q]
  <2>1. CASE pc[<<p, t>>] = "renaming"
    <3>1. lock[q] = u /\ lock[p] = t
      BY <1>2, <2>1 DEF IInv, Parts, LockHeld
    <3>2. q # p
      BY <3>1
    <3>3. attempts' \in [Processes -> Nat] => attempts'[q] = attempts[q]
      BY <1>0, <3>2
      DEF Call, Extraction, Loading, ResolveHit, ResolveMiss, WriteTmp, Rename,
          RenameRetry, RenameGivesUp, LookupHit, LookupMiss, Open, OpenFails, Backup,
          Insert, Return, Probe, ProbeEnds, Fails
    <3>4. QED
      BY <1>0, <3>3, CallTypeOK DEF IInv
  <2>2. CASE pc[<<p, t>>] # "renaming"
    BY <2>2
    DEF Moves, Call, Extraction, Loading, ResolveHit, ResolveMiss, WriteTmp, Rename,
        RenameRetry, RenameGivesUp, LookupHit, LookupMiss, Open, OpenFails, Backup,
        Insert, Return, Probe, ProbeEnds, Fails
  <2>3. QED
    BY <2>1, <2>2
<1>3. QED
  BY <1>1, <1>2

LEMMA StepsGetNearer == IInv /\ [Next]_vars => [AllNearer]_vars
<1> SUFFICES ASSUME IInv, [Next]_vars, vars' # vars,
                    NEW q \in Processes, NEW u \in Tasks, <<q, u>> \in Callers
             PROVE  Nearer(q, u)
  BY DEF AllNearer
<1>0. TypeOK /\ attempts[q] \in 0..MaxAttempts
  BY DEF IInv, TypeOK
<1>1. Extraction(q, u) \/ Loading(q, u) => Left(q, u)' < Left(q, u)
  BY OwnSteps
<1>2. ASSUME Under(q, u) PROVE Left(q, u)' <= Left(q, u)
  <2>1. Left(q, u) \in Nat
    BY <1>0, StoreAssumption DEF Left
  <2>2. CASE pc'[<<q, u>>] = "idle"
    BY <2>1, <2>2 DEF Left
  <2>3. ASSUME /\ pc'[<<q, u>>] = pc[<<q, u>>]
               /\ pc[<<q, u>>] = "renaming" => attempts'[q] = attempts[q]
        PROVE  Left(q, u)' <= Left(q, u)
    BY <1>0, <2>1, <2>3, StoreAssumption DEF Left
  <2>4. ASSUME NEW p \in Processes, NEW t \in Tasks, <<p, t>> \in Callers, Call(p, t)
        PROVE  Left(q, u)' <= Left(q, u)
    <3>1. CASE q # p \/ u # t
      BY <2>3, <2>4, <3>1, OthersStayPut
    <3>2. CASE (q = p /\ u = t) /\ (Extraction(p, t) \/ Loading(p, t))
      BY <3>2, OwnSteps
    <3>3. CASE (q = p /\ u = t) /\ Fails(p, t)
      <4>1. pc'[<<q, u>>] = "idle"
        BY <1>0, <3>3 DEF Fails, Moves, TypeOK
      <4>2. QED
        BY <2>2, <4>1
    <3>4. QED
      BY <1>2, <2>4, <3>1, <3>2, <3>3
      DEF Call, Under, Moves, ResolveHit, ResolveMiss, Return, Probe
  <2>5. ASSUME NEW p \in Processes, NEW b \in Builds, Restart(p, b)
        PROVE  Left(q, u)' <= Left(q, u)
    <3>1. CASE q = p
      BY <2>2, <2>5, <3>1 DEF Restart
    <3>2. CASE q # p
      <4>1. pc'[<<q, u>>] = pc[<<q, u>>] /\ attempts'[q] = attempts[q]
        BY <1>0, <2>5, <3>2 DEF Restart, TypeOK
      <4>2. QED
        BY <2>3, <4>1
    <3>3. QED
      BY <3>1, <3>2
  <2>6. CASE Clean
    BY <2>3, <2>6 DEF Clean
  <2>7. QED
    BY <2>4, <2>5, <2>6 DEF Next
<1>3. QED
  BY <1>1, <1>2 DEF Nearer

\* A call gets on with every step of its own and is sent back by nobody's, so it makes
\* at most MaxAttempts + 7 steps; the retries of the rename are counted in one place for
\* all tasks of a process, which the lock makes safe (rename_attempts).
THEOREM CallsOnlyGetOn == Spec => GetsOn
<1>1. QED
  BY SpecIInv, StepsGetNearer, PTL DEF Spec, GetsOn

-----------------------------------------------------------------------------
(* The extraction implements StoreContract.                                 *)

connBar   == [p \in Processes |-> ConnectionOf(p, owner[p])]
answerBar == [c \in Callers |-> ConnectionOf(c[1], got[c])]

ContractStep == [Contract!Next]_<<connBar, answerBar>>

\* Only a caller that was served holds an answer.
AnsweredIsServed ==
    \A p \in Processes, t \in Tasks :
        <<p, t>> \in Callers /\ got[<<p, t>>] # None => pc[<<p, t>>] = "served"

\* A copy is of a file that was there, and whole.
CopyIsWhole ==
    \A p \in Processes, t \in Tasks :
        <<p, t>> \in Callers /\ pc[<<p, t>>] \in {"copying", "copied"}
            => copy[<<p, t>>] \in Builds

KeptIsWhole == \A p \in Processes : owner[p] # None => copy[<<p, owner[p]>>] \in Builds

CopyInv == AnsweredIsServed /\ CopyIsWhole /\ KeptIsWhole

\* A step that neither makes, nor keeps, nor gives up a copy.
Bystands(p, t) ==
    /\ UNCHANGED <<copy, owner, got>>
    /\ pc[<<p, t>>] # "served"
    /\ pc'[<<p, t>>] # "copying"
    /\ pc'[<<p, t>>] = "copied" => pc[<<p, t>>] = "copying"

\* A step that begins a copy, or fails in it.
Copies(p, t) ==
    /\ UNCHANGED <<owner, got>>
    /\ pc[<<p, t>>] \in {"missed", "copying"}
    /\ pc'[<<p, t>>] \in {"copying", "idle"}
    /\ pc'[<<p, t>>] = "copying" => copy'[<<p, t>>] \in Builds
    /\ \A c \in Callers \ {<<p, t>>} : copy'[c] = copy[c]

LEMMA KindsOfStep ==
    ASSUME IInv, NEW p \in Processes, NEW t \in Tasks, <<p, t>> \in Callers, Call(p, t)
    PROVE  \/ Bystands(p, t) \/ Copies(p, t)
           \/ LookupHit(p, t) \/ Insert(p, t) \/ Return(p, t)
<1> USE DEF Moves
<1>0. TypeOK /\ disk # "Partial"
  BY DEF IInv, Parts, CompleteCopies
<1>1. CASE \/ ResolveHit(p, t) \/ ResolveMiss(p, t) \/ Extraction(p, t) \/ LookupMiss(p, t)
           \/ OpenFails(p, t) \/ Backup(p, t) \/ Probe(p, t) \/ ProbeEnds(p, t)
  BY <1>0, <1>1
  DEF TypeOK, Bystands, Extraction, ResolveHit, ResolveMiss, WriteTmp, Rename, RenameRetry,
      RenameGivesUp, LookupMiss, OpenFails, Backup, Probe, ProbeEnds
<1>2. CASE Open(p, t)
  BY <1>0, <1>2 DEF TypeOK, Contents, Copies, Open
<1>3. CASE Fails(p, t)
  BY <1>0, <1>3 DEF TypeOK, Bystands, Copies, Fails
<1>4. QED
  BY <1>1, <1>2, <1>3 DEF Call, Loading

LEMMA CallKeepsCopies ==
    ASSUME IInv, CopyInv, NEW p \in Processes, NEW t \in Tasks, <<p, t>> \in Callers,
           Call(p, t)
    PROVE  CopyInv'
<1>0. TypeOK /\ OwnerIsCaller /\ OwnerIsDone
  BY DEF IInv, Parts
<1>1. \A q \in Processes, u \in Tasks :
          <<q, u>> \in Callers /\ (q # p \/ u # t) => pc'[<<q, u>>] = pc[<<q, u>>]
  BY OthersStayPut
<1>2. CASE Bystands(p, t)
  BY <1>1, <1>2
  DEF Bystands, CopyInv, AnsweredIsServed, CopyIsWhole, KeptIsWhole
<1>3. CASE Copies(p, t)
  <2>1. AnsweredIsServed'
    BY <1>1, <1>3 DEF Copies, CopyInv, AnsweredIsServed
  <2>2. CopyIsWhole'
    BY <1>1, <1>3 DEF Copies, CopyInv, CopyIsWhole
  <2>3. KeptIsWhole'
    <3> SUFFICES ASSUME NEW q \in Processes, owner[q] # None
                 PROVE  copy'[<<q, owner[q]>>] \in Builds
      BY <1>3 DEF Copies, KeptIsWhole
    <3>1. <<q, owner[q]>> \in Callers \ {<<p, t>>}
      BY <1>0, <1>3 DEF Copies, OwnerIsCaller, OwnerIsDone
    <3>2. QED
      BY <1>3, <3>1 DEF Copies, CopyInv, KeptIsWhole
  <2>4. QED
    BY <2>1, <2>2, <2>3 DEF CopyInv
<1>4. CASE LookupHit(p, t)
  <2>1. MovedOne(p, t, "resolved", "served")
    BY <1>0, <1>4, Moved DEF LookupHit
  <2>2. AnsweredIsServed'
    BY <1>0, <1>4, <2>1 DEF LookupHit, MovedOne, TypeOK, CopyInv, AnsweredIsServed
  <2>3. CopyIsWhole' /\ KeptIsWhole'
    BY <1>4, <2>1 DEF LookupHit, MovedOne, CopyInv, CopyIsWhole, KeptIsWhole
  <2>4. QED
    BY <2>2, <2>3 DEF CopyInv
<1>5. CASE Return(p, t)
  <2>1. MovedOne(p, t, "served", "idle")
    BY <1>0, <1>5, Moved DEF Return
  <2>2. AnsweredIsServed'
    BY <1>0, <1>5, <2>1 DEF Return, MovedOne, TypeOK, CopyInv, AnsweredIsServed
  <2>3. CopyIsWhole' /\ KeptIsWhole'
    BY <1>5, <2>1 DEF Return, MovedOne, CopyInv, CopyIsWhole, KeptIsWhole
  <2>4. QED
    BY <2>2, <2>3 DEF CopyInv
<1>6. CASE Insert(p, t)
  <2>1. MovedOne(p, t, "copied", "served")
    BY <1>0, <1>6, Moved DEF Insert
  <2>2. AnsweredIsServed'
    BY <1>0, <1>6, <2>1 DEF Insert, MovedOne, TypeOK, CopyInv, AnsweredIsServed
  <2>3. CopyIsWhole'
    BY <1>0, <1>6, <2>1 DEF Insert, MovedOne, TypeOK, CopyInv, CopyIsWhole
  <2>4. KeptIsWhole'
    <3> SUFFICES ASSUME NEW q \in Processes, owner'[q] # None
                 PROVE  copy'[<<q, owner'[q]>>] \in Builds
      BY DEF KeptIsWhole
    <3>1. CASE owner[q] # None
      <4>1. owner'[q] = owner[q]
        BY <1>0, <1>6, <3>1 DEF Insert, TypeOK
      <4>2. <<q, owner[q]>> \in Callers /\ <<q, owner[q]>> # <<p, t>>
        BY <1>0, <2>1, <3>1 DEF OwnerIsCaller, OwnerIsDone, MovedOne
      <4>3. copy'[<<q, owner[q]>>] = copy[<<q, owner[q]>>]
        BY <1>0, <1>6, <4>2 DEF Insert, TypeOK
      <4>4. QED
        BY <3>1, <4>1, <4>3 DEF CopyInv, KeptIsWhole
    <3>2. CASE owner[q] = None
      <4>1. q = p /\ owner'[q] = t /\ copy'[<<p, t>>] = copy[<<p, t>>]
        BY <1>0, <1>6, <3>2 DEF Insert, TypeOK
      <4>2. QED
        BY <2>1, <4>1 DEF MovedOne, CopyInv, CopyIsWhole
    <3>3. QED
      BY <3>1, <3>2
  <2>5. QED
    BY <2>2, <2>3, <2>4 DEF CopyInv
<1>7. QED
  BY <1>2, <1>3, <1>4, <1>5, <1>6, KindsOfStep

LEMMA NextKeepsCopies == IInv /\ CopyInv /\ [Next]_vars => CopyInv'
<1> SUFFICES ASSUME IInv, CopyInv, [Next]_vars PROVE CopyInv'
  OBVIOUS
<1>0. TypeOK /\ OwnerIsCaller
  BY DEF IInv, Parts
<1>1. ASSUME NEW p \in Processes, NEW b \in Builds, Restart(p, b) PROVE CopyInv'
  <2>1. AnsweredIsServed' /\ CopyIsWhole'
    BY <1>1 DEF Restart, CopyInv, AnsweredIsServed, CopyIsWhole
  <2>2. KeptIsWhole'
    <3> SUFFICES ASSUME NEW q \in Processes, owner'[q] # None
                 PROVE  copy'[<<q, owner'[q]>>] \in Builds
      BY DEF KeptIsWhole
    <3>1. q # p /\ owner'[q] = owner[q]
      BY <1>0, <1>1 DEF Restart, TypeOK
    <3>2. copy'[<<q, owner[q]>>] = copy[<<q, owner[q]>>]
      BY <1>0, <1>1, <3>1 DEF Restart, OwnerIsCaller
    <3>3. QED
      BY <3>1, <3>2 DEF CopyInv, KeptIsWhole
  <2>3. QED
    BY <2>1, <2>2 DEF CopyInv
<1>2. CASE Clean \/ UNCHANGED vars
  BY <1>2 DEF Clean, vars, CopyInv, AnsweredIsServed, CopyIsWhole, KeptIsWhole
<1>3. QED
  BY <1>1, <1>2, CallKeepsCopies DEF Next

\* An answer is the connection of its process.
LEMMA AnswersAgree ==
    ASSUME IInv, CopyInv, NEW p \in Processes, NEW t \in Tasks, <<p, t>> \in Callers
    PROVE  /\ got[<<p, t>>] # None => owner[p] # None /\ got[<<p, t>>] = owner[p]
           /\ owner[p] # None => owner[p] \in Tasks /\ <<p, owner[p]>> \in Callers
  BY DEF CopyInv, AnsweredIsServed, IInv, TypeOK, Parts, SameGiven, OwnerIsCaller

\* A step that leaves alone the answers, and the copies they are of, is none of the
\* contract's.
LEMMA StuttersUnless ==
    ASSUME IInv, CopyInv, UNCHANGED <<owner, got>>,
           \A p \in Processes : owner[p] # None =>
               copy'[<<p, owner[p]>>] = copy[<<p, owner[p]>>]
    PROVE  ContractStep
<1>1. ASSUME NEW p \in Processes PROVE ConnectionOf(p, owner[p])' = ConnectionOf(p, owner[p])
  BY DEF ConnectionOf
<1>2. ASSUME NEW c \in Callers PROVE ConnectionOf(c[1], got[c])' = ConnectionOf(c[1], got[c])
  <2>1. PICK p \in Processes, t \in Tasks : c = <<p, t>>
    BY StoreAssumption
  <2>2. QED
    BY <2>1, AnswersAgree DEF ConnectionOf
<1>3. UNCHANGED <<connBar, answerBar>>
  BY <1>1, <1>2 DEF connBar, answerBar
<1>4. QED
  BY <1>3 DEF ContractStep

\* A step that gives the process's connection to one caller.
LEMMA ServesOne ==
    ASSUME IInv, CopyInv, NEW p \in Processes, NEW t \in Tasks, <<p, t>> \in Callers,
           NEW u \in Tasks, owner[p] \in {None, u}, got[<<p, t>>] = None,
           copy[<<p, u>>] \in Builds, copy'[<<p, u>>] = copy[<<p, u>>],
           owner' = [owner EXCEPT ![p] = u],
           got' = [got EXCEPT ![<<p, t>>] = u],
           \A q \in Processes : owner[q] # None =>
               copy'[<<q, owner[q]>>] = copy[<<q, owner[q]>>]
    PROVE  ContractStep
<1> DEFINE k == <<u, copy[<<p, u>>]>>
<1>0. TypeOK /\ u # None
  BY StoreAssumption DEF IInv
<1>1. connBar[p] \in {None, k} /\ answerBar[<<p, t>>] = None
  BY <1>0 DEF connBar, answerBar, ConnectionOf
<1>2. connBar' = [connBar EXCEPT ![p] = k]
  BY <1>0 DEF connBar, ConnectionOf, TypeOK
<1>3. answerBar' = [answerBar EXCEPT ![<<p, t>>] = k]
  <2>1. ASSUME NEW c \in Callers \ {<<p, t>>}
        PROVE  ConnectionOf(c[1], got[c])' = ConnectionOf(c[1], got[c])
    <3>1. PICK q \in Processes, v \in Tasks : c = <<q, v>>
      BY StoreAssumption
    <3>2. got'[c] = got[c]
      BY <1>0, <2>1 DEF TypeOK
    <3>3. got[c] # None => owner[q] # None /\ got[c] = owner[q]
      BY <3>1, AnswersAgree
    <3>4. got[c] # None => copy'[<<q, got[c]>>] = copy[<<q, got[c]>>]
      BY <3>3
    <3>5. QED
      BY <3>1, <3>2, <3>4 DEF ConnectionOf
  <2>2. ConnectionOf(p, got[<<p, t>>])' = k
    BY <1>0 DEF ConnectionOf, TypeOK
  <2> HIDE DEF k
  <2>3. ASSUME NEW c \in Callers
        PROVE  answerBar'[c] = IF c = <<p, t>> THEN k ELSE answerBar[c]
    BY <2>1, <2>2 DEF answerBar
  <2>4. QED
    BY <2>3 DEF answerBar
<1>4. k \in Tasks \X Builds
  OBVIOUS
<1>5. Contract!Serve(<<p, t>>, k)
  BY <1>1, <1>2, <1>3 DEF Contract!Serve, connBar, answerBar
<1>6. QED
  BY <1>4, <1>5 DEF ContractStep, Contract!Next

\* The copy that is kept is not the one a call still makes.
LEMMA KeptStays ==
    ASSUME IInv, NEW p \in Processes, NEW t \in Tasks, <<p, t>> \in Callers,
           pc[<<p, t>>] \in {"missed", "copying", "copied"},
           NEW q \in Processes, owner[q] # None
    PROVE  <<q, owner[q]>> \in Callers \ {<<p, t>>}
  BY DEF IInv, Parts, OwnerIsCaller, OwnerIsDone

LEMMA CallRefines ==
    ASSUME IInv, CopyInv, NEW p \in Processes, NEW t \in Tasks, <<p, t>> \in Callers,
           Call(p, t)
    PROVE  ContractStep
<1>0. TypeOK
  BY DEF IInv
<1>1. CASE Bystands(p, t)
  BY <1>1, StuttersUnless DEF Bystands
<1>2. CASE Copies(p, t)
  BY <1>2, KeptStays, StuttersUnless DEF Copies
<1>3. CASE LookupHit(p, t)
  <2>1. pc[<<p, t>>] = "resolved" /\ owner[p] # None /\ owner[p] \in Tasks
    BY <1>0, <1>3 DEF LookupHit, Moves, TypeOK
  <2>2. got[<<p, t>>] = None
    BY <2>1 DEF CopyInv, AnsweredIsServed
  <2>3. owner' = [owner EXCEPT ![p] = owner[p]] /\ copy' = copy
    BY <1>0, <1>3 DEF LookupHit, TypeOK
  <2>4. copy[<<p, owner[p]>>] \in Builds
    BY <2>1 DEF CopyInv, KeptIsWhole
  <2>5. got' = [got EXCEPT ![<<p, t>>] = owner[p]]
    BY <1>3 DEF LookupHit
  <2>6. QED
    BY <2>1, <2>2, <2>3, <2>4, <2>5, ServesOne
<1>4. CASE Insert(p, t)
  <2> DEFINE first == IF owner[p] = None THEN t ELSE owner[p]
  <2>1. /\ pc[<<p, t>>] = "copied" /\ got[<<p, t>>] = None
        /\ first \in Tasks /\ owner[p] \in {None, first}
    BY <1>0, <1>4 DEF Insert, Moves, TypeOK, CopyInv, AnsweredIsServed
  <2>2. \A q \in Processes : owner[q] # None => copy'[<<q, owner[q]>>] = copy[<<q, owner[q]>>]
    BY <1>0, <1>4, <2>1, KeptStays DEF Insert, TypeOK
  <2>3. copy[<<p, first>>] \in Builds /\ copy'[<<p, first>>] = copy[<<p, first>>]
    <3>1. CASE owner[p] = None
      BY <1>0, <1>4, <2>1, <3>1 DEF Insert, TypeOK, CopyInv, CopyIsWhole
    <3>2. CASE owner[p] # None
      BY <2>2, <3>2 DEF CopyInv, KeptIsWhole
    <3>3. QED
      BY <3>1, <3>2
  <2>4. owner' = [owner EXCEPT ![p] = first] /\ got' = [got EXCEPT ![<<p, t>>] = first]
    BY <1>4 DEF Insert
  <2> HIDE DEF first
  <2>5. QED
    BY <2>1, <2>2, <2>3, <2>4, ServesOne
<1>5. CASE Return(p, t)
  <2>1. got[<<p, t>>] # None
    BY <1>0, <1>5, StoreAssumption DEF Return, Moves, IInv, Parts, SameGiven
  <2>2. UNCHANGED connBar
    BY <1>5 DEF Return, connBar, ConnectionOf
  <2>3. answerBar[<<p, t>>] # None
    <3>1. got[<<p, t>>] = owner[p] /\ owner[p] \in Tasks /\ copy[<<p, owner[p]>>] \in Builds
      BY <2>1, AnswersAgree DEF CopyInv, KeptIsWhole
    <3>2. answerBar[<<p, t>>] = <<owner[p], copy[<<p, owner[p]>>]>>
      BY <2>1, <3>1 DEF answerBar, ConnectionOf
    <3>3. QED
      BY <3>1, <3>2, CopyAssumption
  <2>4. answerBar' = [answerBar EXCEPT ![<<p, t>>] = None]
    <3>1. \A c \in Callers : got'[c] = IF c = <<p, t>> THEN None ELSE got[c]
      BY <1>0, <1>5 DEF Return, TypeOK
    <3>2. copy' = copy
      BY <1>5 DEF Return
    <3>3. QED
      BY <3>1, <3>2 DEF answerBar, ConnectionOf
  <2>5. Contract!Return(<<p, t>>)
    BY <2>2, <2>3, <2>4 DEF Contract!Return, connBar, answerBar
  <2>6. QED
    BY <2>5 DEF ContractStep, Contract!Next
<1>6. QED
  BY <1>1, <1>2, <1>3, <1>4, <1>5, KindsOfStep

LEMMA RestartRefines ==
    ASSUME IInv, CopyInv, NEW p \in Processes, NEW b \in Builds, Restart(p, b)
    PROVE  ContractStep
<1>0. TypeOK
  BY DEF IInv
<1>1. ASSUME NEW q \in Processes
      PROVE  connBar'[q] = IF q = p THEN None ELSE connBar[q]
  <2>1. CASE q = p
    BY <1>0, <2>1 DEF Restart, TypeOK, connBar, ConnectionOf
  <2>2. CASE q # p
    <3>1. owner'[q] = owner[q]
      BY <1>0, <2>2 DEF Restart, TypeOK
    <3>2. owner[q] # None => copy'[<<q, owner[q]>>] = copy[<<q, owner[q]>>]
      BY <1>0, <2>2 DEF Restart, IInv, Parts, OwnerIsCaller
    <3>3. QED
      BY <2>2, <3>1, <3>2 DEF connBar, ConnectionOf
  <2>3. QED
    BY <2>1, <2>2
<1>2. ASSUME NEW c \in Callers
      PROVE  answerBar'[c] = IF c[1] = p THEN None ELSE answerBar[c]
  <2>1. PICK q \in Processes, t \in Tasks : c = <<q, t>>
    BY StoreAssumption
  <2>2. CASE q = p
    BY <2>1, <2>2 DEF Restart, answerBar, ConnectionOf
  <2>3. CASE q # p
    <3>1. got'[c] = got[c]
      BY <2>1, <2>3 DEF Restart
    <3>2. got[c] # None => <<q, got[c]>> \in Callers
      BY <2>1, AnswersAgree
    <3>3. got[c] # None => copy'[<<q, got[c]>>] = copy[<<q, got[c]>>]
      BY <2>3, <3>2 DEF Restart
    <3>4. QED
      BY <2>1, <2>3, <3>1, <3>3 DEF answerBar, ConnectionOf
  <2>4. QED
    BY <2>2, <2>3
<1>3. connBar' = [connBar EXCEPT ![p] = None]
  BY <1>1 DEF connBar
<1>4. answerBar' = [c \in Callers |-> IF c[1] = p THEN None ELSE answerBar[c]]
  BY <1>2 DEF answerBar
<1>5. Contract!Restart(p)
  BY <1>3, <1>4 DEF Contract!Restart, connBar, answerBar
<1>6. QED
  BY <1>5 DEF ContractStep, Contract!Next

LEMMA NextRefines == IInv /\ CopyInv /\ [Next]_vars => ContractStep
<1>1. ASSUME IInv, CopyInv, Clean \/ UNCHANGED vars PROVE ContractStep
  BY <1>1, StuttersUnless DEF Clean, vars
<1>2. QED
  BY <1>1, CallRefines, RestartRefines DEF Next

\* cached_store_connection gives all callers of a process one connection, to one build's
\* whole store, and that stays what it is until the process ends, whatever is renamed
\* over the file or copied beside it meanwhile.
THEOREM ImplementsContract == Spec => ContractSpec
<1>1. Init => CopyInv /\ Contract!Init
  BY DEF Init, CopyInv, AnsweredIsServed, CopyIsWhole, KeptIsWhole, Contract!Init,
     ConnectionOf
<1>2. IInv /\ CopyInv /\ [Next]_vars => [Contract!Next]_<<connBar, answerBar>>
  BY NextRefines DEF ContractStep
<1>3. QED
  BY <1>1, <1>2, SpecIInv, NextKeepsCopies, PTL
  DEF Spec, ContractSpec, Contract!Spec, connBar, answerBar
=============================================================================
