--------------------------- MODULE StoreExtraction ---------------------------
(***************************************************************************)
(* data/store.rs: resolve_store_path and cached_store_connection, with the *)
(* store's health check of main.rs.  Server processes, of one build of the *)
(* program or of several, extract the endpoint store they embed to the one *)
(* path in the temporary directory and load it from there.  The tasks of a *)
(* process share its EXTRACTED map and its CACHE; the processes share the  *)
(* directory, without a lock.  One api_version is modelled: the maps, the  *)
(* files and the connections of several are independent of one another.    *)
(*                                                                         *)
(* What a store file holds is named by the build that embeds it.           *)
(***************************************************************************)
EXTENDS Naturals

CONSTANTS Processes,
          Tasks,
          Callers,           \* <<process, task>>: a task that asks for the store
          Builds,
          None,
          MaxAttempts,       \* retries of a rename, 5 in the code
          MaxMishaps         \* bound on failures, restarts and cleanings

ASSUME StoreAssumption ==
    /\ Callers \subseteq Processes \X Tasks
    /\ None \notin Builds \cup Tasks
    /\ "Partial" \notin Builds \cup {None}
    /\ MaxAttempts \in Nat
    /\ MaxMishaps \in Nat

\* Nor is it a task's copy of a store.
ASSUME CopyAssumption == None \notin Tasks \X Builds

\* What may be found at a path: a file that is still being written is partial.
Contents == Builds \cup {None, "Partial"}

VARIABLES
    build,      \* the build each process runs
    disk,       \* the file at the store's path
    tmp,        \* the temporary files, by name
    extracted,  \* the processes whose EXTRACTED map has the path
    lock,       \* the task that holds the lock of that map
    attempts,   \* its retries of the rename
    pc,
    copy,       \* what each caller has opened or copied to memory
    owner,      \* the task whose copy is in the CACHE of each process
    got,        \* the task whose copy each caller was given
    mishaps,
    replaced    \* history: processes whose file another build's has replaced

vars == <<build, disk, tmp, extracted, lock, attempts, pc, copy, owner, got,
          mishaps, replaced>>

TypeOK ==
    /\ build \in [Processes -> Builds]
    /\ disk \in Contents
    /\ tmp \in [Processes -> Contents]
    /\ extracted \subseteq Processes
    /\ lock \in [Processes -> Tasks \cup {None}]
    /\ attempts \in [Processes -> 0..MaxAttempts]
    /\ pc \in [Callers -> {"idle", "writing", "renaming", "resolved", "missed",
                           "copying", "copied", "served", "probing"}]
    /\ copy \in [Callers -> Contents]
    /\ owner \in [Processes -> Tasks \cup {None}]
    /\ got \in [Callers -> Tasks \cup {None}]
    /\ mishaps \in 0..MaxMishaps
    /\ replaced \subseteq Processes

\* The directory may hold the store of a build that was installed before.
Init ==
    /\ build \in [Processes -> Builds]
    /\ disk \in Builds \cup {None}
    /\ tmp = [p \in Processes |-> None]
    /\ extracted = {}
    /\ lock = [p \in Processes |-> None]
    /\ attempts = [p \in Processes |-> 0]
    /\ pc = [c \in Callers |-> "idle"]
    /\ copy = [c \in Callers |-> None]
    /\ owner = [p \in Processes |-> None]
    /\ got = [c \in Callers |-> None]
    /\ mishaps = 0
    /\ replaced = {}

Moves(c, from, to) == pc[c] = from /\ pc' = [pc EXCEPT ![c] = to]

-----------------------------------------------------------------------------
(* resolve_store_path: the lock is held from the lookup to the insertion.   *)

\* Mutant: a file that is there already is used as it is.
ResolveFound(p, t) ==
    /\ lock[p] = None
    /\ p \in extracted \/ disk # None
    /\ Moves(<<p, t>>, "idle", "resolved")
    /\ UNCHANGED <<build, disk, tmp, extracted, lock, attempts, copy, owner, got,
                   mishaps, replaced>>

ResolveHit(p, t) ==
    /\ lock[p] = None
    /\ p \in extracted
    /\ Moves(<<p, t>>, "idle", "resolved")
    /\ UNCHANGED <<build, disk, tmp, extracted, lock, attempts, copy, owner, got,
                   mishaps, replaced>>

\* Mutant: one name for all processes.
TmpNameShared(p) == CHOOSE q \in Processes : TRUE

\* `{file}.{pid}.{n}.tmp`: no two processes have the same name.
TmpName(p) == p

\* Mutant: the path is not remembered.
ResolveMissAlways(p, t) ==
    /\ lock[p] = None
    /\ Moves(<<p, t>>, "idle", "writing")
    /\ lock' = [lock EXCEPT ![p] = t]
    /\ tmp' = [tmp EXCEPT ![TmpName(p)] = "Partial"]
    /\ UNCHANGED <<build, disk, extracted, attempts, copy, owner, got, mishaps, replaced>>

\* The start of fs::write: the temporary file is there, and incomplete.
ResolveMiss(p, t) ==
    /\ lock[p] = None
    /\ p \notin extracted
    /\ Moves(<<p, t>>, "idle", "writing")
    /\ lock' = [lock EXCEPT ![p] = t]
    /\ tmp' = [tmp EXCEPT ![TmpName(p)] = "Partial"]
    /\ UNCHANGED <<build, disk, extracted, attempts, copy, owner, got, mishaps, replaced>>

\* A file that was removed meanwhile is written, too, but has no name any more.
WriteTmp(p, t) ==
    /\ Moves(<<p, t>>, "writing", "renaming")
    /\ tmp' = [tmp EXCEPT ![TmpName(p)] = IF @ = None THEN None ELSE build[p]]
    /\ UNCHANGED <<build, disk, extracted, lock, attempts, copy, owner, got, mishaps, replaced>>

HasOpen(c) == pc[c] \in {"copying", "probing"}

\* The path is remembered and the lock released.
Rename(p, t) ==
    /\ tmp[TmpName(p)] # None
    /\ Moves(<<p, t>>, "renaming", "resolved")
    /\ disk' = tmp[TmpName(p)]
    /\ attempts' = [attempts EXCEPT ![p] = 0]
    /\ tmp' = [tmp EXCEPT ![TmpName(p)] = None]
    /\ extracted' = extracted \cup {p}
    /\ lock' = [lock EXCEPT ![p] = None]
    /\ replaced' = (replaced \ {p})
                   \cup {q \in extracted \ {p} : build[q] # build[p]}
    /\ UNCHANGED <<build, copy, owner, got, mishaps>>

\* Mutant: the count starts over instead of ending the retries.
RenameRetryForever(p, t) ==
    /\ Moves(<<p, t>>, "renaming", "renaming")
    /\ attempts' = [attempts EXCEPT ![p] = IF @ < MaxAttempts THEN @ + 1 ELSE 0]
    /\ UNCHANGED <<build, disk, tmp, extracted, lock, copy, owner, got, mishaps, replaced>>

\* Mutant: one retry too many.
RenameRetryTooOften(p, t) ==
    /\ attempts[p] <= MaxAttempts
    /\ Moves(<<p, t>>, "renaming", "renaming")
    /\ attempts' = [attempts EXCEPT ![p] = @ + 1]
    /\ UNCHANGED <<build, disk, tmp, extracted, lock, copy, owner, got, mishaps, replaced>>

\* `Err(_) if rename_attempts < 5`: whatever the error, be it that another process has
\* the file open, that the temporary file is gone or any other: count, sleep, try again.
RenameRetry(p, t) ==
    /\ attempts[p] < MaxAttempts
    /\ Moves(<<p, t>>, "renaming", "renaming")
    /\ attempts' = [attempts EXCEPT ![p] = @ + 1]
    /\ UNCHANGED <<build, disk, tmp, extracted, lock, copy, owner, got, mishaps, replaced>>

\* The call ends in an error.  Nothing is remembered, so the next call extracts
\* anew, under the next name; the temporary file is left behind.
RenameGivesUp(p, t) ==
    /\ attempts[p] = MaxAttempts
    /\ Moves(<<p, t>>, "renaming", "idle")
    /\ lock' = [lock EXCEPT ![p] = None]
    /\ attempts' = [attempts EXCEPT ![p] = 0]
    /\ UNCHANGED <<build, disk, tmp, extracted, copy, owner, got, mishaps, replaced>>

-----------------------------------------------------------------------------
(* cached_in_memory_connection: the lock of CACHE is held for the lookup    *)
(* and for the insertion, and not in between.                               *)

LookupHit(p, t) ==
    /\ owner[p] # None
    /\ Moves(<<p, t>>, "resolved", "served")
    /\ got' = [got EXCEPT ![<<p, t>>] = owner[p]]
    /\ UNCHANGED <<build, disk, tmp, extracted, lock, attempts, copy, owner, mishaps,
                   replaced>>

LookupMiss(p, t) ==
    /\ owner[p] = None
    /\ Moves(<<p, t>>, "resolved", "missed")
    /\ UNCHANGED <<build, disk, tmp, extracted, lock, attempts, copy, owner, got,
                   mishaps, replaced>>

\* An open file keeps its contents, whatever is renamed over its path.
Open(p, t) ==
    /\ disk # None
    /\ Moves(<<p, t>>, "missed", "copying")
    /\ copy' = [copy EXCEPT ![<<p, t>>] = disk]
    /\ UNCHANGED <<build, disk, tmp, extracted, lock, attempts, owner, got, mishaps,
                   replaced>>

\* The temporary directory was cleaned: the path is remembered, the file gone.
OpenFails(p, t) ==
    /\ disk = None
    /\ Moves(<<p, t>>, "missed", "idle")
    /\ UNCHANGED <<build, disk, tmp, extracted, lock, attempts, copy, owner, got,
                   mishaps, replaced>>

\* The copy to memory is complete, and the file closed.
Backup(p, t) ==
    /\ Moves(<<p, t>>, "copying", "copied")
    /\ UNCHANGED <<build, disk, tmp, extracted, lock, attempts, copy, owner, got,
                   mishaps, replaced>>

\* Mutant: the copy made last is the one that is kept.
InsertOver(p, t) ==
    /\ Moves(<<p, t>>, "copied", "served")
    /\ owner' = [owner EXCEPT ![p] = t]
    /\ got' = [got EXCEPT ![<<p, t>>] = t]
    /\ UNCHANGED <<build, disk, tmp, extracted, lock, attempts, copy, mishaps, replaced>>

\* `entry(..).or_insert(leaked)`: the copy inserted first is given to everyone.
Insert(p, t) ==
    LET first == IF owner[p] = None THEN t ELSE owner[p] IN
    /\ Moves(<<p, t>>, "copied", "served")
    /\ owner' = [owner EXCEPT ![p] = first]
    /\ got' = [got EXCEPT ![<<p, t>>] = first]
    /\ copy' = [copy EXCEPT ![<<p, t>>] = IF first = t THEN @ ELSE None]
    /\ UNCHANGED <<build, disk, tmp, extracted, lock, attempts, mishaps, replaced>>

Return(p, t) ==
    /\ Moves(<<p, t>>, "served", "idle")
    /\ got' = [got EXCEPT ![<<p, t>>] = None]
    /\ UNCHANGED <<build, disk, tmp, extracted, lock, attempts, copy, owner, mishaps,
                   replaced>>

-----------------------------------------------------------------------------
\* The health check opens the file at the path that was resolved at start-up,
\* and closes it.
Probe(p, t) ==
    /\ p \in extracted
    /\ disk # None
    /\ Moves(<<p, t>>, "idle", "probing")
    /\ UNCHANGED <<build, disk, tmp, extracted, lock, attempts, copy, owner, got,
                   mishaps, replaced>>

ProbeEnds(p, t) ==
    /\ Moves(<<p, t>>, "probing", "idle")
    /\ UNCHANGED <<build, disk, tmp, extracted, lock, attempts, copy, owner, got,
                   mishaps, replaced>>

Mishap == mishaps < MaxMishaps /\ mishaps' = mishaps + 1

\* Writing the temporary file or copying to memory fails: `?` releases the lock
\* and closes the file.
Fails(p, t) ==
    /\ Mishap
    /\ \/ /\ Moves(<<p, t>>, "writing", "idle")
          /\ lock' = [lock EXCEPT ![p] = None]
          /\ copy' = copy
       \/ /\ Moves(<<p, t>>, "copying", "idle")
          /\ lock' = lock
          /\ copy' = [copy EXCEPT ![<<p, t>>] = None]
    /\ UNCHANGED <<build, disk, tmp, extracted, attempts, owner, got, replaced>>

\* A process ends in whatever it does and is started again, rebuilt or not.
Restart(p, b) ==
    /\ Mishap
    /\ build' = [build EXCEPT ![p] = b]
    /\ extracted' = extracted \ {p}
    /\ lock' = [lock EXCEPT ![p] = None]
    /\ pc' = [c \in Callers |-> IF c[1] = p THEN "idle" ELSE pc[c]]
    /\ copy' = [c \in Callers |-> IF c[1] = p THEN None ELSE copy[c]]
    /\ owner' = [owner EXCEPT ![p] = None]
    /\ got' = [c \in Callers |-> IF c[1] = p THEN None ELSE got[c]]
    /\ replaced' = replaced \ {p}
    /\ attempts' = [attempts EXCEPT ![p] = 0]
    /\ UNCHANGED <<disk, tmp>>

\* Files are removed from the temporary directory: the store, temporary files, or both.
Clean ==
    /\ Mishap
    /\ disk' \in {disk, None}
    /\ \E gone \in SUBSET Processes :
          tmp' = [p \in Processes |-> IF p \in gone THEN None ELSE tmp[p]]
    /\ UNCHANGED <<build, extracted, lock, attempts, pc, copy, owner, got, replaced>>

Extraction(p, t) ==
    \/ WriteTmp(p, t) \/ Rename(p, t) \/ RenameRetry(p, t) \/ RenameGivesUp(p, t)

Loading(p, t) ==
    \/ LookupHit(p, t) \/ LookupMiss(p, t) \/ Open(p, t) \/ OpenFails(p, t)
    \/ Backup(p, t) \/ Insert(p, t) \/ ProbeEnds(p, t)

Call(p, t) ==
    \/ ResolveHit(p, t) \/ ResolveMiss(p, t) \/ Extraction(p, t)
    \/ Loading(p, t) \/ Return(p, t)
    \/ Probe(p, t) \/ Fails(p, t)

Next ==
    \/ \E p \in Processes, t \in Tasks : <<p, t>> \in Callers /\ Call(p, t)
    \/ \E p \in Processes, b \in Builds : Restart(p, b)
    \/ Clean

Spec == Init /\ [][Next]_vars

\* A call that has begun goes on; nobody has to call.
Fairness == \A c \in Callers : WF_vars(Extraction(c[1], c[2]) \/ Loading(c[1], c[2]))

FairSpec == Spec /\ Fairness

-----------------------------------------------------------------------------
\* Whatever the processes write at the same time, and wherever one is stopped, no
\* caller ever finds, opens or copies a file that is only partly written.
CompleteCopies ==
    /\ disk # "Partial"
    /\ \A c \in Callers : copy[c] # "Partial"

\* A process never renames over the file while one of its own tasks has it open.
NeverRacesItself ==
    \A c \in Callers : lock[c[1]] # None => ~HasOpen(c)

\* All callers of a process that were given a connection were given the same one,
\* though several may have made a copy at the same time.
OneConnection ==
    \A c \in Callers :
        pc[c] = "served" => owner[c[1]] # None /\ got[c] = owner[c[1]]

\* What a process serves is what it embeds, never a leftover of another build,
\* unless a process of another build came in between its extraction and its load.
OwnStoreUnlessReplaced ==
    \A p \in Processes :
        owner[p] # None /\ copy[<<p, owner[p]>>] # build[p] => p \in replaced

\* Every call returns, with a connection or an error: the retries of the rename,
\* made under the lock that all callers need, come to an end.
EveryCallEnds ==
    \A c \in Callers :
        pc[c] \notin {"idle", "served"} ~> pc[c] \in {"idle", "served"}

\* The connection of a process in the terms of StoreContract: whose copy, of what.
ConnectionOf(p, t) == IF t = None THEN None ELSE <<t, copy[<<p, t>>]>>

Contract == INSTANCE StoreContract
    WITH Connections <- Tasks \X Builds,
         conn        <- [p \in Processes |-> ConnectionOf(p, owner[p])],
         answer      <- [c \in Callers |-> ConnectionOf(c[1], got[c])]

\* Several tasks may copy at once, while the file is replaced under them: still all
\* callers of a process get one connection, to one build's whole store, and it stays
\* what it is until the process ends.
ContractSpec == Contract!Spec
=============================================================================
