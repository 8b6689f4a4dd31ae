------------------------- MODULE PopulateEmbeddings -------------------------
(***************************************************************************)
(* bin/populate_embeddings.rs: a command that rewrites the committed,      *)
(* compressed stores (.db.zst) in place, by way of an uncompressed working *)
(* copy (.db) which git ignores.  It is run now and again, may be stopped  *)
(* at any step, and is then run again; between two runs new stores may be  *)
(* checked out.  Two runs at the same time are not modelled.               *)
(*                                                                         *)
(* Of a store the model keeps which release of it this is and the          *)
(* operations that have an embedding.                                      *)
(***************************************************************************)
EXTENDS Naturals

CONSTANTS Stores,
          Operations,   \* the rows of `endpoints`
          None,         \* no store, no operation
          Missing,      \* there is no such file
          Broken,       \* the file is cut off
          MaxReleases,  \* bound on the releases of a store
          MaxMishaps    \* bound on crashes and failed embeddings

Store == [release : 0..MaxReleases, embedded : SUBSET Operations]

ASSUME PopulateAssumption ==
    /\ None \notin Stores \cup Operations
    /\ Missing # Broken
    /\ Missing \notin Store /\ Broken \notin Store
    /\ MaxReleases \in Nat
    /\ MaxMishaps \in Nat

Contents == Store \cup {Missing, Broken}

VARIABLES
    raw,       \* the .db file of each store
    zst,       \* its .db.zst file
    pc,
    todo,      \* targets not yet done
    store,     \* the target at hand
    rows,      \* its operations not yet embedded
    row,       \* the operation whose old embedding was deleted
    mismatch,  \* had_mismatch
    result,    \* of the last run, or "running"
    targets,   \* history: what the last run was to populate
    released,  \* history: the latest release of each store
    shadowed,  \* history: stores released while their .db file was there
    mishaps

files == <<raw, zst>>
run == <<todo, store, rows, row, mismatch, result, targets>>
vars == <<files, pc, run, released, shadowed, mishaps>>

TypeOK ==
    /\ raw \in [Stores -> Contents]
    /\ zst \in [Stores -> Contents]
    /\ pc \in {"ended", "next", "writing", "opening", "embedding", "inserting",
               "checking", "compressing", "removing"}
    /\ todo \subseteq Stores
    /\ store \in Stores \cup {None}
    /\ rows \subseteq Operations
    /\ row \in Operations \cup {None}
    /\ mismatch \in BOOLEAN
    /\ result \in {"none", "running", "ok", "failed"}
    /\ targets \subseteq Stores
    /\ released \in [Stores -> 0..MaxReleases]
    /\ shadowed \subseteq Stores
    /\ mishaps \in 0..MaxMishaps

Complete(contents) == contents \notin {Missing, Broken}

\* The stores as committed, each with all its embeddings or as it was generated.
Init ==
    /\ raw = [s \in Stores |-> Missing]
    /\ zst \in [Stores -> [release : {0}, embedded : {{}, Operations}]]
    /\ pc = "ended"
    /\ todo = {}
    /\ store = None
    /\ rows = {}
    /\ row = None
    /\ mismatch = FALSE
    /\ result = "none"
    /\ targets = {}
    /\ released = [s \in Stores |-> 0]
    /\ shadowed = {}
    /\ mishaps = 0

Goes(from, to) == pc = from /\ pc' = to

Unchanged == UNCHANGED <<released, shadowed>>

\* targets(): every store, or the one that is named.
Start(ts) ==
    /\ Goes("ended", "next")
    /\ todo' = ts
    /\ targets' = ts
    /\ store' = None
    /\ rows' = {}
    /\ row' = None
    /\ mismatch' = FALSE
    /\ result' = "running"
    /\ UNCHANGED <<files, mishaps>> /\ Unchanged

\* An error that `?` carries out of main: the files stay as they are.
Fail ==
    /\ pc' = "ended"
    /\ result' = "failed"
    /\ UNCHANGED <<files, todo, store, rows, row, mismatch, targets>>

-----------------------------------------------------------------------------
(* ensure_raw_db                                                            *)

\* Mutant: the working copies share one .zst file.
ZstSiblingShared(s) == CHOOSE t \in Stores : TRUE

\* zst_sibling: the .zst file of a .db file.
ZstSibling(s) == s

\* Whatever the .db file holds, it is the working copy.
RawExists(s) ==
    /\ Goes("next", "opening")
    /\ s \in todo
    /\ raw[s] # Missing
    /\ store' = s
    /\ UNCHANGED <<files, todo, rows, row, mismatch, result, targets, mishaps>>
    /\ Unchanged

\* The first half of fs::write, once the .zst file has been decompressed: with neither
\* file to be had the run would fail, which OneCompleteCopy excludes.
DecompressZst(s) ==
    /\ Goes("next", "writing")
    /\ s \in todo
    /\ raw[s] = Missing
    /\ Complete(zst[ZstSibling(s)])
    /\ store' = s
    /\ raw' = [raw EXCEPT ![s] = Broken]
    /\ UNCHANGED <<zst, todo, rows, row, mismatch, result, targets, mishaps>>
    /\ Unchanged

WriteRaw ==
    /\ Goes("writing", "opening")
    /\ raw' = [raw EXCEPT ![store] = zst[ZstSibling(store)]]
    /\ UNCHANGED <<zst, run, mishaps>> /\ Unchanged

-----------------------------------------------------------------------------
(* populate_one: each statement is a transaction of its own.                *)

SelectRows ==
    /\ Goes("opening", "embedding")
    /\ Complete(raw[store])
    /\ rows' = Operations
    /\ UNCHANGED <<files, todo, store, row, mismatch, result, targets, mishaps>>
    /\ Unchanged

\* A cut off file is no database, an empty one has no table.
SelectFails ==
    /\ pc = "opening"
    /\ ~Complete(raw[store])
    /\ Fail
    /\ UNCHANGED mishaps /\ Unchanged

Embed(operations) == raw' = [raw EXCEPT ![store].embedded = operations]

\* Mutant: no delete, and the insert of a row that is there is an error.
InsertDuplicate(o) ==
    /\ pc = "embedding"
    /\ o \in rows
    /\ IF o \in raw[store].embedded
       THEN Fail
       ELSE /\ pc' = "inserting"
            /\ row' = o
            /\ UNCHANGED <<files, todo, store, rows, mismatch, result, targets>>
    /\ UNCHANGED mishaps /\ Unchanged

\* `delete.execute(..)`, once the new embedding has been computed.
DeleteRow(o) ==
    /\ Goes("embedding", "inserting")
    /\ o \in rows
    /\ row' = o
    /\ Embed(raw[store].embedded \ {o})
    /\ UNCHANGED <<zst, todo, store, rows, mismatch, result, targets, mishaps>>
    /\ Unchanged

\* Mutant: the row that is inserted has no id.
InsertRowWithoutId ==
    /\ Goes("inserting", "embedding")
    /\ Embed(raw[store].embedded \cup {None})
    /\ rows' = rows \ {row}
    /\ row' = None
    /\ UNCHANGED <<zst, todo, store, mismatch, result, targets, mishaps>>
    /\ Unchanged

\* `insert.execute(..)`
InsertRow ==
    /\ Goes("inserting", "embedding")
    /\ Embed(raw[store].embedded \cup {row})
    /\ rows' = rows \ {row}
    /\ row' = None
    /\ UNCHANGED <<zst, todo, store, mismatch, result, targets, mishaps>>
    /\ Unchanged

\* missing_operation_ids
Check ==
    /\ Goes("embedding", "checking")
    /\ rows = {}
    /\ mismatch' = (mismatch \/ raw[store].embedded # Operations)
    /\ UNCHANGED <<files, todo, store, rows, row, result, targets, mishaps>>
    /\ Unchanged

-----------------------------------------------------------------------------
(* recompress_and_remove_raw                                                *)

\* Mutant: the working copy is removed before the .zst file is written.
CreateZstAfterRemove ==
    /\ Goes("checking", "compressing")
    /\ raw' = [raw EXCEPT ![store] = Missing]
    /\ zst' = [zst EXCEPT ![store] = Broken]
    /\ UNCHANGED <<run, mishaps>> /\ Unchanged

\* File::create truncates the .zst file.
CreateZst ==
    /\ Goes("checking", "compressing")
    /\ zst' = [zst EXCEPT ![ZstSibling(store)] = Broken]
    /\ UNCHANGED <<raw, run, mishaps>> /\ Unchanged

WriteZst ==
    /\ Goes("compressing", "removing")
    /\ zst' = [zst EXCEPT ![ZstSibling(store)] = raw[store]]
    /\ UNCHANGED <<raw, run, mishaps>> /\ Unchanged

\* Mutant: the working copy is left behind.
KeepRaw ==
    /\ Goes("removing", "next")
    /\ todo' = todo \ {store}
    /\ store' = None
    /\ UNCHANGED <<files, rows, row, mismatch, result, targets, mishaps>>
    /\ Unchanged

RemoveRaw ==
    /\ Goes("removing", "next")
    /\ raw' = [raw EXCEPT ![store] = Missing]
    /\ todo' = todo \ {store}
    /\ store' = None
    /\ UNCHANGED <<zst, rows, row, mismatch, result, targets, mishaps>>
    /\ Unchanged

\* The end of main.
Finish ==
    /\ Goes("next", "ended")
    /\ todo = {}
    /\ result' = IF mismatch THEN "failed" ELSE "ok"
    /\ UNCHANGED <<files, todo, store, rows, row, mismatch, targets, mishaps>>
    /\ Unchanged

-----------------------------------------------------------------------------
Mishap == mishaps < MaxMishaps /\ mishaps' = mishaps + 1

\* Mutant: an operation that cannot be embedded is passed over.
EmbedSkips(o) ==
    /\ Mishap
    /\ pc = "embedding"
    /\ o \in rows
    /\ rows' = rows \ {o}
    /\ UNCHANGED <<files, pc, todo, store, row, mismatch, result, targets>>
    /\ Unchanged

\* The embedding of one operation fails: the whole run does.
EmbedFails(o) ==
    /\ Mishap
    /\ pc = "embedding"
    /\ o \in rows
    /\ Fail
    /\ Unchanged

\* The run is stopped between any two steps, or in the middle of a write.
Crash ==
    /\ Mishap
    /\ pc # "ended"
    /\ Fail
    /\ Unchanged

\* A new release of a store is checked out over the .zst file, not yet embedded.
\* Git does not see the .db file.
Release(s) ==
    /\ pc = "ended"
    /\ released[s] < MaxReleases
    /\ released' = [released EXCEPT ![s] = @ + 1]
    /\ zst' = [zst EXCEPT ![s] = [release |-> released[s] + 1, embedded |-> {}]]
    /\ shadowed' = shadowed \cup (IF raw[s] = Missing THEN {} ELSE {s})
    /\ result' = "none"
    /\ UNCHANGED <<raw, pc, todo, store, rows, row, mismatch, targets, mishaps>>

Step ==
    \/ \E s \in Stores : RawExists(s) \/ DecompressZst(s)
    \/ WriteRaw \/ SelectRows \/ SelectFails
    \/ \E o \in Operations : DeleteRow(o)
    \/ InsertRow \/ Check
    \/ CreateZst \/ WriteZst \/ RemoveRaw \/ Finish

Next ==
    \/ \E ts \in {Stores} \cup {{s} : s \in Stores} : Start(ts)
    \/ Step
    \/ \E o \in Operations : EmbedFails(o)
    \/ Crash
    \/ \E s \in Stores : Release(s)

Spec == Init /\ [][Next]_vars

\* A run goes on, and the command is run again.
Fairness == WF_vars(Step) /\ WF_vars(Start(Stores))

FairSpec == Spec /\ Fairness

-----------------------------------------------------------------------------
\* What a search of a store can find: it joins `semantic_endpoints` to `endpoints`.
Found(contents) == contents.embedded \cap Operations

\* Wherever a run is stopped, of every store one file is complete: the .zst file is
\* cut off only while the working copy it is made from is there.
OneCompleteCopy == \A s \in Stores : Complete(raw[s]) \/ Complete(zst[s])

\* A .zst file has all the embeddings or is as it was generated: a store some of
\* whose operations no search finds is never folded back, through any failures.
NeverHalfEmbedded ==
    \A s \in Stores : Complete(zst[s]) => Found(zst[s]) \in {{}, Operations}

\* A .zst file is never put back to an earlier release, unless the new one was
\* checked out next to a working copy that an earlier run had left behind.
ReleaseKept ==
    \A s \in Stores \ shadowed : Complete(zst[s]) => zst[s].release = released[s]

\* A run that reports success leaves every target embedded, and no working copy.
SuccessMeansPopulated ==
    result = "ok" =>
        \A s \in targets :
            /\ Complete(zst[s]) /\ Found(zst[s]) = Operations
            /\ raw[s] = Missing

\* A working copy cut off by a crash: every later run takes it for the store.
Stuck == \E s \in Stores : pc # "writing" /\ raw[s] = Broken

\* Whatever went wrong before, running the command again populates the stores in
\* the end; only a crash in the write of a working copy keeps it from doing so.
RerunsRecover == []<>(result = "ok" \/ Stuck)
=============================================================================
