---------------------- MODULE CredentialStorageProofs ----------------------
(***************************************************************************)
(* Proofs about CredentialStorage, for any servers and setups, whether the *)
(* keychain comes and goes or not, and for any number of crashes.          *)
(***************************************************************************)
EXTENDS CredentialStorage, TLAPS

Holding == {"saving", "refused", "writing"}

Clean == mishaps = {}
Calm == mishaps \subseteq {"flapped"}

\* A server that saves has loaded something.
HoldersHold == \A s \in Servers : pc[s] \in Holding => cached[s] # None

\* As long as nothing got into the keychain, all that is in anybody's hand is the
\* newest credential, and a setup that writes has the file for itself.
FileDiscipline ==
    Calm /\ keychain = None =>
        /\ \A s \in Servers : pc[s] \in Holding => cached[s] = newest
        /\ \A u \in Setups : pc[u] = "writing" =>
              /\ \A s \in Servers : pc[s] \notin Holding
              /\ \A v \in Setups \ {u} : pc[v] # "writing"
              /\ file = "Empty"
        /\ file = newest \/ file = "Empty"
        /\ file = "Empty" => newest = None \/ \E p \in Processes : pc[p] = "writing"

\* Once something got there, and nothing went wrong, nobody touches the file.
KeychainDiscipline ==
    Clean /\ keychain # None =>
        /\ keychain = newest
        /\ \A s \in Servers : pc[s] = "saving" => cached[s] = newest

\* A keychain that never came or went is used always or never.
Steady ==
    Clean =>
        /\ available => /\ file = "Empty"
                        /\ keychain = None => newest = None
                        /\ \A p \in Processes : pc[p] \notin {"refused", "writing"}
        /\ ~available => keychain = None

IInv == TypeOK /\ HoldersHold /\ FileDiscipline /\ KeychainDiscipline /\ Steady

-----------------------------------------------------------------------------
LEMMA Moved ==
    ASSUME TypeOK, NEW p \in Processes, NEW from, NEW to, Moves(p, from, to)
    PROVE  /\ pc[p] = from
           /\ pc'[p] = to
           /\ \A q \in Processes \ {p} : pc'[q] = pc[q]
  BY DEF TypeOK, Moves

LEMMA Cached ==
    ASSUME TypeOK, NEW s \in Servers, NEW value, Loaded(s, value)
    PROVE  /\ cached'[s] = value
           /\ \A q \in Servers \ {s} : cached'[q] = cached[q]
  BY DEF TypeOK, Loaded

\* Every credential a process saves is one some setup made.
LEMMA ValueIsCredential ==
    ASSUME TypeOK, HoldersHold, NEW p \in Processes, pc[p] \in Holding
    PROVE  Value(p) \in Setups
  BY StorageAssumption DEF TypeOK, HoldersHold, Value, Processes

LEMMA AfterIsType == \A p \in Processes : After(p) \in {"idle", "done"}
  BY DEF After

LEMMA RacedIsMishap == \A p \in Processes : Raced(p) \subseteq Mishaps
  BY DEF Raced, Mishaps

LEMMA CutOffMoved ==
    ASSUME TypeOK, NEW p \in Processes, CutOff(p)
    PROVE  /\ pc'[p] = After(p)
           /\ \A q \in Processes \ {p} : pc'[q] = pc[q]
           /\ pc[p] # "writing" => file' = file /\ mishaps' = mishaps
           /\ pc[p] = "writing" => "torn" \in mishaps'
           /\ file' \in {file, "Garbage"}
           /\ mishaps \subseteq mishaps' /\ mishaps' \subseteq Mishaps
  BY Moved DEF CutOff, TypeOK, Mishaps

-----------------------------------------------------------------------------
LEMMA InitIInv == Init => IInv
<1> SUFFICES ASSUME Init PROVE IInv
  OBVIOUS
<1>1. TypeOK
  BY StorageAssumption DEF Init, TypeOK, Unreadable, Mishaps
<1>2. \A s \in Servers : pc[s] = "idle"
  BY StorageAssumption DEF Init, Processes
<1>3. \A u \in Setups : pc[u] = "saving"
  BY DEF Init, Processes
<1>4. QED
  BY <1>1, <1>2, <1>3
  DEF Init, IInv, HoldersHold, Holding, FileDiscipline, KeychainDiscipline, Steady, Processes

\* The types, which every step keeps.
LEMMA NextTypeOK == TypeOK /\ HoldersHold /\ [Next]_vars => TypeOK'
<1> SUFFICES ASSUME TypeOK, HoldersHold, [Next]_vars PROVE TypeOK'
  OBVIOUS
<1> USE AfterIsType, RacedIsMishap
<1>1. ASSUME NEW s \in Servers, Load(s) PROVE TypeOK'
  <2>1. s \in Processes
    BY DEF Processes
  <2>2. CASE KeychainLoad(s)
    BY <2>1, <2>2 DEF KeychainLoad, TypeOK, Moves, Loaded, store
  <2>3. CASE KeychainMiss(s)
    BY <2>1, <2>3 DEF KeychainMiss, TypeOK, Moves, store
  <2>4. CASE FileLoad(s)
    BY <2>1, <2>4 DEF FileLoad, TypeOK, Moves, Loaded, store
  <2>5. CASE FileMiss(s)
    BY <2>1, <2>5 DEF FileMiss, TypeOK, Moves, store
  <2>6. QED
    BY <1>1, <2>2, <2>3, <2>4, <2>5 DEF Load
<1>2. ASSUME NEW p \in Processes, Save(p) PROVE TypeOK'
  <2>1. CASE KeychainSave(p)
    <3>1. Value(p) \in Setups
      BY <2>1, ValueIsCredential DEF KeychainSave, Moves, Holding
    <3>2. QED
      BY <2>1, <3>1 DEF KeychainSave, TypeOK, Moves, Recorded
  <2>2. CASE KeychainRefuses(p)
    BY <2>2 DEF KeychainRefuses, TypeOK, Moves, store
  <2>3. CASE FileTruncate(p)
    BY <2>3 DEF FileTruncate, TypeOK, Moves, Unreadable
  <2>4. CASE FileWrite(p)
    <3>1. Value(p) \in Setups
      BY <2>4, ValueIsCredential DEF FileWrite, Moves, Holding
    <3>2. file' \in Setups \cup Unreadable
      BY <2>4, <3>1 DEF FileWrite, Overlay, Unreadable
    <3>3. QED
      BY <2>4, <3>2 DEF FileWrite, TypeOK, Moves, Recorded
  <2>5. QED
    BY <1>2, <2>1, <2>2, <2>3, <2>4 DEF Save
<1>3. ASSUME NEW p \in Processes, FileFails(p) PROVE TypeOK'
  <2>1. pc' \in [Processes -> {"idle", "loading", "saving", "refused", "writing", "done"}]
    BY <1>3 DEF FileFails, CutOff, TypeOK, Moves
  <2>2. file' \in {file, "Garbage"} /\ mishaps' \subseteq Mishaps
    BY <1>3, CutOffMoved DEF FileFails
  <2>3. QED
    BY <1>3, <2>1, <2>2 DEF FileFails, TypeOK, Unreadable
<1>4. ASSUME NEW p \in Processes, Crash(p) PROVE TypeOK'
  <2>1. pc' \in [Processes -> {"idle", "loading", "saving", "refused", "writing", "done"}]
    BY <1>4 DEF Crash, CutOff, TypeOK, Moves
  <2>2. file' \in {file, "Garbage"} /\ mishaps' \subseteq Mishaps
    BY <1>4, CutOffMoved DEF Crash
  <2>3. crashes' \in 0..MaxCrashes
    BY <1>4, StorageAssumption DEF Crash, TypeOK
  <2>4. cached' \in [Servers -> Setups \cup {None}]
    BY <1>4 DEF Crash, TypeOK
  <2>5. QED
    BY <1>4, <2>1, <2>2, <2>3, <2>4 DEF Crash, TypeOK, Unreadable
<1>5. CASE Flap
  BY <1>5 DEF Flap, TypeOK, Mishaps, store
<1>6. CASE UNCHANGED vars
  BY <1>6 DEF vars, store, TypeOK
<1>7. QED
  BY <1>1, <1>2, <1>3, <1>4, <1>5, <1>6 DEF Next

-----------------------------------------------------------------------------
(* What the steps do to the four parts of IInv beside the types.            *)

Parts == HoldersHold /\ FileDiscipline /\ KeychainDiscipline /\ Steady

\* A process that stops, or has nothing in hand and goes on so, and leaves all it
\* shares as it was, disturbs nothing.
LEMMA LeavingKeepsParts ==
    ASSUME IInv, NEW p \in Processes, pc[p] # "writing", pc'[p] \notin Holding,
           \A q \in Processes \ {p} : pc'[q] = pc[q],
           \A s \in Servers \ {p} : cached'[s] = cached[s],
           UNCHANGED <<available, store, newest, mishaps>>
    PROVE  Parts'
<1> USE DEF IInv, Processes, Holding, store
<1>1. HoldersHold'
  BY DEF HoldersHold
<1>2. FileDiscipline'
  BY DEF FileDiscipline, Calm
<1>3. KeychainDiscipline'
  BY DEF KeychainDiscipline, Clean
<1>4. Steady'
  BY DEF Steady, Clean
<1>5. QED
  BY <1>1, <1>2, <1>3, <1>4 DEF Parts

LEMMA KeychainLoadKeepsParts ==
    ASSUME IInv, NEW s \in Servers, KeychainLoad(s)
    PROVE  Parts'
<1> USE DEF IInv, Processes
<1>1. /\ pc'[s] = "saving"
      /\ \A q \in Processes \ {s} : pc'[q] = pc[q]
      /\ cached'[s] = keychain
      /\ \A q \in Servers \ {s} : cached'[q] = cached[q]
  BY Moved, Cached DEF KeychainLoad
<1>2. keychain # None /\ UNCHANGED <<available, keychain, file, newest, mishaps>>
  BY DEF KeychainLoad, store
<1>3. HoldersHold'
  BY <1>1, <1>2 DEF HoldersHold
<1>4. FileDiscipline'
  BY <1>2 DEF FileDiscipline
<1>5. KeychainDiscipline'
  BY <1>1, <1>2 DEF KeychainDiscipline, Clean
<1>6. Steady'
  BY <1>1, <1>2 DEF Steady, Clean
<1>7. QED
  BY <1>3, <1>4, <1>5, <1>6 DEF Parts

\* What a server finds in the file is the newest credential, in a calm history
\* with nothing in the keychain; in a clean one there is nothing in both.
LEMMA FoundIsNewest ==
    ASSUME IInv, file \in Setups
    PROVE  /\ Calm /\ keychain = None => file = newest
           /\ Clean => keychain = None
<1>1. file # "Empty"
  BY StorageAssumption DEF Unreadable
<1>2. QED
  BY <1>1 DEF IInv, FileDiscipline, Steady

LEMMA FileLoadKeepsParts ==
    ASSUME IInv, NEW s \in Servers, FileLoad(s)
    PROVE  Parts'
<1> USE DEF IInv, Processes
<1>1. /\ pc[s] = "loading"
      /\ pc'[s] = "saving"
      /\ \A q \in Processes \ {s} : pc'[q] = pc[q]
      /\ cached'[s] = file
      /\ \A q \in Servers \ {s} : cached'[q] = cached[q]
  BY Moved, Cached DEF FileLoad
<1>2. file \in Setups /\ UNCHANGED <<available, keychain, file, newest, mishaps>>
  BY DEF FileLoad, store
<1>3. file # None /\ file # "Empty"
  BY <1>2, StorageAssumption DEF Unreadable
<1>4. HoldersHold'
  BY <1>1, <1>3 DEF HoldersHold
<1>5. FileDiscipline'
  BY <1>1, <1>2, <1>3 DEF FileDiscipline, Calm
<1>6. KeychainDiscipline'
  BY <1>2, FoundIsNewest DEF KeychainDiscipline, Clean
<1>7. Steady'
  BY <1>1, <1>2 DEF Steady, Clean
<1>8. QED
  BY <1>4, <1>5, <1>6, <1>7 DEF Parts

LEMMA KeychainSaveKeepsParts ==
    ASSUME IInv, NEW p \in Processes, KeychainSave(p)
    PROVE  Parts'
<1> USE DEF IInv, Processes
<1>1. /\ pc[p] = "saving"
      /\ pc'[p] = After(p)
      /\ \A q \in Processes \ {p} : pc'[q] = pc[q]
  BY Moved DEF KeychainSave
<1>2. /\ available /\ UNCHANGED <<available, file, cached>>
      /\ keychain' = Value(p)
      /\ newest' = IF p \in Setups THEN p ELSE newest
      /\ mishaps' = mishaps \cup Raced(p)
  BY DEF KeychainSave, Recorded
<1>3. keychain' # None
  BY <1>1, <1>2, ValueIsCredential, StorageAssumption DEF Holding
<1>4. HoldersHold'
  BY <1>1, <1>2, AfterIsType DEF HoldersHold, Holding
<1>5. FileDiscipline'
  BY <1>3 DEF FileDiscipline
<1>6. KeychainDiscipline'
  <2> SUFFICES ASSUME Clean'
               PROVE  keychain' = newest'
                      /\ \A s \in Servers : pc'[s] = "saving" => cached'[s] = newest'
    BY DEF KeychainDiscipline
  <2>1. Clean /\ Raced(p) = {}
    BY <1>2 DEF Clean
  <2>2. CASE p \in Setups
    <3>1. Holders \ {p} = {}
      BY <2>1, <2>2 DEF Raced
    <3>2. \A s \in Servers : pc[s] # "saving" /\ s # p
      BY <2>2, <3>1, StorageAssumption DEF Holders
    <3>3. QED
      BY <1>1, <1>2, <2>2, <3>2 DEF Value
  <2>3. CASE p \in Servers
    <3>1. p \notin Setups
      BY <2>3, StorageAssumption
    <3>2. keychain' = cached[p] /\ newest' = newest
      BY <1>2, <3>1 DEF Value
    <3>3. \A s \in Servers : pc[s] = "saving" => cached[s] = newest
      BY <2>1 DEF FileDiscipline, KeychainDiscipline, Clean, Calm, Holding
    <3>4. QED
      BY <1>1, <1>2, <2>3, <3>2, <3>3, AfterIsType
  <2>4. QED
    BY <2>2, <2>3
<1>7. Steady'
  BY <1>1, <1>2, <1>3, AfterIsType DEF Steady, Clean
<1>8. QED
  BY <1>4, <1>5, <1>6, <1>7 DEF Parts

LEMMA KeychainRefusesKeepsParts ==
    ASSUME IInv, NEW p \in Processes, KeychainRefuses(p)
    PROVE  Parts'
<1> USE DEF IInv, Processes
<1>1. /\ pc[p] = "saving"
      /\ pc'[p] = "refused"
      /\ \A q \in Processes \ {p} : pc'[q] = pc[q]
  BY Moved DEF KeychainRefuses
<1>2. ~available /\ UNCHANGED <<available, keychain, file, cached, newest, mishaps>>
  BY DEF KeychainRefuses, store
<1>3. HoldersHold'
  BY <1>1, <1>2 DEF HoldersHold, Holding
<1>4. FileDiscipline'
  BY <1>1, <1>2 DEF FileDiscipline, Calm, Holding
<1>5. KeychainDiscipline'
  BY <1>2 DEF KeychainDiscipline, Steady, Clean
<1>6. Steady'
  BY <1>2 DEF Steady, Clean
<1>7. QED
  BY <1>3, <1>4, <1>5, <1>6 DEF Parts

LEMMA FileTruncateKeepsParts ==
    ASSUME IInv, NEW p \in Processes, FileTruncate(p)
    PROVE  Parts'
<1> USE DEF IInv, Processes
<1>1. /\ pc[p] = "refused"
      /\ pc'[p] = "writing"
      /\ \A q \in Processes \ {p} : pc'[q] = pc[q]
  BY Moved DEF FileTruncate
<1>2. /\ file' = "Empty"
      /\ UNCHANGED <<available, keychain, cached, newest>>
      /\ mishaps' = mishaps \cup Raced(p)
  BY DEF FileTruncate
<1>3. HoldersHold'
  BY <1>1, <1>2 DEF HoldersHold, Holding
<1>4. FileDiscipline'
  <2> SUFFICES ASSUME Calm', keychain = None
               PROVE  /\ \A s \in Servers : pc'[s] \in Holding => cached[s] = newest
                      /\ \A u \in Setups : pc'[u] = "writing" =>
                            /\ \A s \in Servers : pc'[s] \notin Holding
                            /\ \A v \in Setups \ {u} : pc'[v] # "writing"
    BY <1>1, <1>2 DEF FileDiscipline
  <2>1. Calm /\ Raced(p) = {}
    BY <1>2 DEF Calm, Raced
  <2>2. \A s \in Servers : pc'[s] \in Holding <=> pc[s] \in Holding
    BY <1>1 DEF Holding
  <2>3. ASSUME NEW u \in Setups, pc'[u] = "writing"
        PROVE  /\ \A s \in Servers : pc'[s] \notin Holding
               /\ \A v \in Setups \ {u} : pc'[v] # "writing"
    <3>1. CASE u = p
      <4>1. Holders \ {p} = {}
        BY <2>1, <3>1 DEF Raced
      <4>2. \A s \in Servers : s # p
        BY <3>1, StorageAssumption
      <4>3. QED
        BY <1>1, <3>1, <4>1, <4>2 DEF Holders, Holding
    <3>2. CASE u # p
      <4>1. pc[u] = "writing"
        BY <1>1, <2>3, <3>2
      <4>2. /\ \A s \in Servers : pc[s] \notin Holding
            /\ \A v \in Setups \ {u} : pc[v] # "writing"
        BY <2>1, <4>1 DEF FileDiscipline
      <4>3. p \in Setups /\ u \in Holders
        BY <1>1, <4>1, <4>2 DEF Holding, Holders
      <4>4. QED
        BY <2>1, <3>2, <4>3 DEF Raced
    <3>3. QED
      BY <3>1, <3>2
  <2>4. QED
    BY <2>1, <2>2, <2>3 DEF FileDiscipline
<1>5. Clean' => Clean /\ ~available
  BY <1>1, <1>2 DEF Steady, Clean
<1>6. KeychainDiscipline'
  BY <1>2, <1>5 DEF KeychainDiscipline, Steady
<1>7. Steady'
  BY <1>2, <1>5 DEF Steady
<1>8. QED
  BY <1>3, <1>4, <1>6, <1>7 DEF Parts

LEMMA FileWriteKeepsParts ==
    ASSUME IInv, NEW p \in Processes, FileWrite(p)
    PROVE  Parts'
<1> USE DEF IInv, Processes
<1>1. /\ pc[p] = "writing"
      /\ pc'[p] = After(p)
      /\ \A q \in Processes \ {p} : pc'[q] = pc[q]
  BY Moved DEF FileWrite
<1>2. /\ file' \in Overlay(Value(p))
      /\ UNCHANGED <<available, keychain, cached, mishaps>>
      /\ newest' = IF p \in Setups THEN p ELSE newest
  BY DEF FileWrite, Recorded
<1>3. HoldersHold'
  BY <1>1, <1>2, AfterIsType DEF HoldersHold, Holding
<1>4. FileDiscipline'
  <2> SUFFICES ASSUME Calm, keychain = None
               PROVE  /\ \A s \in Servers : pc'[s] \in Holding => cached[s] = newest'
                      /\ \A u \in Setups : pc'[u] # "writing"
                      /\ file' = newest' /\ file' # "Empty"
    BY <1>2 DEF FileDiscipline, Calm
  <2>1. Value(p) # "Empty"
    BY <1>1, ValueIsCredential, StorageAssumption DEF Holding, Unreadable
  <2>2. CASE p \in Setups
    <3>1. /\ \A s \in Servers : pc[s] \notin Holding
          /\ \A v \in Setups \ {p} : pc[v] # "writing"
          /\ file = "Empty"
      BY <1>1, <2>2 DEF FileDiscipline
    <3>2. file' = p /\ newest' = p
      BY <1>2, <2>2, <3>1 DEF Overlay, Value
    <3>3. \A s \in Servers : s # p
      BY <2>2, StorageAssumption
    <3>4. QED
      BY <1>1, <2>1, <2>2, <3>1, <3>2, <3>3, AfterIsType DEF Value
  <2>3. CASE p \in Servers
    <3>1. p \notin Setups /\ newest' = newest
      BY <1>2, <2>3, StorageAssumption
    <3>2. \A s \in Servers : pc[s] \in Holding => cached[s] = newest
      BY DEF FileDiscipline
    <3>3. Value(p) = newest
      BY <1>1, <2>3, <3>1, <3>2 DEF Value, Holding
    <3>4. \A u \in Setups : pc[u] # "writing"
      BY <1>1, <2>3 DEF FileDiscipline, Holding
    <3>5. file' = newest
      BY <1>2, <3>3 DEF FileDiscipline, Overlay
    <3>6. QED
      BY <1>1, <2>1, <3>1, <3>2, <3>3, <3>4, <3>5, AfterIsType DEF Holding
  <2>4. QED
    BY <2>2, <2>3
<1>5. Clean' => Clean /\ ~available
  BY <1>1, <1>2 DEF Steady, Clean
<1>6. KeychainDiscipline'
  BY <1>2, <1>5 DEF KeychainDiscipline, Steady
<1>7. Steady'
  BY <1>2, <1>5 DEF Steady
<1>8. QED
  BY <1>3, <1>4, <1>6, <1>7 DEF Parts

\* A save that ends early and a process that crashes: either nothing is disturbed
\* or it is marked as torn.
LEMMA CutOffKeepsParts ==
    ASSUME IInv, NEW p \in Processes, CutOff(p),
           \A s \in Servers \ {p} : cached'[s] = cached[s],
           UNCHANGED <<available, keychain, newest>>
    PROVE  Parts'
<1> USE DEF IInv, Processes
<1>1. /\ pc'[p] \notin Holding
      /\ \A q \in Processes \ {p} : pc'[q] = pc[q]
  BY CutOffMoved, AfterIsType DEF Holding
<1>2. CASE pc[p] = "writing"
  <2>1. ~Calm' /\ ~Clean'
    BY <1>2, CutOffMoved DEF Calm, Clean
  <2>2. HoldersHold'
    BY <1>1 DEF HoldersHold
  <2>3. QED
    BY <2>1, <2>2 DEF Parts, FileDiscipline, KeychainDiscipline, Steady
<1>3. CASE pc[p] # "writing"
  BY <1>1, <1>3, CutOffMoved, LeavingKeepsParts DEF store
<1>4. QED
  BY <1>2, <1>3

LEMMA NextKeepsParts == IInv /\ [Next]_vars => Parts'
<1> SUFFICES ASSUME IInv, [Next]_vars PROVE Parts'
  OBVIOUS
<1>1. ASSUME NEW s \in Servers, Load(s) PROVE Parts'
  <2>1. CASE KeychainLoad(s)
    BY <2>1, KeychainLoadKeepsParts
  <2>2. CASE KeychainMiss(s)
    <3>1. s \in Processes /\ TypeOK
      BY DEF Processes, IInv
    <3>2. /\ pc[s] = "idle" /\ pc'[s] = "loading"
          /\ \A q \in Processes \ {s} : pc'[q] = pc[q]
      BY <2>2, <3>1, Moved DEF KeychainMiss
    <3>3. UNCHANGED <<available, store, cached, newest, mishaps>>
      BY <2>2 DEF KeychainMiss
    <3>4. QED
      BY <3>1, <3>2, <3>3, LeavingKeepsParts DEF Holding
  <2>3. CASE FileLoad(s)
    BY <2>3, FileLoadKeepsParts
  <2>4. CASE FileMiss(s)
    <3>1. s \in Processes /\ TypeOK
      BY DEF Processes, IInv
    <3>2. /\ pc[s] = "loading" /\ pc'[s] = "idle"
          /\ \A q \in Processes \ {s} : pc'[q] = pc[q]
      BY <2>4, <3>1, Moved DEF FileMiss
    <3>3. UNCHANGED <<available, store, cached, newest, mishaps>>
      BY <2>4 DEF FileMiss
    <3>4. QED
      BY <3>1, <3>2, <3>3, LeavingKeepsParts DEF Holding
  <2>5. QED
    BY <1>1, <2>1, <2>2, <2>3, <2>4 DEF Load
<1>2. ASSUME NEW p \in Processes, Save(p) PROVE Parts'
  BY <1>2, KeychainSaveKeepsParts, KeychainRefusesKeepsParts, FileTruncateKeepsParts,
     FileWriteKeepsParts
  DEF Save
<1>3. ASSUME NEW p \in Processes, FileFails(p) PROVE Parts'
  BY <1>3, CutOffKeepsParts DEF FileFails
<1>4. ASSUME NEW p \in Processes, Crash(p) PROVE Parts'
  BY <1>4, CutOffKeepsParts DEF Crash
<1>5. CASE Flap
  <2>1. ~Clean' /\ (Calm' => Calm)
    BY <1>5 DEF Flap, Clean, Calm
  <2>2. UNCHANGED <<keychain, file, pc, cached, newest>>
    BY <1>5 DEF Flap, store
  <2>3. HoldersHold' /\ FileDiscipline'
    BY <2>1, <2>2 DEF IInv, HoldersHold, FileDiscipline
  <2>4. QED
    BY <2>1, <2>3 DEF Parts, KeychainDiscipline, Steady
<1>6. CASE UNCHANGED vars
  BY <1>6
  DEF vars, store, IInv, Parts, HoldersHold, FileDiscipline, KeychainDiscipline, Steady,
      Calm, Clean
<1>7. QED
  BY <1>1, <1>2, <1>3, <1>4, <1>5, <1>6 DEF Next

-----------------------------------------------------------------------------
LEMMA SpecIInv == Spec => []IInv
<1>1. IInv /\ [Next]_vars => IInv'
  BY NextTypeOK, NextKeepsParts DEF IInv, Parts
<1>2. QED
  BY InitIInv, <1>1, PTL DEF Spec

\* The storage's variables keep their types; in particular no server ever holds
\* the unreadable contents of a file for a credential.
THEOREM TypeCorrect == Spec => []TypeOK
<1>1. IInv => TypeOK
  BY DEF IInv
<1>2. QED
  BY SpecIInv, <1>1, PTL

\* credentials() and the setup wizard: in a clean history what is stored is what
\* the last setup saved, whatever servers write back and crash meanwhile.
THEOREM NewestStaysStored == Spec => []NewestIsStored
<1>1. IInv => NewestIsStored
  BY DEF IInv, FileDiscipline, KeychainDiscipline, Steady, NewestIsStored, Stored,
         Clean, Calm
<1>2. QED
  BY SpecIInv, <1>1, PTL

\* save_credential and its fallback: the keychain alone, by coming and going, never
\* costs every credential that was saved.
THEOREM SomethingIsLeft == Spec => []NeverAllLost
<1>1. IInv => NeverAllLost
  <2> SUFFICES ASSUME IInv, Calm, keychain = None, newest # None
               PROVE  file \in Setups \/ \E p \in Processes : pc[p] = "writing"
    BY DEF NeverAllLost, Calm
  <2>1. newest \in Setups
    BY DEF IInv, TypeOK
  <2>2. QED
    BY <2>1 DEF IInv, FileDiscipline
<1>2. QED
  BY SpecIInv, <1>1, PTL

\* load_credential: in a clean history it yields the newest credential or none.
THEOREM LoadsAreNewest == Spec => LoadsNewest
<1> DEFINE LoadsNewestStep ==
      \A s \in Servers :
          cached'[s] # cached[s] /\ cached'[s] # None /\ mishaps = {}
             => cached'[s] = newest
<1>1. IInv /\ [Next]_vars => LoadsNewestStep
  <2> SUFFICES ASSUME IInv, [Next]_vars, NEW s \in Servers,
                      cached'[s] # cached[s], cached'[s] # None, mishaps = {}
               PROVE  cached'[s] = newest
    OBVIOUS
  <2>1. TypeOK /\ Clean /\ Calm
    BY DEF IInv, Clean, Calm
  <2>2. ASSUME NEW q \in Servers, KeychainLoad(q) PROVE cached'[s] = newest
    <3>1. cached'[q] = keychain /\ \A r \in Servers \ {q} : cached'[r] = cached[r]
      BY <2>1, <2>2, Cached DEF KeychainLoad
    <3>2. keychain = newest
      BY <2>1, <2>2 DEF IInv, KeychainDiscipline, KeychainLoad
    <3>3. QED
      BY <3>1, <3>2
  <2>3. ASSUME NEW q \in Servers, FileLoad(q) PROVE cached'[s] = newest
    <3>1. cached'[q] = file /\ \A r \in Servers \ {q} : cached'[r] = cached[r]
      BY <2>1, <2>3, Cached DEF FileLoad
    <3>2. file = newest
      BY <2>1, <2>3, FoundIsNewest DEF FileLoad
    <3>3. QED
      BY <3>1, <3>2
  <2>4. ASSUME NEW p \in Processes, Crash(p) PROVE cached'[s] \in {cached[s], None}
    BY <2>4 DEF Crash
  <2>5. CASE UNCHANGED cached
    BY <2>5
  <2>6. QED
    BY <2>2, <2>3, <2>4, <2>5
    DEF Next, Load, Save, KeychainMiss, FileMiss, KeychainSave, KeychainRefuses,
        FileTruncate, FileWrite, FileFails, Flap, vars
<1>2. IInv /\ [Next]_vars => [LoadsNewestStep]_vars
  BY <1>1
<1>3. QED
  BY SpecIInv, <1>2, PTL DEF Spec, LoadsNewest
=============================================================================
