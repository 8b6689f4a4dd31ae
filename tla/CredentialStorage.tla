-------------------------- MODULE CredentialStorage --------------------------
(***************************************************************************)
(* core/credential_storage.rs with its two users: AuthManager::credentials *)
(* of every running server, which loads the stored credential once and     *)
(* writes it back normalised, and the setup wizard, which saves a new one. *)
(* They are processes that share the OS keychain and the encrypted file    *)
(* without a lock; any of them may crash, and the keychain may come and go.*)
(*                                                                         *)
(* A credential is named by the setup that made it: its raw form and its   *)
(* normalised form are the same credential, of different lengths.          *)
(***************************************************************************)
EXTENDS Naturals

CONSTANTS Servers,
          Setups,
          None,
          KeychainMayChange,  \* whether the keychain's service may start or stop
          MaxCrashes          \* bound on the crashes

\* Contents of the file that read_store takes for no entry at all: it is missing
\* or empty, or it is no JSON.
Unreadable == {"Empty", "Garbage"}

ASSUME StorageAssumption ==
    /\ Servers \cap Setups = {}
    /\ Setups \cap (Unreadable \cup {None}) = {}
    /\ KeychainMayChange \in BOOLEAN
    /\ MaxCrashes \in Nat

Processes == Servers \cup Setups

Mishaps == {"flapped", "raced", "torn"}

VARIABLES
    available,  \* whether the keychain answers
    keychain,   \* its entry
    file,       \* credentials.enc
    pc,
    cached,     \* cached_credentials of each server
    crashes,
    newest,     \* history: the credential last saved in full by a setup
    mishaps     \* history: what has gone wrong around the storage

store == <<keychain, file>>
vars == <<available, keychain, file, pc, cached, crashes, newest, mishaps>>

TypeOK ==
    /\ available \in BOOLEAN
    /\ keychain \in Setups \cup {None}
    /\ file \in Setups \cup Unreadable
    /\ pc \in [Processes -> {"idle", "loading", "saving", "refused", "writing", "done"}]
    /\ cached \in [Servers -> Setups \cup {None}]
    /\ crashes \in 0..MaxCrashes
    /\ newest \in Setups \cup {None}
    /\ mishaps \subseteq Mishaps

Init ==
    /\ available \in BOOLEAN
    /\ keychain = None
    /\ file = "Empty"
    /\ pc = [p \in Processes |-> IF p \in Setups THEN "saving" ELSE "idle"]
    /\ cached = [s \in Servers |-> None]
    /\ crashes = 0
    /\ newest = None
    /\ mishaps = {}

Moves(p, from, to) == pc[p] = from /\ pc' = [pc EXCEPT ![p] = to]

-----------------------------------------------------------------------------
(* load_credential, called by credentials() of a server without a cache.    *)

\* What was loaded is cached before it is written back.
Loaded(s, value) == cached' = [cached EXCEPT ![s] = value]

\* `entry.get_password()`
KeychainLoad(s) ==
    /\ cached[s] = None
    /\ available /\ keychain # None
    /\ Moves(s, "idle", "saving")
    /\ Loaded(s, keychain)
    /\ UNCHANGED <<available, store, crashes, newest, mishaps>>

\* Mutant: only a missing entry leads on to the file, not a missing keychain.
KeychainMissStops(s) ==
    /\ cached[s] = None
    /\ ~(available /\ keychain # None)
    /\ Moves(s, "idle", IF available THEN "loading" ELSE "idle")
    /\ UNCHANGED <<available, store, cached, crashes, newest, mishaps>>

\* `Err(_) => load_from_file(account)`: no entry, or no keychain.
KeychainMiss(s) ==
    /\ cached[s] = None
    /\ ~(available /\ keychain # None)
    /\ Moves(s, "idle", "loading")
    /\ UNCHANGED <<available, store, cached, crashes, newest, mishaps>>

\* Mutant: an empty file is taken for a credential.
FileLoadUnchecked(s) ==
    /\ Moves(s, "loading", "saving")
    /\ Loaded(s, file)
    /\ UNCHANGED <<available, store, crashes, newest, mishaps>>

FileLoad(s) ==
    /\ file \in Setups
    /\ Moves(s, "loading", "saving")
    /\ Loaded(s, file)
    /\ UNCHANGED <<available, store, crashes, newest, mishaps>>

\* `Ok(None)`: this call fails with NoActiveCredentials; a later one asks again.
FileMiss(s) ==
    /\ file \in Unreadable
    /\ Moves(s, "loading", "idle")
    /\ UNCHANGED <<available, store, cached, crashes, newest, mishaps>>

-----------------------------------------------------------------------------
(* save_credential, called by a setup and by the write-back.                *)

Value(p) == IF p \in Setups THEN p ELSE cached[p]

After(p) == IF p \in Setups THEN "done" ELSE "idle"

Recorded(p) == newest' = IF p \in Setups THEN p ELSE newest

\* Processes with a credential in hand that they go on to save.
Holders == {s \in Servers : pc[s] \in {"saving", "refused", "writing"}}
           \cup {p \in Setups : pc[p] = "writing"}

\* A setup that reaches the storage while another process has one in hand.
Raced(p) == IF p \in Setups /\ Holders \ {p} # {} THEN {"raced"} ELSE {}

\* Mutant: an entry that is there already is left alone.
KeychainSaveKeepsFirst(p) ==
    /\ available
    /\ Moves(p, "saving", After(p))
    /\ keychain' = IF keychain = None THEN Value(p) ELSE keychain
    /\ Recorded(p)
    /\ mishaps' = mishaps \cup Raced(p)
    /\ UNCHANGED <<available, file, cached, crashes>>

\* `entry.set_password(value)`
KeychainSave(p) ==
    /\ available
    /\ Moves(p, "saving", After(p))
    /\ keychain' = Value(p)
    /\ Recorded(p)
    /\ mishaps' = mishaps \cup Raced(p)
    /\ UNCHANGED <<available, file, cached, crashes>>

\* Mutant: an entry that is there already is an error, too.
KeychainRefusesDuplicates(p) ==
    /\ ~available \/ keychain # None
    /\ Moves(p, "saving", "refused")
    /\ UNCHANGED <<available, store, cached, crashes, newest, mishaps>>

\* Its failure, after which save_to_file is called whatever it was.
KeychainRefuses(p) ==
    /\ ~available
    /\ Moves(p, "saving", "refused")
    /\ UNCHANGED <<available, store, cached, crashes, newest, mishaps>>

\* fs::write, first half: the file is opened and truncated.
FileTruncate(p) ==
    /\ Moves(p, "refused", "writing")
    /\ file' = "Empty"
    /\ mishaps' = mishaps \cup Raced(p)
    /\ UNCHANGED <<available, keychain, cached, crashes, newest>>

\* What writing from the start of the file leaves: over a longer content of
\* another process the tail of that content stays, and the whole is no JSON.
Overlay(value) == IF file \in {"Empty", value} THEN {value} ELSE {value, "Garbage"}

\* Mutant: the map is written without the entry.
FileWriteLost(p) ==
    /\ Moves(p, "writing", After(p))
    /\ Recorded(p)
    /\ UNCHANGED <<available, store, cached, crashes, mishaps>>

\* fs::write, second half.  The permissions set after it change no content.
FileWrite(p) ==
    /\ Moves(p, "writing", After(p))
    /\ file' \in Overlay(Value(p))
    /\ Recorded(p)
    /\ UNCHANGED <<available, keychain, cached, crashes, mishaps>>

\* A save that ends here.  Once it has truncated the file it leaves it so, or with
\* a part of what it was to write.
CutOff(p) ==
    /\ Moves(p, pc[p], After(p))
    /\ file' \in IF pc[p] = "writing" THEN {file, "Garbage"} ELSE {file}
    /\ mishaps' = mishaps \cup IF pc[p] = "writing" THEN {"torn"} ELSE {}

\* The directory, the open or the write fails; what has been cached stays.
FileFails(p) ==
    /\ pc[p] \in {"refused", "writing"}
    /\ CutOff(p)
    /\ UNCHANGED <<available, keychain, cached, crashes, newest>>

-----------------------------------------------------------------------------
(* The processes and the keychain's service.                                *)

\* A server is started again, with nothing cached; a setup is not.
Crash(p) ==
    /\ crashes < MaxCrashes
    /\ CutOff(p)
    /\ cached' = [s \in Servers |-> IF s = p THEN None ELSE cached[s]]
    /\ crashes' = crashes + 1
    /\ UNCHANGED <<available, keychain, newest>>

Flap ==
    /\ KeychainMayChange
    /\ available' = ~available
    /\ mishaps' = mishaps \cup {"flapped"}
    /\ UNCHANGED <<store, pc, cached, crashes, newest>>

Load(s) == KeychainLoad(s) \/ KeychainMiss(s) \/ FileLoad(s) \/ FileMiss(s)
Save(p) == KeychainSave(p) \/ KeychainRefuses(p) \/ FileTruncate(p) \/ FileWrite(p)

Next ==
    \/ \E s \in Servers : Load(s)
    \/ \E p \in Processes : Save(p) \/ FileFails(p) \/ Crash(p)
    \/ Flap

Spec == Init /\ [][Next]_vars

\* A server asks for its credential call after call and goes on with a save it
\* began; a setup, once it has begun to write, ends.
Fairness ==
    /\ \A s \in Servers : WF_vars(Load(s)) /\ WF_vars(Save(s))
    /\ \A p \in Setups : WF_vars(FileWrite(p))

FairSpec == Spec /\ Fairness

-----------------------------------------------------------------------------
\* Where load_credential looks now.
Stored == IF available /\ keychain # None THEN keychain ELSE file

\* Whatever servers load and write back at the same time, crash and start again
\* meanwhile, and however many setups run one after the other: what is stored is
\* what the last setup saved, or the file is empty because it is being written.
NewestIsStored ==
    mishaps = {} /\ newest # None =>
        \/ Stored = newest
        \/ file = "Empty" /\ \E p \in Processes : pc[p] = "writing"

\* A load never yields an outdated credential, unless the keychain came or went,
\* or a setup ran into another process's save, or a save was cut off.
LoadsNewest ==
    [][\A s \in Servers :
          cached'[s] # cached[s] /\ cached'[s] # None /\ mishaps = {}
             => cached'[s] = newest]_vars

\* A keychain that comes and goes may hide credentials behind older ones, but
\* while no save is cut off or raced it never costs all of them.
NeverAllLost ==
    mishaps \subseteq {"flapped"} /\ newest # None =>
        \/ keychain # None
        \/ file \in Setups
        \/ \E p \in Processes : pc[p] = "writing"

\* A server that asks again after a miss (it read the file another process had
\* just truncated) gets a credential in the end, if none was lost for good.
EveryServerIsServed ==
    \A s \in Servers :
        newest # None ~> cached[s] # None \/ mishaps # {}

\* The README of the program: a server uses the credentials saved by setup.
SetupTakesEffect ==
    [][\A s \in Servers :
          cached'[s] # cached[s] /\ cached'[s] # None => cached'[s] = newest]_vars
=============================================================================
