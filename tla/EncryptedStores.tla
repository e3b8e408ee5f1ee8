-------------------------- MODULE EncryptedStores --------------------------
(* One of the gateway's encrypted stores: gate store, execution log, denial *)
(* log, execution results, outcome outbox and receipt archive are the same  *)
(* class but for what they do with a file they cannot read, which is their  *)
(* policy: start fresh, or (the archive) move it aside and keep what is in  *)
(* memory.  A process keeps the whole store in memory and writes the whole  *)
(* file on every change; processes share the data directory.                *)
EXTENDS FiniteSets, Integers

CONSTANTS Procs,        \* MCP servers on one data directory
          Rows,         \* gates, tickets, denials, ... by id
          Keys, NoKey,  \* vault keys, one per account
          Legacy,       \* what a release before the vault left in plaintext
          MaxStarts, MaxTorn    \* bounds: process starts, half-written files

StoreAssumption ==
    /\ NoKey \notin Keys
    /\ Legacy \subseteq SUBSET Rows
    /\ MaxStarts \in Nat /\ MaxTorn \in Nat

VARIABLES policy,       \* of this store: "fresh", or "keep" (the archive)
          plain, enc,   \* the two files
          aside,        \* rows in the .corrupt copies
          up, mem, key, \* per process: running, entries, vaultKey
          recorded,     \* rows whose record() returned (history)
          deleted,      \* rows whose delete() or clearAll() returned (history)
          accounts,     \* keys the store was given (history)
          starts, torn

files == <<plain, enc, aside>>
procs == <<up, mem, key>>
history == <<recorded, deleted, accounts>>
storeVars == <<policy, files, procs, history, starts, torn>>

(* A file: who can read it, and what it then holds.  A torn one (the        *)
(* process died inside writeFileSync) is read by nobody.                    *)
Absent == [is |-> "absent", by |-> NoKey, rows |-> {}]
Torn == [is |-> "torn", by |-> NoKey, rows |-> {}]
File(k, rows) == [is |-> "whole", by |-> k, rows |-> rows]
Readable(file, k) == file.is = "whole" /\ file.by = k

StoreInit ==
    /\ policy \in {"fresh", "keep"}
    /\ \E rows \in Legacy :
          /\ plain = IF rows = {} THEN Absent ELSE File(NoKey, rows)
          /\ recorded = rows
    /\ enc = Absent /\ aside = {} /\ deleted = {} /\ accounts = {}
    /\ up = [p \in Procs |-> FALSE] /\ key = [p \in Procs |-> NoKey]
    /\ mem = [p \in Procs |-> {}]
    /\ starts = 0 /\ torn = 0

(* Reading a file: the rows, or what the store goes on with when it cannot. *)
Loaded(file, k, rows) == IF Readable(file, k) THEN file.rows
                         ELSE IF policy = "keep" THEN rows ELSE {}
MovedAside(file, k) ==
    IF policy = "fresh" \/ Readable(file, k) THEN aside ELSE aside \cup file.rows

Start(p) ==     \* the constructor: loadPlaintext()
    /\ ~up[p] /\ starts < MaxStarts
    /\ up' = [up EXCEPT ![p] = TRUE]
    /\ key' = [key EXCEPT ![p] = NoKey]
    /\ IF plain.is = "absent"
       THEN mem' = [mem EXCEPT ![p] = {}] /\ UNCHANGED aside
       ELSE /\ mem' = [mem EXCEPT ![p] = Loaded(plain, NoKey, {})]
            /\ aside' = MovedAside(plain, NoKey)
    /\ starts' = starts + 1
    /\ UNCHANGED <<plain, enc, history, torn>>

(* setVaultKey(): what the vault's file holds replaces the memory; without  *)
(* one, the memory is written encrypted and the plaintext removed.          *)
SetVaultKey(p, k) ==
    /\ up[p]
    /\ key' = [key EXCEPT ![p] = k]
    /\ \/ /\ enc.is # "absent"
          /\ mem' = [mem EXCEPT ![p] = Loaded(enc, k, mem[p])]
          /\ aside' = MovedAside(enc, k)
          /\ UNCHANGED <<plain, enc>>
       \/ /\ enc.is = "absent" /\ mem[p] # {}
          /\ enc' = File(k, mem[p]) /\ plain' = Absent
          /\ UNCHANGED <<mem, aside>>
       \/ enc.is = "absent" /\ mem[p] = {} /\ UNCHANGED <<mem, files>>
    /\ accounts' = accounts \cup {k}
    /\ UNCHANGED <<up, recorded, deleted, starts, torn>>

Down(p) == /\ up' = [up EXCEPT ![p] = FALSE]
           /\ mem' = [mem EXCEPT ![p] = {}]
           /\ key' = [key EXCEPT ![p] = NoKey]

ServerDies(p) == up[p] /\ Down(p) /\ UNCHANGED <<files, history, starts, torn>>

(* The process dies between the two halves of the migration. *)
MigrationCut(p, k) ==
    /\ up[p] /\ enc.is = "absent" /\ mem[p] # {}
    /\ enc' = File(k, mem[p])
    /\ Down(p)
    /\ accounts' = accounts \cup {k}
    /\ UNCHANGED <<plain, aside, recorded, deleted, starts, torn>>

(* persist() with the key of the process. *)
Persist(p, rows) ==
    /\ mem' = [mem EXCEPT ![p] = rows]
    /\ enc' = File(key[p], rows)
    /\ UNCHANGED plain

(* Every caller stands behind isUnlocked(), and the session arrives in the  *)
(* same request as the key.  A row already there is not recorded twice; the *)
(* report store holds one.                                                  *)
Record(p, r) ==
    /\ up[p] /\ key[p] # NoKey /\ r \notin mem[p]
    /\ Persist(p, mem[p] \cup {r})
    /\ recorded' = recorded \cup {r}
    /\ deleted' = deleted \ {r}
    /\ UNCHANGED <<aside, up, key, accounts, starts, torn>>

Delete(p, r) ==         \* the gate store's, when the AS no longer knows a grant
    /\ policy = "fresh"
    /\ up[p] /\ key[p] # NoKey /\ r \in mem[p]
    /\ Persist(p, mem[p] \ {r})
    /\ recorded' = recorded \ {r} /\ deleted' = deleted \cup {r}
    /\ UNCHANGED <<aside, up, key, accounts, starts, torn>>

ClearPlaintext(p) ==
    /\ policy = "fresh" /\ up[p] /\ key[p] = NoKey
    /\ plain' = Absent
    /\ mem' = [mem EXCEPT ![p] = {}]
    /\ recorded' = {} /\ deleted' = deleted \cup recorded
    /\ UNCHANGED <<enc, aside, up, key, accounts, starts, torn>>

(* clearAll(), at boot, when the gateway has been pointed at another AS. *)
ClearAll(p) ==
    /\ policy = "fresh" /\ up[p] /\ key[p] = NoKey
    /\ plain' = Absent /\ enc' = Absent
    /\ mem' = [mem EXCEPT ![p] = {}]
    /\ recorded' = {} /\ deleted' = deleted \cup recorded
    /\ UNCHANGED <<aside, up, key, accounts, starts, torn>>

TornWrite(p) ==         \* the process dies inside a persist()
    /\ up[p] /\ key[p] # NoKey /\ torn < MaxTorn
    /\ enc' = Torn
    /\ Down(p)
    /\ torn' = torn + 1
    /\ UNCHANGED <<plain, aside, history, starts>>

StoreStep(p) ==
    \/ Start(p) \/ ServerDies(p) \/ ClearAll(p) \/ TornWrite(p)
    \/ \E k \in Keys : SetVaultKey(p, k) \/ MigrationCut(p, k)
    \/ \E r \in Rows : Record(p, r) \/ Delete(p, r)

StoreNext == UNCHANGED policy /\ \E p \in Procs : StoreStep(p)

StoreSpec == StoreInit /\ [][StoreNext]_storeVars

----------------------------------------------------------------------------
StoreFile == [is : {"absent", "torn", "whole"}, by : Keys \cup {NoKey},
              rows : SUBSET Rows]
StoreTypeOK ==
    /\ policy \in {"fresh", "keep"}
    /\ plain \in StoreFile /\ enc \in StoreFile /\ aside \subseteq Rows
    /\ plain.by = NoKey /\ (enc.is = "whole" => enc.by \in Keys)
    /\ up \in [Procs -> BOOLEAN] /\ mem \in [Procs -> SUBSET Rows]
    /\ key \in [Procs -> Keys \cup {NoKey}]
    /\ recorded \subseteq Rows /\ deleted \subseteq Rows /\ accounts \subseteq Keys
    /\ starts \in 0..MaxStarts /\ torn \in 0..MaxTorn

OneAccount == \A k, l \in accounts : k = l

(* What was recorded and not deleted is in one of the files, whenever a     *)
(* process dies between two writes and, for the archive, whichever account  *)
(* signs in: "append-only, never pruned" (receipt-archive.ts).  A file torn *)
(* by a process that dies inside a write is gone.                           *)
EverythingKept ==
    torn = 0 /\ (policy = "keep" \/ OneAccount) =>
       recorded \subseteq plain.rows \cup enc.rows \cup aside

(* A process that has the key of the file holds exactly what the file       *)
(* holds: what it serves after a restart is what it served before.          *)
MemoryIsTheFile ==
    \A p \in Procs : key[p] \in Keys /\ enc.by = key[p] => mem[p] = enc.rows

(* A grant that was deleted, or cleared with its AS, is not served again    *)
(* after the next unlock, although a plaintext file may have survived.      *)
DeletedStaysDeleted ==
    \A p \in Procs : key[p] \in Keys => mem[p] \cap deleted = {}

(* The three: what was recorded is kept, served as it was recorded, and     *)
(* gone once it was deleted.                                                *)
StoresKeep == EverythingKept /\ MemoryIsTheFile /\ DeletedStaysDeleted
=============================================================================
