--------------------------- MODULE SettingsStore ---------------------------
(***************************************************************************)
(* SettingsStore (app/services/settings.py): settings.json behind an       *)
(* mtime-keyed cache that request threads share.  The cache is read        *)
(* without the lock and filled or cleared under it; writers replace the    *)
(* file atomically under the lock, but patch reads what it merges into     *)
(* before it takes the lock.                                               *)
(*                                                                         *)
(* Each write gives the file a new mtime (it ends in an fsync and a        *)
(* rename, which no two writes do within one tick of the clock); a version *)
(* of the settings carries the mtime it was written with as ver.           *)
(***************************************************************************)
EXTENDS Naturals

CONSTANTS
  Threads,     \* request threads
  Fields,      \* top-level keys of the settings
  Values,      \* their values
  Default,     \* DEFAULT_SETTINGS gives every field this value
  MaxWrites,   \* bound: writes in one behaviour
  NoThread     \* the lock is free

ASSUME SettingsAssumption ==
  /\ Default \in Values
  /\ NoThread \notin Threads
  /\ MaxWrites \in Nat

VARIABLES
  file,     \* the version of the settings in settings.json; file.ver is its mtime
  cached,   \* the version in _cache
  stamp,    \* _cache_mtime; 0 when the cache is cleared
  lock,     \* holder of _lock
  pc,       \* [Threads -> where the thread stands]
  job,      \* [Threads -> "get", "put" or "patch"]
  body,     \* [Threads -> the fields the request sends, with their values]
  mtime,    \* [Threads -> mtime that its _load has read]
  data      \* [Threads -> version that its _load has read or returned]

vars == <<file, cached, stamp, lock, pc, job, body, mtime, data>>

Versions == [ver : Nat, val : [Fields -> Values]]
Bodies == UNION {[F -> Values] : F \in SUBSET Fields}

TypeOK ==
  /\ file \in Versions
  /\ cached \in Versions
  /\ stamp \in Nat
  /\ lock \in Threads \cup {NoThread}
  /\ pc \in [Threads -> {"idle", "check", "open", "store", "write", "clear", "answer"}]
  /\ job \in [Threads -> {"get", "put", "patch", "reload"}]
  /\ body \in [Threads -> Bodies]
  /\ mtime \in [Threads -> Nat]
  /\ data \in [Threads -> Versions]

FirstVersion == [ver |-> 1, val |-> [f \in Fields |-> Default]]
NoBody == [f \in {} |-> Default]

Init ==
  /\ file = FirstVersion
  /\ cached = FirstVersion
  /\ stamp = 0
  /\ lock = NoThread
  /\ pc = [t \in Threads |-> "idle"]
  /\ job = [t \in Threads |-> "get"]
  /\ body = [t \in Threads |-> NoBody]
  /\ mtime = [t \in Threads |-> 0]
  /\ data = [t \in Threads |-> FirstVersion]

(***************************************************************************)
(* all, get, public_subset, is_country_banned; patch begins the same way:  *)
(* _load takes the file's mtime.                                           *)
(***************************************************************************)
Stat(t) ==
  /\ mtime' = [mtime EXCEPT ![t] = file.ver]
  /\ pc' = [pc EXCEPT ![t] = "check"]

Read(t) ==
  /\ pc[t] = "idle"
  /\ job' = [job EXCEPT ![t] = "get"]
  /\ body' = [body EXCEPT ![t] = NoBody]
  /\ Stat(t)
  /\ UNCHANGED <<file, cached, stamp, lock, data>>

Patch(t, b) ==
  /\ pc[t] = "idle"
  /\ job' = [job EXCEPT ![t] = "patch"]
  /\ body' = [body EXCEPT ![t] = b]
  /\ Stat(t)
  /\ UNCHANGED <<file, cached, stamp, lock, data>>

\* replace: no read first, so it goes straight for the lock.
Replace(t, b) ==
  /\ pc[t] = "idle"
  /\ job' = [job EXCEPT ![t] = "put"]
  /\ body' = [body EXCEPT ![t] = b]
  /\ pc' = [pc EXCEPT ![t] = "write"]
  /\ UNCHANGED <<file, cached, stamp, lock, mtime, data>>

\* What _load does once it has the data: patch merges and writes, the others answer.
Loaded(t) == IF job[t] = "patch" THEN "write" ELSE "answer"

\* A mistake the runs must detect: a filled cache is used, since writers clear it.
Bug_HitWhenFilled(t) ==
  /\ pc[t] = "check"
  /\ IF stamp # 0
       THEN /\ data' = [data EXCEPT ![t] = cached]
            /\ pc' = [pc EXCEPT ![t] = Loaded(t)]
       ELSE /\ pc' = [pc EXCEPT ![t] = "open"]
            /\ UNCHANGED data
  /\ UNCHANGED <<file, cached, stamp, lock, job, body, mtime>>

\* The cache is used when it carries the mtime just read.  No bytecode of the test yields.
CheckCache(t) ==
  /\ pc[t] = "check"
  /\ IF stamp = mtime[t]
       THEN /\ data' = [data EXCEPT ![t] = cached]
            /\ pc' = [pc EXCEPT ![t] = Loaded(t)]
       ELSE /\ pc' = [pc EXCEPT ![t] = "open"]
            /\ UNCHANGED data
  /\ UNCHANGED <<file, cached, stamp, lock, job, body, mtime>>

\* open and json.load: the file may have been replaced since the mtime was read.
ReadFile(t) ==
  /\ pc[t] = "open"
  /\ data' = [data EXCEPT ![t] = file]
  /\ pc' = [pc EXCEPT ![t] = "store"]
  /\ UNCHANGED <<file, cached, stamp, lock, job, body, mtime>>

\* A mistake the runs must detect: the cache is stamped with the file's mtime of now.
Bug_StampNow(t) ==
  /\ pc[t] = "store"
  /\ lock = NoThread
  /\ cached' = data[t]
  /\ stamp' = file.ver
  /\ pc' = [pc EXCEPT ![t] = Loaded(t)]
  /\ UNCHANGED <<file, lock, job, body, mtime, data>>

\* The cache takes the data under the mtime read before it, in one hold of the lock.
StoreCache(t) ==
  /\ pc[t] = "store"
  /\ lock = NoThread
  /\ cached' = data[t]
  /\ stamp' = mtime[t]
  /\ pc' = [pc EXCEPT ![t] = Loaded(t)]
  /\ UNCHANGED <<file, lock, job, body, mtime, data>>

\* replace merges the body into the defaults, patch into what it has loaded.
Merged(t) ==
  [f \in Fields |-> IF f \in DOMAIN body[t] THEN body[t][f]
                    ELSE IF job[t] = "patch" THEN data[t].val[f] ELSE Default]

WriteFile(t) ==
  /\ pc[t] = "write"
  /\ lock = NoThread
  /\ file.ver <= MaxWrites
  /\ lock' = t
  /\ file' = [ver |-> file.ver + 1, val |-> Merged(t)]
  /\ pc' = [pc EXCEPT ![t] = "clear"]
  /\ UNCHANGED <<cached, stamp, job, body, mtime, data>>

\* _cache and _cache_mtime are cleared, the lock released, and _load called for the answer.
ClearCache(t) ==
  /\ pc[t] = "clear"
  /\ stamp' = 0
  /\ lock' = NoThread
  /\ job' = [job EXCEPT ![t] = "reload"]
  /\ Stat(t)
  /\ UNCHANGED <<file, cached, body, data>>

Answer(t) ==
  /\ pc[t] = "answer"
  /\ pc' = [pc EXCEPT ![t] = "idle"]
  /\ UNCHANGED <<file, cached, stamp, lock, job, body, mtime, data>>

Next ==
  \E t \in Threads :
     \/ Read(t)
     \/ \E b \in Bodies : Patch(t, b) \/ Replace(t, b)
     \/ CheckCache(t) \/ ReadFile(t) \/ StoreCache(t)
     \/ WriteFile(t) \/ ClearCache(t)
     \/ Answer(t)

Spec == Init /\ [][Next]_vars

-----------------------------------------------------------------------------
(* "a settings PUT from the admin UI is visible immediately to live        *)
(* service code": what a read returns is not older than the file was when  *)
(* the read began, whatever other readers and writers do to the cache      *)
(* meanwhile (is_country_banned is such a read).                           *)
ReadsAreFresh ==
  \A t \in Threads : pc[t] = "answer" => data[t].ver >= mtime[t]

(* A cache entry that the next read would take for current is the file:    *)
(* no late reader leaves an old version under a new mtime.                 *)
CacheIsCurrent == stamp = file.ver => cached = file

(* "Update top-level keys without touching others" (patch): a patch that   *)
(* no write overtakes changes no field it does not name, though it merges  *)
(* into what the shared cache or the file gave it before it took the lock. *)
LonePatchKeepsOthers ==
  [][\A t \in Threads, f \in Fields :
       WriteFile(t) /\ job[t] = "patch" /\ f \notin DOMAIN body[t] /\ mtime[t] = file.ver
         => file'.val[f] = file.val[f]]_vars
=============================================================================
