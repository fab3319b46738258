--------------------------- MODULE SettingsProofs ---------------------------
(***************************************************************************)
(* Proofs about SettingsStore, for every set of threads, fields and        *)
(* values.                                                                 *)
(*                                                                         *)
(* FreshInv: whoever reads the file does so after taking its mtime, so     *)
(* what it holds is never older than the mtime it will be stored under;    *)
(* and a version is known by its mtime, so that an entry that is neither   *)
(* older nor newer than the file is the file.                              *)
(***************************************************************************)
EXTENDS SettingsStore, TLAPS

FreshInv ==
  /\ cached.ver >= stamp
  /\ \A t \in Threads : mtime[t] <= file.ver
  /\ \A t \in Threads : pc[t] \in {"store", "answer"} => data[t].ver >= mtime[t]
  /\ cached.ver <= file.ver /\ (cached.ver = file.ver => cached = file)
  /\ \A t \in Threads : data[t].ver <= file.ver /\ (data[t].ver = file.ver => data[t] = file)

PatchInv == \A t \in Threads : pc[t] = "write" /\ job[t] = "patch" => data[t].ver >= mtime[t]

(* Every variable keeps its type: in particular a PUT or PATCH of part of  *)
(* the fields leaves a file with all of them.                              *)
THEOREM SettingsTypeCorrect == Spec => []TypeOK
<1>1. Init => TypeOK
  <2>1. NoBody \in Bodies
    <3>1. NoBody \in [{} -> Values] /\ {} \in SUBSET Fields
      BY DEF NoBody
    <3> QED
      BY <3>1 DEF Bodies
  <2> QED
    BY <2>1, SettingsAssumption DEF Init, TypeOK, Versions, FirstVersion
<1>2. TypeOK /\ [Next]_vars => TypeOK'
  <2> SUFFICES ASSUME TypeOK, [Next]_vars PROVE TypeOK'
    OBVIOUS
  <2> USE DEF TypeOK
  <2>0. NoBody \in Bodies
    <3>1. NoBody \in [{} -> Values] /\ {} \in SUBSET Fields
      BY DEF NoBody
    <3> QED
      BY <3>1 DEF Bodies
  <2>1. ASSUME NEW t \in Threads, Read(t) PROVE TypeOK'
    BY <2>0, <2>1 DEF Read, Stat, Versions
  <2>2. ASSUME NEW t \in Threads, NEW b \in Bodies, Patch(t, b) \/ Replace(t, b) PROVE TypeOK'
    BY <2>2 DEF Patch, Replace, Stat, Versions
  <2>3. ASSUME NEW t \in Threads, CheckCache(t) \/ ReadFile(t) \/ StoreCache(t) PROVE TypeOK'
    BY <2>3 DEF CheckCache, ReadFile, StoreCache, Loaded
  <2>4. ASSUME NEW t \in Threads, WriteFile(t) PROVE TypeOK'
    <3>1. PICK F \in SUBSET Fields : body[t] \in [F -> Values]
      BY DEF Bodies
    <3>2. Merged(t) \in [Fields -> Values]
      BY <3>1, SettingsAssumption DEF Merged, Versions
    <3>3. file' \in Versions
      BY <2>4, <3>2 DEF WriteFile, Versions
    <3> QED
      BY <2>4, <3>3 DEF WriteFile
  <2>5. ASSUME NEW t \in Threads, ClearCache(t) PROVE TypeOK'
    BY <2>5 DEF ClearCache, Stat, Versions
  <2>6. ASSUME NEW t \in Threads, Answer(t) PROVE TypeOK'
    BY <2>6 DEF Answer
  <2>7. CASE UNCHANGED vars
    BY <2>7 DEF vars
  <2> QED
    BY <2>1, <2>2, <2>3, <2>4, <2>5, <2>6, <2>7 DEF Next
<1> QED
  BY <1>1, <1>2, PTL DEF Spec

(* The order of _load's steps (mtime, then file, then cache) keeps every   *)
(* copy of the settings at least as new as the mtime it is known by.       *)
THEOREM FreshInvHolds == Spec => []FreshInv
<1>1. Init => FreshInv
  BY DEF Init, FreshInv, FirstVersion
<1>2. TypeOK /\ FreshInv /\ [Next]_vars => FreshInv'
  <2> SUFFICES ASSUME TypeOK, FreshInv, [Next]_vars PROVE FreshInv'
    OBVIOUS
  <2> USE DEF TypeOK, FreshInv, Versions
  <2>1. ASSUME NEW t \in Threads, Read(t) PROVE FreshInv'
    BY <2>1 DEF Read, Stat
  <2>2. ASSUME NEW t \in Threads, NEW b \in Bodies, Patch(t, b) PROVE FreshInv'
    BY <2>2 DEF Patch, Stat
  <2>10. ASSUME NEW t \in Threads, NEW b \in Bodies, Replace(t, b) PROVE FreshInv'
    BY <2>10 DEF Replace
  <2>3. ASSUME NEW t \in Threads, CheckCache(t) PROVE FreshInv'
    BY <2>3 DEF CheckCache, Loaded
  <2>4. ASSUME NEW t \in Threads, ReadFile(t) PROVE FreshInv'
    BY <2>4 DEF ReadFile
  <2>5. ASSUME NEW t \in Threads, StoreCache(t) PROVE FreshInv'
    BY <2>5 DEF StoreCache, Loaded
  <2>6. ASSUME NEW t \in Threads, WriteFile(t) PROVE FreshInv'
    <3>1. file'.ver = file.ver + 1
      BY <2>6 DEF WriteFile
    <3> QED
      BY <2>6, <3>1 DEF WriteFile
  <2>7. ASSUME NEW t \in Threads, ClearCache(t) PROVE FreshInv'
    BY <2>7 DEF ClearCache, Stat
  <2>8. ASSUME NEW t \in Threads, Answer(t) PROVE FreshInv'
    BY <2>8 DEF Answer
  <2>9. CASE UNCHANGED vars
    BY <2>9 DEF vars
  <2> QED
    BY <2>1, <2>2, <2>3, <2>4, <2>5, <2>6, <2>7, <2>8, <2>9, <2>10 DEF Next
<1> QED
  BY <1>1, <1>2, SettingsTypeCorrect, PTL DEF Spec

(* What a patch is about to write back was no older than the file when the *)
(* patch began.                                                            *)
THEOREM PatchInvHolds == Spec => []PatchInv
<1>1. Init => PatchInv
  BY DEF Init, PatchInv
<1>2. TypeOK /\ FreshInv /\ PatchInv /\ [Next]_vars => PatchInv'
  <2> SUFFICES ASSUME TypeOK, FreshInv, PatchInv, [Next]_vars PROVE PatchInv'
    OBVIOUS
  <2> USE DEF TypeOK, PatchInv, Versions
  <2>1. ASSUME NEW t \in Threads, Read(t) PROVE PatchInv'
    BY <2>1 DEF Read, Stat
  <2>2. ASSUME NEW t \in Threads, NEW b \in Bodies, Patch(t, b) PROVE PatchInv'
    BY <2>2 DEF Patch, Stat
  <2>3. ASSUME NEW t \in Threads, NEW b \in Bodies, Replace(t, b) PROVE PatchInv'
    BY <2>3 DEF Replace
  <2>4. ASSUME NEW t \in Threads, CheckCache(t) PROVE PatchInv'
    BY <2>4 DEF CheckCache, FreshInv
  <2>5. ASSUME NEW t \in Threads, ReadFile(t) PROVE PatchInv'
    BY <2>5 DEF ReadFile
  <2>6. ASSUME NEW t \in Threads, StoreCache(t) PROVE PatchInv'
    BY <2>6 DEF StoreCache, FreshInv
  <2>7. ASSUME NEW t \in Threads, WriteFile(t) PROVE PatchInv'
    BY <2>7 DEF WriteFile
  <2>8. ASSUME NEW t \in Threads, ClearCache(t) PROVE PatchInv'
    BY <2>8 DEF ClearCache, Stat
  <2>9. ASSUME NEW t \in Threads, Answer(t) PROVE PatchInv'
    BY <2>9 DEF Answer
  <2>10. CASE UNCHANGED vars
    BY <2>10 DEF vars
  <2> QED
    BY <2>1, <2>2, <2>3, <2>4, <2>5, <2>6, <2>7, <2>8, <2>9, <2>10 DEF Next
<1> QED
  BY <1>1, <1>2, SettingsTypeCorrect, FreshInvHolds, PTL DEF Spec

(* A settings write is visible to every read that begins after it.         *)
THEOREM FreshReads == Spec => []ReadsAreFresh
<1>1. FreshInv => ReadsAreFresh
  BY DEF FreshInv, ReadsAreFresh
<1> QED
  BY <1>1, FreshInvHolds, PTL

(* A cache entry under the file's mtime is the file.                       *)
THEOREM CurrentCache == Spec => []CacheIsCurrent
<1>1. TypeOK /\ FreshInv => CacheIsCurrent
  <2> SUFFICES ASSUME TypeOK, FreshInv, stamp = file.ver PROVE cached = file
    BY DEF CacheIsCurrent
  <2>1. cached.ver \in Nat /\ file.ver \in Nat
    BY DEF TypeOK, Versions
  <2>2. cached.ver = file.ver
    BY <2>1 DEF FreshInv
  <2> QED
    BY <2>2 DEF FreshInv
<1> QED
  BY <1>1, SettingsTypeCorrect, FreshInvHolds, PTL

(* A patch that no write has overtaken merges into the file as it is.      *)
THEOREM LonePatchHolds == Spec => LonePatchKeepsOthers
<1>1. TypeOK /\ PatchInv /\ FreshInv /\ [Next]_vars =>
        [\A t \in Threads, f \in Fields :
           WriteFile(t) /\ job[t] = "patch" /\ f \notin DOMAIN body[t] /\ mtime[t] = file.ver
             => file'.val[f] = file.val[f]]_vars
  <2> SUFFICES ASSUME TypeOK, PatchInv, FreshInv,
                      NEW t \in Threads, NEW f \in Fields, WriteFile(t), job[t] = "patch",
                      f \notin DOMAIN body[t], mtime[t] = file.ver
               PROVE  file'.val[f] = file.val[f]
    OBVIOUS
  <2>1. data[t].ver \in Nat /\ file.ver \in Nat
    BY DEF TypeOK, Versions
  <2>2. pc[t] = "write"
    BY DEF WriteFile
  <2>3. data[t] = file
    BY <2>1, <2>2 DEF PatchInv, FreshInv
  <2>4. file'.val = Merged(t)
    BY DEF WriteFile
  <2> QED
    BY <2>3, <2>4 DEF Merged
<1> QED
  BY <1>1, SettingsTypeCorrect, PatchInvHolds, FreshInvHolds, PTL DEF Spec, LonePatchKeepsOthers

-----------------------------------------------------------------------------
(* A read is atomic, though it takes its mtime, tests the cache and reads  *)
(* the file one after another: what it answers was the file at some moment *)
(* between its beginning and its answer.  For its version lies between the *)
(* file's of then and of now, the file has had every version in between,   *)
(* and no two copies of one version differ.                                *)
Copies == {file, cached} \cup {data[t] : t \in Threads}

ReadsAreAtomic ==
  /\ \A t \in Threads : pc[t] = "answer" =>
       mtime[t] <= data[t].ver /\ data[t].ver <= file.ver
  /\ \A a, b \in Copies : a.ver = b.ver => a = b

\* Nor do settings ever go back for a thread that reads them again.
ReadsAdvance == [][\A t \in Threads : data'[t].ver >= data[t].ver]_vars

\* A thread between its mtime and its data holds nothing newer than that mtime.
AgeInv == \A t \in Threads : pc[t] \in {"check", "open"} => data[t].ver <= mtime[t]

(* A version is written once and only copied afterwards.                   *)
LEMMA OnlyCopies ==
  ASSUME TypeOK, FreshInv, \A a, b \in Copies : a.ver = b.ver => a = b, Next
  PROVE  \A a, b \in Copies' : a.ver = b.ver => a = b
<1>1. ASSUME Copies' \subseteq Copies PROVE \A a, b \in Copies' : a.ver = b.ver => a = b
  BY <1>1
<1>2. ASSUME NEW t \in Threads,
             Read(t) \/ (\E b \in Bodies : Patch(t, b) \/ Replace(t, b))
               \/ ClearCache(t) \/ Answer(t)
      PROVE  Copies' \subseteq Copies
  BY <1>2 DEF Read, Patch, Replace, ClearCache, Answer, Copies
<1>3. ASSUME NEW t \in Threads, CheckCache(t) \/ ReadFile(t) \/ StoreCache(t)
      PROVE  Copies' \subseteq Copies
  BY <1>3 DEF CheckCache, ReadFile, StoreCache, Copies, TypeOK
<1>4. ASSUME NEW t \in Threads, WriteFile(t)
      PROVE  \A a, b \in Copies' : a.ver = b.ver => a = b
  <2>1. file'.ver = file.ver + 1 /\ Copies' \subseteq Copies \cup {file'}
    BY <1>4 DEF WriteFile, Copies
  <2>2. \A a \in Copies : a.ver \in Nat /\ a.ver <= file.ver
    BY DEF FreshInv, Copies, TypeOK, Versions
  <2>3. \A a \in Copies : a.ver # file'.ver
    BY <2>1, <2>2 DEF TypeOK, Versions
  <2> QED
    BY <2>1, <2>3
<1> QED
  BY <1>1, <1>2, <1>3, <1>4 DEF Next

(* Every read of the settings is linearizable.                             *)
THEOREM AtomicReads == Spec => []ReadsAreAtomic
<1> DEFINE Agree == \A a, b \in Copies : a.ver = b.ver => a = b
<1>1. Init => Agree
  BY DEF Init, Copies
<1>2. TypeOK /\ FreshInv /\ Agree /\ [Next]_vars => Agree'
  <2>1. TypeOK /\ FreshInv /\ Agree /\ Next => Agree'
    BY OnlyCopies
  <2>2. Agree /\ UNCHANGED vars => Agree'
    BY DEF vars, Copies
  <2> QED
    BY <2>1, <2>2
<1>3. FreshInv /\ Agree => ReadsAreAtomic
  BY DEF FreshInv, ReadsAreAtomic
<1> QED
  BY <1>1, <1>2, <1>3, SettingsTypeCorrect, FreshInvHolds, PTL DEF Spec

(* A thread that reads again never finds the settings older than before.   *)
THEOREM ReadsOnlyAdvance == Spec => ReadsAdvance
<1>1. Init => AgeInv
  BY DEF Init, AgeInv
<1>2. TypeOK /\ FreshInv /\ AgeInv /\ [Next]_vars => AgeInv'
  BY DEF TypeOK, Versions, FreshInv, AgeInv, Next, Read, Patch, Replace, Stat, CheckCache,
         ReadFile, StoreCache, WriteFile, ClearCache, Answer, Loaded, vars
<1>3. TypeOK /\ FreshInv /\ AgeInv /\ [Next]_vars =>
        [\A t \in Threads : data'[t].ver >= data[t].ver]_vars
  BY DEF TypeOK, Versions, FreshInv, AgeInv, Next, Read, Patch, Replace, Stat, CheckCache,
         ReadFile, StoreCache, WriteFile, ClearCache, Answer, Loaded, vars
<1> QED
  BY <1>1, <1>2, <1>3, SettingsTypeCorrect, FreshInvHolds, PTL DEF Spec, ReadsAdvance
=============================================================================
