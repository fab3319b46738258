----------------------------- MODULE UsersProofs -----------------------------
(***************************************************************************)
(* UsersStore always keeps an admin, for any users, passwords and number   *)
(* of overlapping requests.                                                *)
(*                                                                         *)
(* AdminRemains is not inductive: a request writes back a copy that the    *)
(* file has left behind.  What makes it true is that each copy carries its *)
(* own admins: the copy was a file with an admin, and its request has been *)
(* allowed on that very copy (CopiesInv).                                  *)
(***************************************************************************)
EXTENDS UsersStore, TLAPS

CopiesInv ==
  \A t \in Threads : pc[t] = "save" => /\ Admins(copy[t]) # {}
                                       /\ Allowed(job[t], copy[t])

AdminInv == TypeOK /\ AdminRemains /\ CopiesInv

(* An edit yields a file of the right type: users_store.py's operations    *)
(* store a complete record or none.                                        *)
LEMMA EditedType ==
  ASSUME NEW j \in Jobs, NEW f \in Files, Allowed(j, f)
  PROVE  Edited(j, f) \in Files
<1>1. f[j.user] \in Accounts \cup {Absent} /\ j.user \in Users
  BY DEF Files, Jobs
<1>2. CASE j.kind = "add"
  BY <1>2 DEF Edited, Files, Accounts, Jobs, Roles
<1>3. CASE j.kind = "remove"
  BY <1>3 DEF Edited, Files
<1>4. CASE j.kind \in {"reset", "set_role", "change"}
  <2>1. f[j.user] \in Accounts
    BY <1>1, <1>4 DEF Allowed
  <2>2. /\ [f[j.user] EXCEPT !.password = j.password] \in Accounts
        /\ [f[j.user] EXCEPT !.role = j.role] \in Accounts
        /\ [[f[j.user] EXCEPT !.password = j.password] EXCEPT !.must = FALSE] \in Accounts
    BY <2>1 DEF Accounts, Jobs
  <2>. QED  BY <1>4, <2>1, <2>2 DEF Edited, Files, Accounts, Jobs
<1>. QED  BY <1>2, <1>3, <1>4 DEF Jobs, Kinds

(* An allowed edit of a file with an admin leaves an admin: remove_user    *)
(* and set_role refuse to touch the only one, the others touch no role.    *)
LEMMA EditedKeepsAdmin ==
  ASSUME NEW j \in Jobs, NEW f \in Files, Allowed(j, f), Admins(f) # {}
  PROVE  Admins(Edited(j, f)) # {}
<1>1. PICK a \in Users : f[a] \in Accounts /\ f[a].role = "admin"
                         /\ (j.kind = "remove" \/ (j.kind = "set_role" /\ j.role # "admin")
                               => a # j.user)
  <2>1. Admins(f) \subseteq Users
    BY DEF Admins
  <2>2. \A u \in Admins(f) : f[u] \in Accounts /\ f[u].role = "admin"
    BY DEF Admins, Files
  <2>3. CASE j.kind = "remove" \/ (j.kind = "set_role" /\ j.role # "admin")
    <3>1. Admins(f) # {j.user}
      BY <2>3 DEF Allowed
    <3>2. \E u \in Admins(f) : u # j.user
      BY <3>1
    <3>. QED  BY <2>1, <2>2, <3>2
  <2>4. CASE ~(j.kind = "remove" \/ (j.kind = "set_role" /\ j.role # "admin"))
    BY <2>1, <2>2, <2>4
  <2>. QED  BY <2>3, <2>4
<1>2. Edited(j, f)[a] # Absent /\ Edited(j, f)[a].role = "admin"
  <2>0. f[a] # Absent /\ Edited(j, f) \in Files
    BY <1>1, EditedType, UsersAssumption DEF Accounts, Roles
  <2>1. CASE a # j.user
    BY <1>1, <2>0, <2>1 DEF Edited, Files, Jobs, Kinds
  <2>2. CASE a = j.user
    <3>1. j.kind \in {"reset", "change"} \/ (j.kind = "set_role" /\ j.role = "admin")
      BY <1>1, <2>0, <2>2 DEF Allowed, Jobs, Kinds
    <3>2. Edited(j, f)[a].role = "admin"
      BY <1>1, <2>2, <3>1 DEF Edited, Files, Accounts
    <3>3. Edited(j, f)[a] \in Accounts
      <4>1. [f[a] EXCEPT !.password = j.password] \in Accounts
        BY <1>1 DEF Accounts, Jobs
      <4>2. [f[a] EXCEPT !.role = j.role] \in Accounts
        BY <1>1 DEF Accounts, Jobs
      <4>3. [[f[a] EXCEPT !.password = j.password] EXCEPT !.must = FALSE] \in Accounts
        BY <4>1 DEF Accounts
      <4>. QED  BY <2>2, <3>1, <4>1, <4>2, <4>3 DEF Edited, Files
    <3>. QED  BY <3>2, <3>3, UsersAssumption DEF Accounts, Roles
  <2>. QED  BY <2>1, <2>2
<1>. QED  BY <1>2 DEF Admins

(* What a thread is given before its first request, and when one is over.  *)
LEMMA BlankTypes ==
  FirstFile \in Files /\ Bootstrap \in Admins(FirstFile) /\ NoJob \in Jobs /\ NoCookie \in Sessions
<1>1. [role |-> "admin", password |-> BootstrapPassword, must |-> TRUE] \in Accounts
  BY UsersAssumption DEF Accounts, Roles
<1>2. FirstFile[Bootstrap] # Absent
  BY <1>1, UsersAssumption DEF FirstFile, Accounts, Roles
<1>3. FirstFile \in Files /\ Bootstrap \in Admins(FirstFile)
  BY <1>1, <1>2, UsersAssumption DEF FirstFile, Files, Admins
<1>4. NoJob \in Jobs /\ NoCookie \in Sessions
  BY UsersAssumption DEF NoJob, NoCookie, Jobs, Kinds, Roles, Sessions
<1>. QED  BY <1>3, <1>4

(* TypeOK, AdminRemains and CopiesInv together are inductive.              *)
THEOREM AdminInvHolds == Spec => []AdminInv
<1>1. Init => AdminInv
  <2>. SUFFICES ASSUME Init PROVE AdminInv
    OBVIOUS
  <2>. QED  BY BlankTypes DEF Init, AdminInv, TypeOK, AdminRemains, CopiesInv
<1>2. AdminInv /\ [Next]_vars => AdminInv'
  <2>. SUFFICES ASSUME AdminInv, [Next]_vars PROVE AdminInv'
    OBVIOUS
  <2>. USE DEF AdminInv
  <2>1. ASSUME NEW u \in Users, NEW p \in Passwords, Login(u, p)
        PROVE  AdminInv'
    <3>1. [role |-> file[u].role, must |-> file[u].must] \in Sessions
      BY <2>1 DEF Login, TypeOK, Files, Accounts, Sessions
    <3>. QED  BY <2>1, <3>1 DEF Login, TypeOK, AdminRemains, CopiesInv
  <2>2. ASSUME NEW u \in Users, Logout(u)
        PROVE  AdminInv'
    BY <2>2 DEF Logout, TypeOK, AdminRemains, CopiesInv
  <2>3. ASSUME NEW t \in Threads, NEW j \in Jobs, AdminRequest(t, j)
        PROVE  AdminInv'
    BY <2>3 DEF AdminRequest, TypeOK, AdminRemains, CopiesInv
  <2>4. ASSUME NEW t \in Threads, NEW j \in Jobs, NEW p \in Passwords, ChangeRequest(t, j, p)
        PROVE  AdminInv'
    <3>1. session[j.by] \in Sessions
      BY <2>4 DEF ChangeRequest, TypeOK, Jobs
    <3>. QED  BY <2>4, <3>1 DEF ChangeRequest, TypeOK, AdminRemains, CopiesInv
  <2>5. ASSUME NEW t \in Threads, LoadAgain(t)
        PROVE  AdminInv'
    BY <2>5, BlankTypes DEF LoadAgain, Forget, TypeOK, AdminRemains, CopiesInv
  <2>6. ASSUME NEW t \in Threads, Save(t)
        PROVE  AdminInv'
    <3>1. job[t] \in Jobs /\ copy[t] \in Files /\ Allowed(job[t], copy[t])
          /\ Admins(copy[t]) # {}
      BY <2>6 DEF Save, TypeOK, CopiesInv
    <3>2. file' \in Files /\ Admins(file') # {}
      BY <2>6, <3>1, EditedType, EditedKeepsAdmin DEF Save
    <3>3. session' \in [Users -> Sessions \cup {Absent}]
      <4>1. [cookie[t] EXCEPT !.must = FALSE] \in Sessions
        BY DEF TypeOK, Sessions
      <4>. QED  BY <2>6, <3>1, <4>1 DEF Save, TypeOK, Jobs
    <3>. QED  BY <2>6, <3>2, <3>3, BlankTypes DEF Save, Forget, TypeOK, AdminRemains, CopiesInv
  <2>7. CASE UNCHANGED vars
    BY <2>7 DEF vars, TypeOK, AdminRemains, CopiesInv
  <2>. QED  BY <2>1, <2>2, <2>3, <2>4, <2>5, <2>6, <2>7 DEF Next
<1>. QED  BY <1>1, <1>2, PTL DEF Spec

(* users.json holds complete records only.                                 *)
THEOREM UsersTypeCorrect == Spec => []TypeOK
<1>1. AdminInv => TypeOK
  BY DEF AdminInv
<1>. QED  BY <1>1, AdminInvHolds, PTL

(* Nobody can lock everyone out of the admin pages: users.json has an      *)
(* admin, however the requests overlap.                                    *)
THEOREM AnAdminRemains == Spec => []AdminRemains
<1>1. AdminInv => AdminRemains
  BY DEF AdminInv
<1>. QED  BY <1>1, AdminInvHolds, PTL

(***************************************************************************)
(* The rotation gate.  The flag is false only for users who have changed   *)
(* their own password: in the file, in every copy of it and in every       *)
(* cookie.                                                                 *)
(***************************************************************************)
Released(f) == {u \in Users : f[u] # Absent /\ ~f[u].must}

GateInv ==
  /\ Released(session) \subseteq rotated
  /\ Released(file) \subseteq rotated
  /\ \A t \in Threads : Released(copy[t]) \subseteq rotated
  /\ \A t \in Threads : pc[t] # "idle" /\ job[t].kind = "change" => job[t].user = job[t].by

(* Only one's own change takes the flag away.                              *)
LEMMA EditedReleases ==
  ASSUME NEW j \in Jobs, NEW f \in Files, Allowed(j, f),
         NEW u \in Released(Edited(j, f))
  PROVE  u \in Released(f) \/ (j.kind = "change" /\ u = j.user)
<1>0. u \in Users /\ Edited(j, f)[u] # Absent /\ ~Edited(j, f)[u].must
  BY DEF Released
<1>1. CASE u # j.user
  <2>1. Edited(j, f)[u] = f[u]
    BY <1>0, <1>1 DEF Edited, Files, Jobs, Kinds
  <2>. QED  BY <1>0, <2>1 DEF Released
<1>2. CASE u = j.user
  <2>1. CASE j.kind = "add"
    <3>1. Edited(j, f)[u] = [role |-> j.role, password |-> j.password, must |-> TRUE]
      BY <1>0, <1>2, <2>1 DEF Edited, Files
    <3>. QED  BY <1>0, <3>1
  <2>2. CASE j.kind = "remove"
    BY <1>0, <1>2, <2>2 DEF Edited, Files
  <2>3. CASE j.kind \in {"reset", "set_role"}
    <3>1. f[u] \in Accounts /\ f[u] # Absent
      BY <1>0, <1>2, <2>3 DEF Allowed, Files
    <3>2. Edited(j, f)[u].must = f[u].must
      BY <1>0, <1>2, <2>3, <3>1 DEF Edited, Files, Accounts
    <3>. QED  BY <1>0, <3>1, <3>2 DEF Released
  <2>4. CASE j.kind = "change"
    BY <1>2, <2>4
  <2>. QED  BY <2>1, <2>2, <2>3, <2>4 DEF Jobs, Kinds
<1>. QED  BY <1>1, <1>2

LEMMA NothingReleased == Released(FirstFile) = {}
<1>1. \A u \in Users : FirstFile[u] # Absent => FirstFile[u].must
  BY DEF FirstFile
<1>. QED  BY <1>1 DEF Released

THEOREM GateInvHolds == Spec => []GateInv
<1>1. Init => GateInv
  <2>. SUFFICES ASSUME Init PROVE GateInv
    OBVIOUS
  <2>1. Released(session) = {}
    BY DEF Init, Released
  <2>. QED  BY <2>1, NothingReleased DEF Init, GateInv
<1>2. AdminInv /\ GateInv /\ [Next]_vars => GateInv'
  <2>. SUFFICES ASSUME AdminInv, GateInv, [Next]_vars PROVE GateInv'
    OBVIOUS
  <2>0. TypeOK
    BY DEF AdminInv
  <2>1. ASSUME NEW u \in Users, NEW p \in Passwords, Login(u, p)
        PROVE  GateInv'
    <3>1. file[u] \in Accounts /\ file[u] # Absent
      BY <2>0, <2>1 DEF Login, TypeOK, Files
    <3>2. Released(session') \subseteq Released(session) \cup Released(file)
      <4>. SUFFICES ASSUME NEW w \in Released(session')
                    PROVE  w \in Released(session) \cup Released(file)
        OBVIOUS
      <4>1. w \in Users /\ session'[w] # Absent /\ ~session'[w].must
        BY DEF Released
      <4>2. CASE w = u
        BY <2>0, <2>1, <3>1, <4>1, <4>2 DEF Login, Released, TypeOK, Accounts
      <4>3. CASE w # u
        BY <2>0, <2>1, <4>1, <4>3 DEF Login, Released, TypeOK
      <4>. QED  BY <4>2, <4>3
    <3>3. UNCHANGED <<file, pc, job, copy, rotated>>
      BY <2>1 DEF Login
    <3>. QED  BY <3>2, <3>3 DEF GateInv, Released
  <2>2. ASSUME NEW u \in Users, Logout(u)
        PROVE  GateInv'
    <3>1. Released(session') \subseteq Released(session)
      BY <2>0, <2>2 DEF Logout, Released, TypeOK
    <3>2. UNCHANGED <<file, pc, job, copy, rotated>>
      BY <2>2 DEF Logout
    <3>. QED  BY <3>1, <3>2 DEF GateInv, Released
  <2>3. ASSUME NEW t \in Threads, NEW j \in Jobs, AdminRequest(t, j)
        PROVE  GateInv'
    BY <2>0, <2>3 DEF AdminRequest, GateInv, TypeOK, Released
  <2>4. ASSUME NEW t \in Threads, NEW j \in Jobs, NEW p \in Passwords, ChangeRequest(t, j, p)
        PROVE  GateInv'
    BY <2>0, <2>4 DEF ChangeRequest, GateInv, TypeOK, Released
  <2>5. ASSUME NEW t \in Threads, LoadAgain(t)
        PROVE  GateInv'
    <3>1. CASE Allowed(job[t], file)
      BY <2>0, <2>5, <3>1 DEF LoadAgain, GateInv, TypeOK, Released
    <3>2. CASE ~Allowed(job[t], file)
      <4>1. \A i \in Threads : Released(copy'[i]) \subseteq rotated
        BY <2>0, <2>5, <3>2, NothingReleased DEF LoadAgain, Forget, GateInv, TypeOK
      <4>2. \A i \in Threads : pc'[i] # "idle" => job'[i] = job[i] /\ pc[i] # "idle"
        BY <2>0, <2>5, <3>2 DEF LoadAgain, Forget, TypeOK
      <4>3. UNCHANGED <<file, session, rotated>>
        BY <2>5 DEF LoadAgain
      <4>. QED  BY <4>1, <4>2, <4>3 DEF GateInv, Released
    <3>. QED  BY <3>1, <3>2
  <2>6. ASSUME NEW t \in Threads, Save(t)
        PROVE  GateInv'
    <3>1. job[t] \in Jobs /\ copy[t] \in Files /\ Allowed(job[t], copy[t])
          /\ file' = Edited(job[t], copy[t]) /\ rotated \subseteq rotated'
      BY <2>0, <2>6 DEF Save, TypeOK, AdminInv, CopiesInv
    <3>2. job[t].kind = "change" => job[t].user = job[t].by /\ job[t].by \in rotated'
      BY <2>6 DEF Save, GateInv
    <3>3. Released(file') \subseteq rotated'
      <4>. SUFFICES ASSUME NEW u \in Released(file') PROVE u \in rotated'
        OBVIOUS
      <4>1. u \in Released(copy[t]) \/ (job[t].kind = "change" /\ u = job[t].user)
        BY <3>1, EditedReleases
      <4>. QED  BY <3>1, <3>2, <4>1 DEF GateInv
    <3>4. Released(session') \subseteq rotated'
      <4>1. \A u \in Users \ {job[t].by} : session'[u] = session[u]
        BY <2>0, <2>6, <3>1 DEF Save, TypeOK, Jobs
      <4>2. job[t].kind # "change" => session' = session
        BY <2>6 DEF Save
      <4>. QED  BY <3>1, <3>2, <4>1, <4>2 DEF GateInv, Released
    <3>5. \A i \in Threads : Released(copy'[i]) \subseteq rotated'
      BY <2>0, <2>6, <3>1, NothingReleased DEF Save, Forget, GateInv, TypeOK
    <3>6. \A i \in Threads : pc'[i] # "idle" => job'[i] = job[i] /\ pc[i] # "idle"
      BY <2>0, <2>6 DEF Save, Forget, TypeOK
    <3>. QED  BY <3>3, <3>4, <3>5, <3>6 DEF GateInv, Released
  <2>7. CASE UNCHANGED vars
    BY <2>7 DEF vars, GateInv, Released
  <2>. QED  BY <2>1, <2>2, <2>3, <2>4, <2>5, <2>6, <2>7 DEF Next
<1>. QED  BY <1>1, <1>2, AdminInvHolds, PTL DEF Spec

(* Nobody administers under a password that somebody else has chosen for   *)
(* him before he has ever changed it: the rotation gate of auth.py.        *)
THEOREM GateHolds == Spec => []AdminsHaveRotated
<1>1. GateInv => AdminsHaveRotated
  BY DEF GateInv, AdminsHaveRotated, AdminSession, Released
<1>. QED  BY <1>1, GateInvHolds, PTL
=============================================================================
