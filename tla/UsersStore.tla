----------------------------- MODULE UsersStore -----------------------------
(***************************************************************************)
(* UsersStore (app/services/users_store.py) with the routes and sessions   *)
(* that use it (app/blueprints/auth.py, settings.py).                      *)
(*                                                                         *)
(* Every operation reads users.json, checks and edits its own copy and     *)
(* writes the whole copy back.  Only the write holds the lock: between the *)
(* read and the write other requests read and write too, and the last      *)
(* write wins.  A session keeps the role and the flag it was given at      *)
(* login, in its cookie, until logout.                                     *)
(***************************************************************************)
EXTENDS Naturals, FiniteSets

CONSTANTS
  Users,              \* usernames, distinct when case is ignored
  Bootstrap,          \* the username of the first boot: admin
  Passwords,          \* of at least four characters
  BootstrapPassword,
  Absent,             \* not in the file, or no session
  Threads,            \* request threads
  MaxWrites           \* bound: writes in one behaviour

ASSUME UsersAssumption ==
  /\ IsFiniteSet(Users)
  /\ Bootstrap \in Users
  /\ BootstrapPassword \in Passwords
  /\ Absent \notin [role : {"admin", "user"}, password : Passwords, must : BOOLEAN]
  /\ Absent \notin [role : {"admin", "user"}, must : BOOLEAN]
  /\ MaxWrites \in Nat

VARIABLES
  file,      \* users.json: [Users -> record or Absent]
  session,   \* [Users -> role and must_change_password in the cookie, or Absent]
  pc,        \* [Threads -> "idle", "load" or "save"]
  job,       \* [Threads -> the request being served]
  copy,      \* [Threads -> the users as the request last read them]
  cookie,    \* [Threads -> the session that a self-service change came with]
  writes,    \* writes so far
  rotated    \* users who have changed their own password (kept for the properties only)

vars == <<file, session, pc, job, copy, cookie, writes, rotated>>

Roles == {"admin", "user"}
Accounts == [role : Roles, password : Passwords, must : BOOLEAN]
Sessions == [role : Roles, must : BOOLEAN]
Files == [Users -> Accounts \cup {Absent}]

Kinds == {"add", "remove", "reset", "set_role", "change"}
Jobs == [kind : Kinds, by : Users, user : Users, role : Roles, password : Passwords]

TypeOK ==
  /\ file \in Files
  /\ session \in [Users -> Sessions \cup {Absent}]
  /\ pc \in [Threads -> {"idle", "load", "save"}]
  /\ job \in [Threads -> Jobs]
  /\ copy \in [Threads -> Files]
  /\ cookie \in [Threads -> Sessions]
  /\ writes \in Nat
  /\ rotated \subseteq Users

FirstFile ==
  [u \in Users |-> IF u = Bootstrap
                   THEN [role |-> "admin", password |-> BootstrapPassword, must |-> TRUE]
                   ELSE Absent]

NoJob == [kind |-> "change", by |-> Bootstrap, user |-> Bootstrap, role |-> "user",
          password |-> BootstrapPassword]
NoCookie == [role |-> "user", must |-> TRUE]

Init ==
  /\ file = FirstFile
  /\ session = [u \in Users |-> Absent]
  /\ pc = [t \in Threads |-> "idle"]
  /\ job = [t \in Threads |-> NoJob]
  /\ copy = [t \in Threads |-> FirstFile]
  /\ cookie = [t \in Threads |-> NoCookie]
  /\ writes = 0
  /\ rotated = {}

\* login: verify reads the file, and its answer becomes the cookie.
Login(u, password) ==
  /\ file[u] # Absent
  /\ file[u].password = password
  /\ session' = [session EXCEPT ![u] = [role |-> file[u].role, must |-> file[u].must]]
  /\ UNCHANGED <<file, pc, job, copy, cookie, writes, rotated>>

Logout(u) ==
  /\ session[u] # Absent
  /\ session' = [session EXCEPT ![u] = Absent]
  /\ UNCHANGED <<file, pc, job, copy, cookie, writes, rotated>>

Admins(f) == {u \in Users : f[u] # Absent /\ f[u].role = "admin"}

\* admin_required behind the password-rotation gate.
AdminSession(u) == session[u] # Absent /\ session[u].role = "admin" /\ ~session[u].must

\* A mistake the runs must detect: only removal looks for the last admin.
Bug_AllowedNoDemoteCheck(j, f) ==
  CASE j.kind = "add"      -> f[j.user] = Absent
    [] j.kind = "remove"   -> f[j.user] # Absent /\ Admins(f) # {j.user}
    [] j.kind = "reset"    -> f[j.user] # Absent
    [] j.kind = "set_role" -> f[j.user] # Absent
    [] j.kind = "change"   -> f[j.user] # Absent

(***************************************************************************)
(* The checks each operation makes on the copy f it has read.              *)
(***************************************************************************)
Allowed(j, f) ==
  CASE j.kind = "add"      -> f[j.user] = Absent
    [] j.kind = "remove"   -> f[j.user] # Absent /\ Admins(f) # {j.user}
    [] j.kind = "reset"    -> f[j.user] # Absent
    [] j.kind = "set_role" -> f[j.user] # Absent
                              /\ (j.role # "admin" => Admins(f) # {j.user})
    [] j.kind = "change"   -> f[j.user] # Absent

\* A mistake the runs must detect: a reset takes the flag away, as one's own change does.
Bug_ResetClearsFlag(j, f) ==
  CASE j.kind = "add"      -> [f EXCEPT ![j.user] = [role |-> j.role, password |-> j.password,
                                                     must |-> TRUE]]
    [] j.kind = "remove"   -> [f EXCEPT ![j.user] = Absent]
    [] j.kind = "set_role" -> [f EXCEPT ![j.user].role = j.role]
    [] j.kind \in {"reset", "change"} -> [f EXCEPT ![j.user].password = j.password,
                                                   ![j.user].must = FALSE]

(***************************************************************************)
(* The edit each operation makes: add_user (must_change_password defaults  *)
(* to true), remove_user, set_password as reset_password calls it (the     *)
(* flag stays), set_role, set_password as change_own_password calls it.    *)
(***************************************************************************)
Edited(j, f) ==
  CASE j.kind = "add"      -> [f EXCEPT ![j.user] = [role |-> j.role, password |-> j.password,
                                                     must |-> TRUE]]
    [] j.kind = "remove"   -> [f EXCEPT ![j.user] = Absent]
    [] j.kind = "reset"    -> [f EXCEPT ![j.user].password = j.password]
    [] j.kind = "set_role" -> [f EXCEPT ![j.user].role = j.role]
    [] j.kind = "change"   -> [f EXCEPT ![j.user].password = j.password,
                                        ![j.user].must = FALSE]

(***************************************************************************)
(* An admin's request: the route's own refusals, then the read and checks. *)
(* A refused request changes nothing and is left out.                      *)
(***************************************************************************)
AdminRequest(t, j) ==
  /\ pc[t] = "idle"
  /\ j.kind # "change"
  /\ AdminSession(j.by)
  /\ j.kind = "remove" => j.user # j.by
  /\ Allowed(j, file)
  /\ job' = [job EXCEPT ![t] = j]
  /\ copy' = [copy EXCEPT ![t] = file]
  /\ pc' = [pc EXCEPT ![t] = "save"]
  /\ UNCHANGED <<file, session, cookie, writes, rotated>>

\* change_own_password: verify reads the file once, set_password reads it again.
ChangeRequest(t, j, current) ==
  /\ pc[t] = "idle"
  /\ j.kind = "change"
  /\ j.user = j.by
  /\ session[j.by] # Absent
  /\ file[j.user] # Absent
  /\ file[j.user].password = current
  /\ j.password # current
  /\ job' = [job EXCEPT ![t] = j]
  /\ cookie' = [cookie EXCEPT ![t] = session[j.by]]
  /\ pc' = [pc EXCEPT ![t] = "load"]
  /\ UNCHANGED <<file, session, copy, writes, rotated>>

\* The request is over, and with it all that its thread has read.
Forget(t) ==
  /\ pc' = [pc EXCEPT ![t] = "idle"]
  /\ job' = [job EXCEPT ![t] = NoJob]
  /\ copy' = [copy EXCEPT ![t] = FirstFile]
  /\ cookie' = [cookie EXCEPT ![t] = NoCookie]

LoadAgain(t) ==
  /\ pc[t] = "load"
  /\ IF Allowed(job[t], file)
       THEN copy' = [copy EXCEPT ![t] = file] /\ pc' = [pc EXCEPT ![t] = "save"]
            /\ UNCHANGED <<job, cookie>>
       ELSE Forget(t)
  /\ UNCHANGED <<file, session, writes, rotated>>

\* _save, and the reply: that of a self-service change sends its cookie back, less the flag.
Save(t) ==
  /\ pc[t] = "save"
  /\ writes < MaxWrites
  /\ writes' = writes + 1
  /\ file' = Edited(job[t], copy[t])
  /\ session' = IF job[t].kind = "change"
                THEN [session EXCEPT ![job[t].by] = [cookie[t] EXCEPT !.must = FALSE]]
                ELSE session
  /\ rotated' = IF job[t].kind = "change" THEN rotated \cup {job[t].by} ELSE rotated
  /\ Forget(t)

Next ==
  \/ \E u \in Users : Logout(u) \/ \E p \in Passwords : Login(u, p)
  \/ \E t \in Threads :
       \/ \E j \in Jobs : AdminRequest(t, j) \/ \E p \in Passwords : ChangeRequest(t, j, p)
       \/ LoadAgain(t)
       \/ Save(t)

Spec == Init /\ [][Next]_vars

-----------------------------------------------------------------------------
(* There is always an admin ("cannot remove the only admin", "cannot       *)
(* demote the only admin"), although each request checks this on a copy    *)
(* that other requests may have made stale before it is written back.      *)
AdminRemains == Admins(file) # {}

(* "Locked behind a server-enforced password-rotation gate": whoever       *)
(* administers has at some time changed the password that an admin or the  *)
(* first boot gave, however copies, cookies and their flags overtake each  *)
(* other.                                                                  *)
AdminsHaveRotated == \A u \in Users : AdminSession(u) => u \in rotated
=============================================================================
