------------------------------- MODULE Access -------------------------------
(***************************************************************************)
(* Accounts, sessions and their audit events (nfx.identity).  A request    *)
(* resolves its session, locks and checks rows, appends its event and      *)
(* commits; any number of requests interleave, and any of them may be      *)
(* rolled back (a failure, a dropped connection, a deadlock victim).       *)
(***************************************************************************)
EXTENDS AuditTrail, FiniteSets, FiniteSetsExt

CONSTANTS
    Users,      \* accounts, numbered in the order of their ids
    Roles,
    Tokens      \* session rows, numbered in the order of their creation

ASSUME AccessAssumption ==
    /\ IsFiniteSet(Users) /\ Users \subseteq Nat \ {0} /\ Users # {}
    /\ IsFiniteSet(Tokens) /\ Tokens \subseteq Nat
    /\ {"administrator", "viewer"} \subseteq Roles

VARIABLES
    user,       \* nfx_identity user rows; offs counts deactivations (history)
    session,    \* session rows; password and offs are those of the login (history)
    rowLock,    \* the request whose transaction holds a user row
    req         \* what each request is doing

accessVars == <<user, session, rowLock, req>>

Boot == Min(Users)      \* the installation's first administrator
Absent == [exists |-> FALSE, role |-> "viewer", active |-> FALSE, revocation |-> 1, version |-> 0,
           password |-> 0, offs |-> 0]
Closed == [state |-> "none", user |-> Boot, revocation |-> 0, password |-> 0, offs |-> 0]
IdleReq == [pc |-> "idle", op |-> "none", token |-> NoRequest, target |-> Boot,
            role |-> "viewer", version |-> 0, row |-> Absent, todo |-> {}, kept |-> {}]

AccessInit ==
    /\ user = [u \in Users |-> Absent]
    /\ session = [t \in Tokens |-> Closed]
    /\ rowLock = [u \in Users |-> NoRequest]
    /\ req = [r \in Requests |-> IdleReq]

----------------------------------------------------------------------------
(* Helpers.                                                                *)

Active(u) == user[u].exists /\ user[u].active
Administrators == {u \in Users : Active(u) /\ user[u].role = "administrator"}
Context(row) == <<row.role, row.active>>
FreshUser(role) == [Absent EXCEPT !.exists = TRUE, !.role = role, !.active = TRUE, !.version = 1]

\* authorize: every role may change its own password, only an administrator
\* administers users.
Authorize(role, op) == role = "administrator" \/ op = "own_password"

\* resolve_session's first reading finds the session usable.
Resolves(t) ==
    /\ session[t].state = "open"
    /\ Active(session[t].user)
    /\ session[t].revocation = user[session[t].user].revocation

Finish(r) ==
    /\ req' = [req EXCEPT ![r] = IdleReq]
    /\ rowLock' = [u \in Users |-> IF rowLock[u] = r THEN NoRequest ELSE rowLock[u]]

----------------------------------------------------------------------------
(* Bootstrap, login and logout.                                            *)

\* bootstrap_first_administrator: the advisory lock makes the emptiness check and
\* the insert one step.  No event is appended.
Bootstrap ==
    /\ \A u \in Users : ~user[u].exists
    /\ user' = [user EXCEPT ![Boot] = FreshUser("administrator")]
    /\ UNCHANGED <<session, rowLock, req, auditVars>>

\* authenticate: the account is read without a lock; the credentials are right or not.
\* An insert that refers to the account waits for its row lock in PostgreSQL: leaving
\* that out only adds interleavings.
ReadCredentials(r, u, valid) ==
    /\ req[r].pc = "idle"
    /\ valid => Active(u)
    /\ req' = [req EXCEPT ![r] = [IdleReq EXCEPT !.pc = "append", !.target = u, !.row = user[u],
                                                 !.op = IF valid THEN "login" ELSE "denied"]]
    /\ UNCHANGED <<user, session, rowLock, auditVars>>

\* revoke_session: only a session that is not revoked yet has a logout event.
ReadLogout(r, t) ==
    /\ req[r].pc = "idle"
    /\ session[t].state \in {"open", "timed_out"}
    /\ req' = [req EXCEPT ![r] = [IdleReq EXCEPT !.pc = "append", !.op = "logout", !.token = t,
                                                 !.target = session[t].user]]
    /\ UNCHANGED <<user, session, rowLock, auditVars>>

\* The idle timeout passes.
TimeOut(t) ==
    /\ session[t].state = "open"
    /\ session' = [session EXCEPT ![t].state = "timed_out"]
    /\ UNCHANGED <<user, rowLock, req, auditVars>>

\* resolve_session of a session that timed out or was cut off: it is revoked and the
\* expiry reported.  A session of an inactive account is refused and left as it is.
RevokeStale(r, t) ==
    /\ req[r].pc = "idle"
    /\ session[t].state \in {"open", "timed_out"}
    /\ Active(session[t].user)
    /\ ~Resolves(t)
    /\ session' = [session EXCEPT ![t].state = "revoked"]
    /\ req' = [req EXCEPT ![r] = [IdleReq EXCEPT !.pc = "append", !.op = "expired",
                                                 !.target = session[t].user]]
    /\ UNCHANGED <<user, rowLock, auditVars>>

----------------------------------------------------------------------------
(* Administration of users.                                                *)

UserOps == {"create", "update", "role", "reset", "activate", "deactivate", "own_password"}

\* protected: the session is read and its role authorized.  The client names the
\* account and the version it was shown.
Request(r, t, op, u, role) ==
    /\ req[r].pc = "idle"
    /\ Resolves(t)
    /\ Authorize(user[session[t].user].role, op)
    /\ op # "create" => user[u].exists
    /\ op = "own_password" => u = session[t].user
    /\ op \notin {"create", "role"} => role = "viewer"
    /\ req' = [req EXCEPT ![r] = [IdleReq EXCEPT !.pc = "touch", !.token = t, !.op = op,
                                                 !.target = u, !.role = role,
                                                 !.version = user[u].version, !.row = user[u]]]
    /\ UNCHANGED <<user, session, rowLock, auditVars>>

\* The conditional update that prolongs the session: it compares with the clock read at
\* the start of the request.
Touch(r) ==
    LET t == req[r].token
        good == /\ session[t].state \in {"open", "timed_out"}
                /\ Active(session[t].user)
                /\ session[t].revocation = user[session[t].user].revocation
    IN  /\ req[r].pc = "touch"
        /\ session' = IF good THEN [session EXCEPT ![t].state = "open"] ELSE session
        /\ IF good THEN req' = [req EXCEPT ![r].pc = "actor"] ELSE req' = [req EXCEPT ![r] = IdleReq]
        /\ UNCHANGED <<user, rowLock, auditVars>>

\* The view resolves the session once more; _require_administrator looks at this role.
Actor(r) ==
    LET t == req[r].token
    IN  /\ req[r].pc = "actor"
        /\ IF Resolves(t) /\ Authorize(user[session[t].user].role, req[r].op)
           THEN req' = [req EXCEPT ![r].pc = "lock"]
           ELSE req' = [req EXCEPT ![r] = IdleReq]
        /\ UNCHANGED <<user, session, rowLock, auditVars>>

LosesAdministrator(op, role) == op = "deactivate" \/ (op = "role" /\ role # "administrator")

Accepted(r, row) ==
    CASE req[r].op = "create" -> ~row.exists
      [] req[r].op = "own_password" -> row.active /\ row.password = req[r].row.password
      [] OTHER -> row.version = req[r].version

\* Mutant: the row is read without FOR UPDATE.
LockTarget_Read(r) ==
    LET u == req[r].target
    IN  /\ req[r].pc = "lock"
        /\ Accepted(r, user[u])
        /\ req' = [req EXCEPT ![r] = [@ EXCEPT
              !.pc = IF LosesAdministrator(req[r].op, req[r].role) /\ u \in Administrators
                     THEN "admins" ELSE "append",
              !.row = user[u]]]
        /\ UNCHANGED <<rowLock, user, session, auditVars>>

\* SELECT ... FOR UPDATE of the account and _assert_version; a new account takes its
\* place in the unique index of e-mails instead.
LockTarget(r) ==
    LET u == req[r].target
    IN  /\ req[r].pc = "lock"
        /\ rowLock[u] = NoRequest
        /\ IF ~Accepted(r, user[u]) THEN Finish(r)
           ELSE /\ rowLock' = [rowLock EXCEPT ![u] = r]
                /\ req' = [req EXCEPT ![r] = [@ EXCEPT
                      !.pc = IF LosesAdministrator(req[r].op, req[r].role) /\ u \in Administrators
                             THEN "admins" ELSE "append",
                      !.row = user[u]]]
        /\ UNCHANGED <<user, session, auditVars>>

\* Mutant: the administrators are counted without locking their rows.
ListAdministrators_Count(r) ==
    /\ req[r].pc = "admins"
    /\ IF Administrators = {req[r].target} THEN Finish(r)
       ELSE /\ req' = [req EXCEPT ![r].pc = "append"]
            /\ UNCHANGED rowLock
    /\ UNCHANGED <<user, session, auditVars>>

\* _assert_not_last_administrator: its query starts; the rows are locked one by one in
\* the order of their ids.
ListAdministrators(r) ==
    /\ req[r].pc = "admins"
    /\ req' = [req EXCEPT ![r] = [@ EXCEPT !.pc = "count", !.todo = Administrators]]
    /\ UNCHANGED <<user, session, rowLock, auditVars>>

\* A row that was changed while its lock was awaited is read again and may drop out.
LockAdministrator(r) ==
    LET u == Min(req[r].todo)
        kept == req[r].kept \cup ({u} \cap Administrators)
        todo == req[r].todo \ {u}
    IN  /\ req[r].pc = "count"
        /\ rowLock[u] \in {NoRequest, r}
        /\ IF todo = {} /\ kept = {req[r].target} THEN Finish(r)
           ELSE /\ rowLock' = [rowLock EXCEPT ![u] = r]
                /\ req' = [req EXCEPT ![r] = [@ EXCEPT !.todo = todo, !.kept = kept,
                                                        !.pc = IF todo = {} THEN "append" ELSE "count"]]
        /\ UNCHANGED <<user, session, auditVars>>

AppendEvent(r) ==
    /\ req[r].pc = "append"
    /\ LockChain(r)
    /\ req' = [req EXCEPT ![r].pc = "commit"]
    /\ UNCHANGED <<user, session, rowLock>>

\* What an operation makes of the row it locked.
Changed(row, op, role) ==
    LET next == [row EXCEPT !.version = @ + 1]
    IN  CASE op = "create" -> FreshUser(role)
          [] op = "update" -> next
          [] op = "role" -> [next EXCEPT !.role = role]
          [] op \in {"reset", "own_password"} -> [next EXCEPT !.password = @ + 1, !.revocation = @ + 1]
          [] op = "activate" -> [next EXCEPT !.active = TRUE]
          [] op = "deactivate" -> [next EXCEPT !.active = FALSE, !.offs = @ + 1, !.revocation = @ + 1]

CommitUser(r) ==
    LET row == req[r].row
        new == Changed(row, req[r].op, req[r].role)
    IN  /\ req[r].pc = "commit"
        /\ req[r].op \in UserOps
        /\ user' = [user EXCEPT ![req[r].target] = new]
        /\ CommitEvent(r, [about |-> req[r].target, kind |-> "user",
                           before |-> IF row.exists THEN Context(row) ELSE <<>>,
                           after |-> Context(new)])
        /\ Finish(r)
        /\ UNCHANGED session

\* Mutant: the session is opened with the revocation version of the moment.
OpenedSession_Fresh(r) ==
    [state |-> "open", user |-> req[r].target, revocation |-> user[req[r].target].revocation,
     password |-> req[r].row.password, offs |-> req[r].row.offs]

\* The session carries the revocation version read with the credentials.
OpenedSession(r) ==
    [state |-> "open", user |-> req[r].target, revocation |-> req[r].row.revocation,
     password |-> req[r].row.password, offs |-> req[r].row.offs]

\* login_success, login_failure, logout and session_expired.
CommitAuth(r) ==
    /\ req[r].pc = "commit"
    /\ req[r].op \notin UserOps
    /\ CASE req[r].op = "login" -> LET free == {t \in Tokens : session[t].state = "none"}
                                   IN  /\ free # {}
                                       /\ session' = [session EXCEPT ![Min(free)] = OpenedSession(r)]
         [] req[r].op = "logout" -> session' = [session EXCEPT ![req[r].token].state = "revoked"]
         [] OTHER -> UNCHANGED session
    /\ CommitEvent(r, [about |-> req[r].target, kind |-> "auth", before |-> <<>>, after |-> <<>>])
    /\ Finish(r)
    /\ UNCHANGED user

\* The transaction is rolled back.
Abort(r) ==
    /\ req[r].pc \notin {"idle", "touch", "actor"}
    /\ ReleaseChain(r)
    /\ Finish(r)
    /\ UNCHANGED <<user, session>>

----------------------------------------------------------------------------

AccessNext ==
    \/ Bootstrap
    \/ \E t \in Tokens : TimeOut(t)
    \/ \E r \in Requests :
          \/ \E u \in Users, valid \in BOOLEAN : ReadCredentials(r, u, valid)
          \/ \E t \in Tokens : ReadLogout(r, t) \/ RevokeStale(r, t)
          \/ \E t \in Tokens, op \in UserOps, u \in Users, role \in Roles : Request(r, t, op, u, role)
          \/ Touch(r) \/ Actor(r) \/ LockTarget(r) \/ ListAdministrators(r) \/ LockAdministrator(r)
          \/ AppendEvent(r) \/ CommitUser(r) \/ CommitAuth(r) \/ Abort(r)

AccessSpec == AuditInit /\ AccessInit /\ [][AccessNext]_<<auditVars, accessVars>>

----------------------------------------------------------------------------
(* Properties.                                                             *)

\* Every variable keeps its type.
AccessTypeOK ==
    /\ AuditTypeOK
    /\ \A u \in Users : user[u].role \in Roles /\ user[u].version \in 0..(MaxEvents + 1)
    /\ \A t \in Tokens : session[t].state \in {"none", "open", "timed_out", "revoked"}
    /\ rowLock \in [Users -> Requests \cup {NoRequest}]
    /\ \A r \in Requests : req[r].pc \in {"idle", "touch", "actor", "lock", "admins", "count",
                                          "append", "commit"}

\* The variables keep their types, and an installation never loses its last active
\* administrator, whichever demotions and deactivations of different administrators run
\* at once (_assert_not_last_administrator).
AccessInv ==
    /\ AccessTypeOK
    /\ (\E u \in Users : user[u].exists) => Administrators # {}

\* Where an account's events are in the trail, and what those at the positions S say
\* of it in the end; the bootstrap has no event.
EventsOf(u) == {i \in DOMAIN log : log[i].payload.kind = "user" /\ log[i].payload.about = u}
LastContext(u, S) ==
    IF S # {} THEN log[Max(S)].payload.after
    ELSE IF u = Boot THEN <<"administrator", TRUE>> ELSE <<>>

\* The trail alone explains every account: one event per version, each starting from
\* where the one before it ended, the last one ending at the row - across concurrent
\* changes of one account and rollbacks (every mutation appends in its own
\* transaction, under the row lock) - and the verifier accepts it (append locks the
\* chain row).
TrailExplainsUsers ==
    /\ Verify
    /\ \A u \in Users : user[u].exists =>
        /\ user[u].version = Cardinality(EventsOf(u)) + (IF u = Boot THEN 1 ELSE 0)
        /\ \A i \in EventsOf(u) :
              log[i].payload.before = LastContext(u, {j \in EventsOf(u) : j < i})
        /\ Context(user[u]) = LastContext(u, EventsOf(u))

\* A session that resolves was opened with the password the account has now, and the
\* account was not deactivated since: also a login that raced the reset or the
\* deactivation opens a dead session.
StaleSessionsDead ==
    \A t \in Tokens : Resolves(t) =>
        /\ session[t].password = user[session[t].user].password
        /\ session[t].offs = user[session[t].user].offs

============================================================================
