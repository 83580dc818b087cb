---------------------------- MODULE Access_proofs ----------------------------
(***************************************************************************)
(* Theorems about Access and AuditTrail: for every set of accounts, roles  *)
(* and sessions, and any number of concurrent requests and rollbacks.      *)
(***************************************************************************)
EXTENDS Access, FiniteSetTheorems, SequenceTheorems, WellFoundedInduction, TLAPS

----------------------------------------------------------------------------
(* Types.                                                                  *)

Contexts == {<<>>} \cup (Roles \X BOOLEAN)
Payloads == [about : Users, kind : {"user", "auth"}, before : Contexts, after : Contexts]
Digests == Seq(Nat \X Payloads)
Entries == [sequence : Nat, payload : Payloads, previous : Digests, hash : Digests]

UserRows == [exists : BOOLEAN, role : Roles, active : BOOLEAN, revocation : Nat,
             version : Nat, password : Nat, offs : Nat]
Sessions == [state : {"none", "open", "timed_out", "revoked"}, user : Users,
             revocation : Nat, password : Nat, offs : Nat]
AuthOps == {"none", "login", "denied", "logout", "expired"}
Pcs == {"idle", "touch", "actor", "lock", "admins", "count", "append", "commit"}
Work == [pc : Pcs, op : UserOps \cup AuthOps, token : Tokens \cup {NoRequest}, target : Users,
         role : Roles, version : Nat, row : UserRows, todo : SUBSET Users, kept : SUBSET Users]

----------------------------------------------------------------------------
(* The audit chain.                                                        *)

\* The chain row describes the last committed event, and whoever holds it has room
\* for another one.
LastHash == IF log = <<>> THEN Genesis ELSE log[Len(log)].hash
AuditOK ==
    /\ log \in Seq(Entries)
    /\ chain \in [sequence : Nat, hash : Digests]
    /\ chainLock \in Requests \cup {NoRequest}
    /\ chain.sequence = Len(log)
    /\ chain.hash = LastHash
    /\ Len(log) <= MaxEvents
    /\ chainLock # NoRequest => Len(log) < MaxEvents
    /\ Verify

\* An event is a row of the trail.
LEMMA EventTyped ==
    ASSUME AuditOK, NEW p \in Payloads
    PROVE  EventRow(p) \in Entries
<1>1. chain.sequence \in Nat /\ chain.hash \in Digests
  BY DEF AuditOK
<1>2. chain.sequence + 1 \in Nat
  BY <1>1
<1>3. PICK x \in Nat \X Payloads : x = <<chain.sequence + 1, p>>
  BY <1>2
<1>4. Append(chain.hash, x) \in Digests
  BY <1>1 DEF Digests
<1>5. EventHash(chain.hash, chain.sequence + 1, p) \in Digests
  BY <1>3, <1>4 DEF EventHash
<1>6. QED
  BY <1>1, <1>2, <1>5 DEF EventRow, Entries

\* What a committed event adds to the trail.
LEMMA EventAdded ==
    ASSUME AuditOK, NEW r \in Requests, NEW p \in Payloads, CommitEvent(r, p)
    PROVE  /\ Len(log') = Len(log) + 1 /\ Len(log) \in Nat
           /\ DOMAIN log = 1..Len(log) /\ DOMAIN log' = 1..(Len(log) + 1)
           /\ \A i \in 1..Len(log) : log'[i] = log[i]
           /\ log'[Len(log) + 1] = EventRow(p)
           /\ log' \in Seq(Entries)
<1>1. PICK e \in Entries : e = EventRow(p)
  BY EventTyped
<1>2. log \in Seq(Entries) /\ log' = Append(log, e)
  BY <1>1 DEF AuditOK, CommitEvent
<1>3. Len(log) \in Nat /\ DOMAIN log = 1..Len(log)
  BY <1>2
<1>4. /\ Len(log') = Len(log) + 1 /\ log' \in Seq(Entries)
      /\ \A i \in 1..Len(log) : log'[i] = log[i]
      /\ log'[Len(log) + 1] = e
  BY <1>2, <1>3
<1>5. DOMAIN log' = 1..(Len(log) + 1)
  BY <1>3, <1>4
<1>6. QED
  BY <1>1, <1>3, <1>4, <1>5

\* AuditService.append extends a trail the verifier accepts to one it accepts.
LEMMA CommitKeepsAudit ==
    ASSUME AuditOK, NEW r \in Requests, NEW p \in Payloads, CommitEvent(r, p)
    PROVE  AuditOK'
<1>1. PICK n \in Nat : n = Len(log)
  BY EventAdded
<1>2. /\ Len(log') = n + 1 /\ DOMAIN log = 1..n /\ DOMAIN log' = 1..(n + 1)
      /\ \A i \in 1..n : log'[i] = log[i]
      /\ log'[n + 1] = EventRow(p)
      /\ log' \in Seq(Entries)
  BY <1>1, EventAdded
<1>3. chain.sequence = n /\ chain.hash = LastHash /\ chain \in [sequence : Nat, hash : Digests]
  BY <1>1 DEF AuditOK
<1>4. PICK e \in Entries : e = EventRow(p)
  BY EventTyped
<1>5. /\ e.sequence = n + 1 /\ e.payload = p /\ e.previous = chain.hash
      /\ e.hash = EventHash(chain.hash, n + 1, p)
  BY <1>3, <1>4 DEF EventRow
<1>6. chain' = [sequence |-> n + 1, hash |-> e.hash] /\ chainLock' = NoRequest /\ chainLock = r
  BY <1>3, <1>4 DEF CommitEvent
<1>7. n < MaxEvents
  BY <1>1, <1>6, AuditAssumption DEF AuditOK
<1>8. chain' \in [sequence : Nat, hash : Digests]
  BY <1>1, <1>4, <1>6 DEF Entries
<1>9. log' # <<>>
  BY <1>1, <1>2
<1>10. LastHash' = e.hash
  BY <1>2, <1>4, <1>9 DEF LastHash
<1>11. Verify'
  <2> SUFFICES ASSUME NEW i \in 1..(n + 1), NEW h,
                      h = IF i = 1 THEN Genesis ELSE log'[i - 1].hash
               PROVE  /\ log'[i].sequence = i
                      /\ log'[i].previous = h
                      /\ log'[i].hash = EventHash(h, i, log'[i].payload)
    BY <1>2 DEF Verify, EventHash, Genesis
  <2>1. CASE i \in 1..n
    <3>1. log'[i] = log[i] /\ (i # 1 => log'[i - 1] = log[i - 1])
      BY <1>1, <1>2, <2>1
    <3>2. h = IF i = 1 THEN Genesis ELSE log[i - 1].hash
      BY <3>1
    <3>3. QED
      BY <1>2, <2>1, <3>1, <3>2 DEF AuditOK, Verify
  <2>2. CASE i = n + 1
    <3>1. h = chain.hash
      <4>1. CASE n = 0
        <5>1. log = <<>>
          BY <1>1, <4>1, EmptySeq DEF AuditOK
        <5>2. QED
          BY <1>1, <1>3, <2>2, <4>1, <5>1 DEF LastHash
      <4>2. CASE n # 0
        <5>1. log # <<>> /\ i # 1 /\ i - 1 = n /\ n \in 1..n
          BY <1>1, <2>2, <4>2
        <5>2. log'[i - 1] = log[n]
          BY <1>2, <5>1
        <5>3. QED
          BY <1>1, <1>3, <5>1, <5>2 DEF LastHash
      <4>3. QED
        BY <4>1, <4>2
    <3>2. QED
      BY <1>2, <1>4, <1>5, <2>2, <3>1
  <2>3. QED
    BY <1>1, <2>1, <2>2
<1>12. QED
  BY <1>1, <1>2, <1>6, <1>7, <1>8, <1>10, <1>11, AuditAssumption DEF AuditOK

\* Taking and leaving the chain row.
LEMMA LockKeepsAudit ==
    ASSUME AuditOK, UNCHANGED <<log, chain>>, chainLock' \in Requests \cup {NoRequest},
           chainLock' # NoRequest => Len(log) < MaxEvents
    PROVE  AuditOK'
BY DEF AuditOK, LastHash, Verify

----------------------------------------------------------------------------
(* The inductive invariant.                                                *)

\* An account that does not exist has never been written; the first one is the
\* bootstrap's; there is one event at least for every later version.
Occupied == \E u \in Users : user[u].exists
UsersOK ==
    /\ \A u \in Users : /\ ~user[u].exists => user[u] = Absent
                        /\ user[u].revocation >= 1
                        /\ user[u].version <= Len(log) + 1
    /\ Occupied => user[Boot].exists /\ Administrators # {}

\* Credentials c, read or kept, are not newer than account u; when their revocation
\* version is still its, so are the password and the deactivations.
Fresh(c, u) ==
    /\ c.revocation <= user[u].revocation
    /\ c.revocation = user[u].revocation =>
          c.password = user[u].password /\ c.offs = user[u].offs

SessionsOK == \A t \in Tokens : Fresh(session[t], session[t].user)

\* The trail explains account u.
TrailOK(u) ==
    IF user[u].exists
    THEN /\ user[u].version = Cardinality(EventsOf(u)) + (IF u = Boot THEN 1 ELSE 0)
         /\ \A i \in EventsOf(u) :
               log[i].payload.before = LastContext(u, {j \in EventsOf(u) : j < i})
         /\ Context(user[u]) = LastContext(u, EventsOf(u))
    ELSE EventsOf(u) = {}
TrailsOK == \A u \in Users : TrailOK(u)

\* A request q of r has read the row it locked; when it is about to take an
\* administrator away it has locked another one.
Spare(r, q) == \E v \in Administrators \ {q.target} : rowLock[v] = r
RequestOK(r, q) ==
    /\ q.pc \in {"touch", "actor", "lock", "admins", "count"} => q.op \in UserOps
    /\ q.op \in UserOps => Occupied /\ (q.op # "create" => user[q.target].exists)
    /\ q.op \in UserOps \cup {"logout"} => q.token \in Tokens
    /\ q.op \in UserOps /\ q.pc \in {"admins", "count", "append", "commit"} =>
          /\ rowLock[q.target] = r /\ q.row = user[q.target]
          /\ q.op = "create" => ~q.row.exists
    /\ q.pc \in {"admins", "count"} => q.target \in Administrators
    /\ \A v \in q.kept : v \in Administrators /\ rowLock[v] = r
    /\ q.pc = "count" => q.todo # {} /\ q.target \in q.todo \cup q.kept
    /\ /\ q.pc \in {"append", "commit"} /\ q.op \in UserOps
       /\ LosesAdministrator(q.op, q.role) /\ q.target \in Administrators
       => Spare(r, q)
    /\ q.op = "login" => Fresh(q.row, q.target)

RequestsOK == \A r \in Requests : RequestOK(r, req[r])

TablesTyped ==
    /\ user \in [Users -> UserRows]
    /\ session \in [Tokens -> Sessions]
    /\ rowLock \in [Users -> Requests \cup {NoRequest}]

TablesOK == TablesTyped /\ AuditOK /\ UsersOK /\ SessionsOK /\ TrailsOK

IInv ==
    /\ TablesOK
    /\ req \in [Requests -> Work]
    /\ RequestsOK

----------------------------------------------------------------------------
(* Facts about the operators.                                              *)

\* A set of accounts or of sessions has a first one.
LEMMA MinIsMember ==
    ASSUME NEW S \in SUBSET Nat, S # {}
    PROVE  Min(S) \in S
<1> DEFINE R == {ss \in Nat \X Nat : ss[1] < ss[2]}
<1>1. IsWellFoundedOn(R, Nat)
  BY NatLessThanWellFounded DEF OpToRel
<1>2. PICK x \in S : \A y \in S : ~(<<y, x>> \in R)
  <2> HIDE DEF R
  <2> QED
    BY <1>1, WFMin
<1>3. \A y \in S : x <= y
  <2> SUFFICES ASSUME NEW y \in S, ~(x <= y) PROVE FALSE
    OBVIOUS
  <2>1. <<y, x>> \in Nat \X Nat /\ y < x
    OBVIOUS
  <2>2. <<y, x>> \in R
    BY <2>1
  <2>3. QED
    BY <1>2, <2>2
<1>4. QED
  BY <1>3 DEF Min

\* The bootstrap has an account to create.
LEMMA BootIsUser == Boot \in Users
<1>1. Users \in SUBSET Nat /\ Users # {}
  BY AccessAssumption
<1>2. QED
  BY <1>1, MinIsMember DEF Boot

\* The last of a set of positions is the one beyond all others.
LEMMA MaxOfExtended ==
    ASSUME NEW S \in SUBSET Nat, NEW n \in Nat, \A i \in S : i < n
    PROVE  Max(S \cup {n}) = n
<1>1. n \in S \cup {n} /\ \A y \in S \cup {n} : n >= y
  OBVIOUS
<1>2. ASSUME NEW x \in S \cup {n}, \A y \in S \cup {n} : x >= y PROVE x = n
  <2>1. x >= n
    BY <1>2
  <2>2. x \in Nat /\ x <= n
    OBVIOUS
  <2>3. QED
    BY <2>1, <2>2
<1>3. QED
  BY <1>1, <1>2 DEF Max

\* A set of positions of the trail has a last one.
LEMMA MaxIsMember ==
    ASSUME NEW n \in Nat, NEW S \in SUBSET (1..n), S # {}
    PROVE  Max(S) \in S
<1>1. PICK T \in SUBSET Nat : T = {n - i : i \in S}
  <2>1. \A i \in S : n - i \in Nat
    OBVIOUS
  <2>2. {n - i : i \in S} \subseteq Nat
    BY <2>1
  <2>3. QED
    BY <2>2
<1>2. T # {}
  BY <1>1
<1>3. PICK m \in T : \A y \in T : m <= y
  <2> DEFINE R == {ss \in Nat \X Nat : ss[1] < ss[2]}
  <2>1. IsWellFoundedOn(R, Nat)
    BY NatLessThanWellFounded DEF OpToRel
  <2>2. PICK x \in T : \A y \in T : ~(<<y, x>> \in R)
    <3> HIDE DEF R
    <3> QED
      BY <1>2, <2>1, WFMin
  <2>3. \A y \in T : x <= y
    <3> SUFFICES ASSUME NEW y \in T, ~(x <= y) PROVE FALSE
      OBVIOUS
    <3>1. <<y, x>> \in Nat \X Nat /\ y < x
      OBVIOUS
    <3>2. <<y, x>> \in R
      BY <3>1
    <3>3. QED
      BY <2>2, <3>2
  <2>4. QED
    BY <2>3
<1>4. PICK k \in S : m = n - k
  BY <1>1, <1>3
<1>5. \A i \in S : k >= i
  <2> SUFFICES ASSUME NEW i \in S PROVE k >= i
    OBVIOUS
  <2>1. n - i \in T
    BY <1>1
  <2>2. n - k <= n - i
    BY <1>3, <1>4, <2>1
  <2>3. QED
    BY <2>2
<1>6. QED
  BY <1>5 DEF Max

\* Events that stay where they are say the same.
LEMMA ContextStays ==
    ASSUME NEW n \in Nat, \A i \in 1..n : log'[i] = log[i], NEW S \in SUBSET (1..n), NEW u
    PROVE  LastContext(u, S)' = LastContext(u, S)
<1>1. S # {} => Max(S) \in 1..n
  BY MaxIsMember
<1>2. S # {} => log'[Max(S)] = log[Max(S)]
  BY <1>1
<1>3. QED
  BY <1>2 DEF LastContext

\* Events of an account that stay where they are keep explaining it.
LEMMA TrailStays ==
    ASSUME AuditOK, NEW u \in Users, user'[u] = user[u], EventsOf(u)' = EventsOf(u),
           \A i \in DOMAIN log : log'[i] = log[i], TrailOK(u)
    PROVE  TrailOK(u)'
<1>1. PICK n \in Nat : DOMAIN log = 1..n
  BY DEF AuditOK
<1>2. EventsOf(u) \subseteq 1..n
  BY <1>1 DEF EventsOf
<1>3. ASSUME NEW S \in SUBSET EventsOf(u) PROVE LastContext(u, S)' = LastContext(u, S)
  BY <1>1, <1>2, ContextStays
<1>4. CASE ~user[u].exists
  BY <1>4 DEF TrailOK
<1>5. CASE user[u].exists
  <2>1. user'[u].version = Cardinality(EventsOf(u)') + (IF u = Boot THEN 1 ELSE 0)
    BY <1>5 DEF TrailOK
  <2>2. ASSUME NEW i \in EventsOf(u)
        PROVE  log'[i].payload.before = LastContext(u, {j \in EventsOf(u) : j < i})'
    <3>1. log'[i] = log[i]
      BY <1>1, <1>2
    <3>2. PICK S \in SUBSET EventsOf(u) : S = {j \in EventsOf(u) : j < i}
      OBVIOUS
    <3>3. S = {j \in EventsOf(u)' : j < i}
      BY <3>2
    <3>4. log[i].payload.before = LastContext(u, S)
      BY <1>5, <3>2 DEF TrailOK
    <3>5. log'[i].payload.before = LastContext(u, S)'
      BY <1>3, <3>1, <3>4
    <3>6. QED
      BY <3>3, <3>5 DEF LastContext
  <2>3. Context(user'[u]) = LastContext(u, EventsOf(u))'
    <3>1. PICK S \in SUBSET EventsOf(u) : S = EventsOf(u)
      OBVIOUS
    <3>2. Context(user[u]) = LastContext(u, S)
      BY <1>5, <3>1 DEF TrailOK
    <3>3. LastContext(u, S)' = LastContext(u, S) /\ S = EventsOf(u)'
      BY <1>3, <3>1
    <3>4. QED
      BY <3>2, <3>3 DEF LastContext
  <2>4. user'[u].exists
    BY <1>5
  <2>5. QED
    BY <2>1, <2>2, <2>3, <2>4 DEF TrailOK
<1>6. QED
  BY <1>4, <1>5

\* The trail of every account stays when accounts and trail do.
LEMMA TrailsStay ==
    ASSUME AuditOK, TrailsOK, UNCHANGED <<user, log>>
    PROVE  TrailsOK'
<1>1. ASSUME NEW u \in Users PROVE TrailOK(u)'
  <2>1. EventsOf(u)' = EventsOf(u) /\ TrailOK(u)
    BY DEF EventsOf, TrailsOK
  <2>2. QED
    BY <2>1, TrailStays
<1>2. QED
  BY <1>1 DEF TrailsOK

\* The rows an account can have.
LEMMA RowsTyped ==
    /\ Absent \in UserRows
    /\ \A role \in Roles : FreshUser(role) \in UserRows
    /\ Closed \in Sessions
    /\ IdleReq \in Work
<1>1. Absent \in UserRows
  BY AccessAssumption DEF Absent, UserRows
<1>2. \A role \in Roles : FreshUser(role) \in UserRows
  BY <1>1 DEF FreshUser, UserRows
<1>3. Closed \in Sessions
  BY BootIsUser DEF Closed, Sessions
<1>4. IdleReq \in Work
  BY <1>1, BootIsUser, AccessAssumption DEF IdleReq, Work, Pcs, AuthOps
<1>5. QED
  BY <1>1, <1>2, <1>3, <1>4

----------------------------------------------------------------------------
(* What every step has in common.                                          *)

\* Rows and locks of other requests than r are left alone, and credentials only age.
Fenced(r) ==
    /\ \A u \in Users : rowLock[u] \in Requests \ {r} =>
          rowLock'[u] = rowLock[u] /\ (Occupied => user'[u] = user[u])
    /\ \A u \in Users : /\ user[u].exists => user'[u].exists
                        /\ user[u].revocation <= user'[u].revocation
                        /\ user[u].revocation = user'[u].revocation =>
                              user'[u].password = user[u].password /\ user'[u].offs = user[u].offs

\* What was fresh stays fresh, or is seen to be stale.
LEMMA FreshStays ==
    ASSUME user \in [Users -> UserRows], user' \in [Users -> UserRows], NEW r, Fenced(r),
           NEW u \in Users, NEW c, c.revocation \in Nat, Fresh(c, u)
    PROVE  Fresh(c, u)'
<1>1. user[u].revocation \in Nat /\ user'[u].revocation \in Nat
  BY DEF UserRows
<1>2. /\ user[u].revocation <= user'[u].revocation
      /\ user[u].revocation = user'[u].revocation =>
             user'[u].password = user[u].password /\ user'[u].offs = user[u].offs
  BY DEF Fenced
<1>3. QED
  BY <1>1, <1>2 DEF Fresh

\* The administrators a request has locked stay administrators.
LEMMA LockedStay ==
    ASSUME NEW r, Fenced(r), NEW x \in Requests \ {r}, NEW v \in Users,
           v \in Administrators, rowLock[v] = x
    PROVE  v \in Administrators' /\ rowLock'[v] = x
<1>1. Occupied
  BY DEF Administrators, Active, Occupied
<1>2. user'[v] = user[v] /\ rowLock'[v] = rowLock[v]
  BY <1>1 DEF Fenced
<1>3. QED
  BY <1>2 DEF Administrators, Active

\* What a request relies on survives every step of the others.
LEMMA OthersKeep ==
    ASSUME user \in [Users -> UserRows], user' \in [Users -> UserRows], NEW r, Fenced(r),
           NEW x \in Requests \ {r}, NEW q \in Work, RequestOK(x, q)
    PROVE  RequestOK(x, q)'
<1>1. q.target \in Users /\ q.kept \in SUBSET Users /\ q.row \in UserRows
  BY DEF Work
<1>2. Occupied => Occupied'
  BY DEF Occupied, Fenced
<1>3. user[q.target].exists => user'[q.target].exists
  BY <1>1 DEF Fenced
<1>4. \A v \in Users : v \in Administrators /\ rowLock[v] = x =>
          v \in Administrators' /\ rowLock'[v] = x
  BY LockedStay
<1>5. ASSUME q.op \in UserOps, rowLock[q.target] = x
      PROVE  user'[q.target] = user[q.target] /\ rowLock'[q.target] = x
  <2>1. Occupied
    BY <1>5 DEF RequestOK
  <2>2. QED
    BY <1>1, <1>5, <2>1 DEF Fenced
<1>6. ASSUME q.op \in UserOps, q.pc \in {"admins", "count", "append", "commit"}
      PROVE  /\ rowLock'[q.target] = x /\ q.row = user'[q.target]
             /\ q.op = "create" => ~q.row.exists
             /\ q.target \in Administrators' <=> q.target \in Administrators
  <2>1. rowLock[q.target] = x /\ q.row = user[q.target] /\ (q.op = "create" => ~q.row.exists)
    BY <1>6 DEF RequestOK
  <2>2. user'[q.target] = user[q.target] /\ rowLock'[q.target] = x
    BY <1>5, <1>6, <2>1
  <2>3. QED
    BY <1>1, <2>1, <2>2 DEF Administrators, Active
<1>7. Spare(x, q) => Spare(x, q)'
  <2>1. \A v \in Administrators : v \in Users
    BY DEF Administrators
  <2>2. QED
    BY <1>4, <2>1 DEF Spare
<1>8. q.op = "login" => Fresh(q.row, q.target)'
  <2>1. q.row.revocation \in Nat
    BY <1>1 DEF UserRows
  <2>2. QED
    BY <1>1, <2>1, FreshStays DEF RequestOK
<1>9. \A v \in q.kept : v \in Administrators' /\ rowLock'[v] = x
  BY <1>1, <1>4 DEF RequestOK
<1>10. q.pc \in {"admins", "count"} => q.target \in Administrators'
  BY <1>6 DEF RequestOK
<1>11. QED
  BY <1>2, <1>3, <1>6, <1>7, <1>8, <1>9, <1>10 DEF RequestOK

\* One request moves.
LEMMA RequestStep ==
    ASSUME IInv, NEW r \in Requests, NEW q \in Work, req' = [req EXCEPT ![r] = q],
           Fenced(r), TablesOK', RequestOK(r, q)'
    PROVE  IInv'
<1>1. req' \in [Requests -> Work] /\ req'[r] = q /\ \A x \in Requests \ {r} : req'[x] = req[x]
  BY DEF IInv
<1>2. ASSUME NEW x \in Requests PROVE RequestOK(x, req[x])'
  <2>1. CASE x = r
    BY <1>1, <2>1 DEF RequestOK, Spare, Fresh
  <2>2. CASE x # r
    <3>1. PICK p \in Work : p = req[x]
      BY DEF IInv
    <3>2. RequestOK(x, p)
      BY <3>1 DEF IInv, RequestsOK
    <3>3. user \in [Users -> UserRows] /\ user' \in [Users -> UserRows]
      BY DEF IInv, TablesOK, TablesTyped
    <3>4. RequestOK(x, p)'
      BY <2>2, <3>2, <3>3, OthersKeep
    <3>5. req'[x] = p
      BY <1>1, <2>2, <3>1
    <3>6. QED
      BY <3>4, <3>5
  <2>3. QED
    BY <2>1, <2>2
<1>3. QED
  BY <1>1, <1>2 DEF IInv, RequestsOK

\* A request that has ended relies on nothing.
LEMMA IdleOK ==
    ASSUME NEW r
    PROVE  RequestOK(r, IdleReq) /\ RequestOK(r, IdleReq)'
BY DEF RequestOK, IdleReq, UserOps

\* The tables do not depend on who holds which row.
LEMMA TablesStay ==
    ASSUME TablesOK, UNCHANGED <<user, session, log, chain>>,
           rowLock' \in [Users -> Requests \cup {NoRequest}],
           chainLock' \in Requests \cup {NoRequest},
           chainLock' # NoRequest => Len(log) < MaxEvents
    PROVE  TablesOK'
<1>1. AuditOK'
  BY LockKeepsAudit DEF TablesOK
<1>2. TablesTyped'
  BY DEF TablesOK, TablesTyped
<1>3. UsersOK' /\ SessionsOK'
  BY DEF TablesOK, UsersOK, Occupied, Administrators, Active, SessionsOK, Fresh
<1>4. TrailsOK'
  BY TrailsStay DEF TablesOK
<1>5. QED
  BY <1>1, <1>2, <1>3, <1>4 DEF TablesOK

\* The rows of the accounts stay.
LEMMA FencedByLocks ==
    ASSUME IInv, NEW r, UNCHANGED user,
           \A u \in Users : rowLock[u] \in Requests \ {r} => rowLock'[u] = rowLock[u]
    PROVE  Fenced(r)
<1>1. \A u \in Users : user[u].revocation \in Nat
  BY DEF IInv, TablesOK, TablesTyped, UserRows
<1>2. QED
  BY <1>1 DEF Fenced

\* Nothing is written but the request and its locks.
LEMMA QuietStep ==
    ASSUME IInv, NEW r \in Requests, NEW q \in Work, req' = [req EXCEPT ![r] = q],
           UNCHANGED <<user, session, auditVars>>,
           rowLock' \in [Users -> Requests \cup {NoRequest}],
           \A u \in Users : rowLock[u] \in Requests \ {r} => rowLock'[u] = rowLock[u],
           RequestOK(r, q)'
    PROVE  IInv'
<1>1. Fenced(r)
  BY FencedByLocks
<1>2. TablesOK'
  BY TablesStay DEF IInv, auditVars, TablesOK, AuditOK
<1>3. QED
  BY <1>1, <1>2, RequestStep

\* Nothing is written but the request.
LEMMA StillStep ==
    ASSUME IInv, NEW r \in Requests, NEW q \in Work, req' = [req EXCEPT ![r] = q],
           UNCHANGED <<user, session, rowLock, auditVars>>, RequestOK(r, q)
    PROVE  IInv'
<1>1. rowLock' \in [Users -> Requests \cup {NoRequest}]
  BY DEF IInv, TablesOK, TablesTyped
<1>2. RequestOK(r, q)'
  BY DEF RequestOK, Occupied, Administrators, Active, Spare, Fresh
<1>3. QED
  BY <1>1, <1>2, QuietStep

\* The locks a request leaves are its own.
LEMMA FinishLocks ==
    ASSUME IInv, NEW r \in Requests, Finish(r)
    PROVE  /\ rowLock' \in [Users -> Requests \cup {NoRequest}]
           /\ \A u \in Users : rowLock[u] \in Requests \ {r} => rowLock'[u] = rowLock[u]
           /\ req' = [req EXCEPT ![r] = IdleReq]
BY DEF Finish, IInv, TablesOK, TablesTyped

\* The request ends without a trace, whether it holds the chain row or not.
LEMMA FinishStep ==
    ASSUME IInv, NEW r \in Requests, Finish(r), UNCHANGED <<user, session, log, chain>>,
           chainLock' \in {chainLock, NoRequest}
    PROVE  IInv'
<1>1. /\ rowLock' \in [Users -> Requests \cup {NoRequest}]
      /\ \A u \in Users : rowLock[u] \in Requests \ {r} => rowLock'[u] = rowLock[u]
      /\ req' = [req EXCEPT ![r] = IdleReq]
  BY FinishLocks
<1>2. TablesOK'
  BY <1>1, TablesStay DEF IInv, TablesOK, AuditOK
<1>3. Fenced(r)
  BY <1>1, FencedByLocks
<1>4. QED
  BY <1>1, <1>2, <1>3, RowsTyped, IdleOK, RequestStep

----------------------------------------------------------------------------
(* Each step keeps the invariant.                                          *)

\* authenticate: what is read is fresh.
LEMMA ReadCredentialsKeeps ==
    ASSUME IInv, NEW r \in Requests, NEW u \in Users, NEW valid \in BOOLEAN,
           ReadCredentials(r, u, valid)
    PROVE  IInv'
<1>1. PICK o \in {"login", "denied"} : o = IF valid THEN "login" ELSE "denied"
  OBVIOUS
<1>2. PICK row \in UserRows : row = user[u]
  BY DEF IInv, TablesOK, TablesTyped
<1>3. PICK q : q = [IdleReq EXCEPT !.pc = "append", !.target = u, !.row = row, !.op = o]
  OBVIOUS
<1>4. /\ q \in Work /\ q.pc = "append" /\ q.op = o /\ q.target = u /\ q.row = row
      /\ q.kept = {}
  BY <1>1, <1>3, RowsTyped DEF Work, Pcs, AuthOps, IdleReq
<1>5. req' = [req EXCEPT ![r] = q] /\ UNCHANGED <<user, session, rowLock, auditVars>>
  BY <1>1, <1>2, <1>3 DEF ReadCredentials
<1>6. Fresh(q.row, q.target)
  BY <1>2, <1>4 DEF Fresh, UserRows
<1>7. RequestOK(r, q)
  BY <1>4, <1>6 DEF RequestOK, UserOps
<1>8. QED
  BY <1>4, <1>5, <1>7, StillStep

\* revoke_session, up to its event.
LEMMA ReadLogoutKeeps ==
    ASSUME IInv, NEW r \in Requests, NEW t \in Tokens, ReadLogout(r, t)
    PROVE  IInv'
<1>1. PICK u \in Users : u = session[t].user
  BY DEF IInv, TablesOK, TablesTyped, Sessions
<1>2. PICK q : q = [IdleReq EXCEPT !.pc = "append", !.op = "logout", !.token = t, !.target = u]
  OBVIOUS
<1>3. q \in Work /\ q.pc = "append" /\ q.op = "logout" /\ q.token = t /\ q.kept = {}
  BY <1>2, RowsTyped DEF Work, Pcs, AuthOps, IdleReq
<1>4. req' = [req EXCEPT ![r] = q] /\ UNCHANGED <<user, session, rowLock, auditVars>>
  BY <1>1, <1>2 DEF ReadLogout
<1>5. RequestOK(r, q)
  BY <1>3 DEF RequestOK, UserOps
<1>6. QED
  BY <1>3, <1>4, <1>5, StillStep

\* The state of a session says nothing about its credentials.
LEMMA SessionState ==
    ASSUME TablesOK, NEW t \in Tokens, NEW s \in {"open", "timed_out", "revoked"},
           session' = [session EXCEPT ![t].state = s],
           UNCHANGED <<user, rowLock, auditVars>>
    PROVE  TablesOK'
<1>1. session \in [Tokens -> Sessions]
  BY DEF TablesOK, TablesTyped
<1>2. PICK old \in Sessions : old = session[t]
  BY <1>1
<1>3. PICK new : new = [old EXCEPT !.state = s]
  OBVIOUS
<1>4. /\ new \in Sessions /\ new.user = old.user /\ new.revocation = old.revocation
      /\ new.password = old.password /\ new.offs = old.offs
  BY <1>3 DEF Sessions
<1>5. session' = [session EXCEPT ![t] = new]
  BY <1>2, <1>3
<1>6. /\ session' \in [Tokens -> Sessions] /\ session'[t] = new
      /\ \A x \in Tokens \ {t} : session'[x] = session[x]
  BY <1>1, <1>4, <1>5
<1>7. TablesTyped' /\ AuditOK'
  BY <1>6 DEF TablesOK, TablesTyped, AuditOK, auditVars, LastHash, Verify
<1>8. SessionsOK'
  BY <1>2, <1>4, <1>6 DEF TablesOK, SessionsOK, Fresh
<1>9. UsersOK'
  BY DEF TablesOK, UsersOK, Occupied, Administrators, Active, auditVars
<1>10. TrailsOK'
  BY TrailsStay DEF TablesOK, auditVars
<1>11. QED
  BY <1>7, <1>8, <1>9, <1>10 DEF TablesOK

\* The idle timeout.
LEMMA TimeOutKeeps ==
    ASSUME IInv, NEW t \in Tokens, TimeOut(t)
    PROVE  IInv'
<1>1. TablesOK' /\ UNCHANGED <<user, rowLock, req>>
  BY SessionState DEF TimeOut, IInv
<1>2. RequestsOK'
  BY <1>1 DEF IInv, RequestsOK, RequestOK, Occupied, Administrators, Active, Spare, Fresh
<1>3. QED
  BY <1>1, <1>2 DEF IInv

\* A request and the state of a session change.
LEMMA SessionStep ==
    ASSUME IInv, NEW r \in Requests, NEW q \in Work, req' = [req EXCEPT ![r] = q],
           NEW t \in Tokens, NEW s \in {"open", "timed_out", "revoked"},
           session' = [session EXCEPT ![t].state = s],
           UNCHANGED <<user, rowLock, auditVars>>, RequestOK(r, q)
    PROVE  IInv'
<1>1. TablesOK'
  BY SessionState DEF IInv
<1>2. RequestOK(r, q)'
  BY DEF RequestOK, Occupied, Administrators, Active, Spare, Fresh
<1>3. Fenced(r)
  BY FencedByLocks
<1>4. QED
  BY <1>1, <1>2, <1>3, RequestStep

\* resolve_session revokes a stale session.
LEMMA RevokeStaleKeeps ==
    ASSUME IInv, NEW r \in Requests, NEW t \in Tokens, RevokeStale(r, t)
    PROVE  IInv'
<1>1. PICK u \in Users : u = session[t].user
  BY DEF IInv, TablesOK, TablesTyped, Sessions
<1>2. PICK q : q = [IdleReq EXCEPT !.pc = "append", !.op = "expired", !.target = u]
  OBVIOUS
<1>3. q \in Work /\ q.pc = "append" /\ q.op = "expired" /\ q.kept = {}
  BY <1>2, RowsTyped DEF Work, Pcs, AuthOps, IdleReq
<1>4. /\ req' = [req EXCEPT ![r] = q] /\ UNCHANGED <<user, rowLock, auditVars>>
      /\ session' = [session EXCEPT ![t].state = "revoked"]
  BY <1>1, <1>2 DEF RevokeStale
<1>5. RequestOK(r, q)
  BY <1>3 DEF RequestOK, UserOps
<1>6. QED
  BY <1>3, <1>4, <1>5, SessionStep

\* protected: whoever asks knows that there are accounts.
LEMMA RequestKeeps ==
    ASSUME IInv, NEW r \in Requests, NEW t \in Tokens, NEW op \in UserOps, NEW u \in Users,
           NEW role \in Roles, Request(r, t, op, u, role)
    PROVE  IInv'
<1>1. PICK row \in UserRows : row = user[u]
  BY DEF IInv, TablesOK, TablesTyped
<1>2. PICK q : q = [IdleReq EXCEPT !.pc = "touch", !.token = t, !.op = op, !.target = u,
                        !.role = role, !.version = row.version, !.row = row]
  OBVIOUS
<1>3. /\ q \in Work /\ q.pc = "touch" /\ q.op = op /\ q.token = t /\ q.target = u
      /\ q.kept = {}
  BY <1>1, <1>2, RowsTyped DEF Work, Pcs, AuthOps, IdleReq, UserRows
<1>4. req' = [req EXCEPT ![r] = q] /\ UNCHANGED <<user, session, rowLock, auditVars>>
  BY <1>1, <1>2 DEF Request
<1>5. Occupied /\ (op # "create" => user[u].exists)
  <2>1. session[t].user \in Users /\ user[session[t].user].exists
    BY DEF Request, Resolves, Active, IInv, TablesOK, TablesTyped, Sessions
  <2>2. QED
    BY <2>1 DEF Occupied, Request
<1>6. RequestOK(r, q)
  BY <1>3, <1>5 DEF RequestOK, UserOps
<1>7. QED
  BY <1>3, <1>4, <1>6, StillStep

\* A request that has not locked anything moves on.
LEMMA MovesOn ==
    ASSUME IInv, NEW r \in Requests, req[r].pc \in {"touch", "actor"},
           NEW next \in {"actor", "lock"}, NEW q, q = [req[r] EXCEPT !.pc = next]
    PROVE  q \in Work /\ RequestOK(r, q)
<1>1. req[r] \in Work /\ RequestOK(r, req[r])
  BY DEF IInv, RequestsOK
<1>2. /\ q \in Work /\ q.pc = next /\ q.op = req[r].op /\ q.token = req[r].token
      /\ q.target = req[r].target /\ q.kept = req[r].kept /\ q.row = req[r].row
  BY <1>1 DEF Work, Pcs
<1>3. QED
  BY <1>1, <1>2 DEF RequestOK

\* The conditional update of the session.
LEMMA TouchKeeps ==
    ASSUME IInv, NEW r \in Requests, Touch(r)
    PROVE  IInv'
<1>1. req[r].pc = "touch" /\ UNCHANGED <<user, rowLock, auditVars>>
  BY DEF Touch
<1>2. req[r] \in Work /\ RequestOK(r, req[r])
  BY DEF IInv, RequestsOK
<1>3. PICK t \in Tokens : t = req[r].token
  BY <1>1, <1>2 DEF RequestOK
<1>4. \/ /\ session' = [session EXCEPT ![t].state = "open"]
         /\ req' = [req EXCEPT ![r].pc = "actor"]
      \/ session' = session /\ req' = [req EXCEPT ![r] = IdleReq]
  BY <1>3 DEF Touch
<1>5. CASE session' = session /\ req' = [req EXCEPT ![r] = IdleReq]
  BY <1>1, <1>5, RowsTyped, IdleOK, StillStep
<1>6. CASE /\ session' = [session EXCEPT ![t].state = "open"]
           /\ req' = [req EXCEPT ![r].pc = "actor"]
  <2>1. PICK q : q = [req[r] EXCEPT !.pc = "actor"]
    OBVIOUS
  <2>2. q \in Work /\ RequestOK(r, q)
    BY <1>1, <2>1, MovesOn
  <2>3. req' = [req EXCEPT ![r] = q]
    BY <1>6, <2>1
  <2>4. QED
    BY <1>1, <1>6, <2>2, <2>3, SessionStep
<1>7. QED
  BY <1>4, <1>5, <1>6

\* The second reading of the session.
LEMMA ActorKeeps ==
    ASSUME IInv, NEW r \in Requests, Actor(r)
    PROVE  IInv'
<1>1. req[r].pc = "actor" /\ UNCHANGED <<user, session, rowLock, auditVars>>
  BY DEF Actor
<1>2. CASE req' = [req EXCEPT ![r] = IdleReq]
  BY <1>1, <1>2, RowsTyped, IdleOK, StillStep
<1>3. CASE req' = [req EXCEPT ![r].pc = "lock"]
  <2>1. PICK q : q = [req[r] EXCEPT !.pc = "lock"]
    OBVIOUS
  <2>2. q \in Work /\ RequestOK(r, q)
    BY <1>1, <2>1, MovesOn
  <2>3. req' = [req EXCEPT ![r] = q]
    BY <1>3, <2>1
  <2>4. QED
    BY <1>1, <2>2, <2>3, StillStep
<1>4. QED
  BY <1>2, <1>3 DEF Actor

\* SELECT ... FOR UPDATE: the row is read under its lock.
LEMMA LockTargetKeeps ==
    ASSUME IInv, NEW r \in Requests, LockTarget(r)
    PROVE  IInv'
<1>1. req[r] \in Work /\ RequestOK(r, req[r]) /\ req[r].pc = "lock"
  BY DEF IInv, RequestsOK, LockTarget
<1>2. PICK u \in Users : u = req[r].target
  BY <1>1 DEF Work
<1>3. UNCHANGED <<user, session, auditVars>> /\ rowLock[u] = NoRequest
  BY <1>2 DEF LockTarget
<1>4. CASE ~Accepted(r, user[u])
  <2>1. Finish(r)
    BY <1>2, <1>4 DEF LockTarget
  <2>2. QED
    BY <1>3, <2>1, FinishStep DEF auditVars
<1>5. CASE Accepted(r, user[u])
  <2>1. rowLock \in [Users -> Requests \cup {NoRequest}] /\ user \in [Users -> UserRows]
    BY DEF IInv, TablesOK, TablesTyped
  <2>2. rowLock' = [rowLock EXCEPT ![u] = r]
    BY <1>2, <1>5 DEF LockTarget
  <2>3. /\ rowLock' \in [Users -> Requests \cup {NoRequest}] /\ rowLock'[u] = r
        /\ \A x \in Users : rowLock[x] \in Requests => rowLock'[x] = rowLock[x]
    BY <1>3, <2>1, <2>2, AuditAssumption
  <2>4. PICK next \in {"admins", "append"} :
            next = IF LosesAdministrator(req[r].op, req[r].role) /\ u \in Administrators
                   THEN "admins" ELSE "append"
    OBVIOUS
  <2>5. PICK row \in UserRows : row = user[u]
    BY <2>1
  <2>6. PICK q : q = [req[r] EXCEPT !.pc = next, !.row = row]
    OBVIOUS
  <2>7. /\ q \in Work /\ q.pc = next /\ q.op = req[r].op /\ q.token = req[r].token
        /\ q.target = u /\ q.kept = req[r].kept /\ q.row = row /\ q.role = req[r].role
    BY <1>1, <1>2, <2>6 DEF Work, Pcs
  <2>8. req' = [req EXCEPT ![r] = q]
    BY <1>2, <1>5, <2>4, <2>5, <2>6 DEF LockTarget
  <2>9. q.op \in UserOps /\ Occupied /\ q.token \in Tokens /\ (q.op # "create" => user[u].exists)
    BY <1>1, <1>2, <2>7 DEF RequestOK
  <2>10. Occupied' /\ Administrators' = Administrators
    BY <1>3, <2>9 DEF Occupied, Administrators, Active
  <2>11. q.op = "create" => ~q.row.exists
    BY <1>5, <2>5, <2>7 DEF Accepted
  <2>12. \A v \in q.kept : v \in Administrators' /\ rowLock'[v] = r
    <3>1. \A v \in q.kept : v \in Administrators /\ rowLock[v] = r
      BY <1>1, <2>7 DEF RequestOK
    <3>2. QED
      BY <2>3, <2>10, <3>1 DEF Administrators
  <2>13. next = "admins" => u \in Administrators'
    BY <2>4, <2>10
  <2>14. next = "append" => ~(LosesAdministrator(q.op, q.role) /\ q.target \in Administrators')
    BY <2>4, <2>7, <2>10
  <2>15. q.op # "login"
    BY <2>9 DEF UserOps
  <2>16. RequestOK(r, q)'
    BY <1>3, <2>3, <2>5, <2>7, <2>9, <2>10, <2>11, <2>12, <2>13, <2>14, <2>15 DEF RequestOK
  <2>17. QED
    BY <1>3, <2>3, <2>7, <2>8, <2>16, QuietStep
<1>6. QED
  BY <1>4, <1>5

\* The query of _assert_not_last_administrator starts: the account is in its result.
LEMMA ListAdministratorsKeeps ==
    ASSUME IInv, NEW r \in Requests, ListAdministrators(r)
    PROVE  IInv'
<1>1. req[r] \in Work /\ RequestOK(r, req[r]) /\ req[r].pc = "admins"
  BY DEF IInv, RequestsOK, ListAdministrators
<1>2. PICK S \in SUBSET Users : S = Administrators
  BY DEF Administrators
<1>3. PICK q : q = [req[r] EXCEPT !.pc = "count", !.todo = S]
  OBVIOUS
<1>4. /\ q \in Work /\ q.pc = "count" /\ q.op = req[r].op /\ q.token = req[r].token
      /\ q.target = req[r].target /\ q.kept = req[r].kept /\ q.row = req[r].row
      /\ q.todo = S
  BY <1>1, <1>3 DEF Work, Pcs
<1>5. req' = [req EXCEPT ![r] = q] /\ UNCHANGED <<user, session, rowLock, auditVars>>
  BY <1>2, <1>3 DEF ListAdministrators
<1>6. RequestOK(r, q)
  BY <1>1, <1>2, <1>4 DEF RequestOK
<1>7. QED
  BY <1>4, <1>5, <1>6, StillStep

\* Its rows are locked one by one; when it ends, another administrator is locked.
LEMMA LockAdministratorKeeps ==
    ASSUME IInv, NEW r \in Requests, LockAdministrator(r)
    PROVE  IInv'
<1>1. req[r] \in Work /\ RequestOK(r, req[r]) /\ req[r].pc = "count"
  BY DEF IInv, RequestsOK, LockAdministrator
<1>2. req[r].todo \in SUBSET Users /\ req[r].todo # {} /\ req[r].kept \in SUBSET Users
  BY <1>1 DEF Work, RequestOK
<1>3. PICK u \in Users : u = Min(req[r].todo) /\ u \in req[r].todo
  <2>1. req[r].todo \in SUBSET Nat
    BY <1>2, AccessAssumption
  <2>2. Min(req[r].todo) \in req[r].todo
    BY <1>2, <2>1, MinIsMember
  <2>3. QED
    BY <1>2, <2>2
<1>4. PICK kept \in SUBSET Users : kept = req[r].kept \cup ({u} \cap Administrators)
  BY <1>2 DEF Administrators
<1>5. PICK todo \in SUBSET Users : todo = req[r].todo \ {u}
  BY <1>2
<1>6. UNCHANGED <<user, session, auditVars>> /\ rowLock[u] \in {NoRequest, r}
  BY <1>3 DEF LockAdministrator
<1>7. CASE todo = {} /\ kept = {req[r].target}
  <2>1. Finish(r)
    BY <1>3, <1>4, <1>5, <1>7 DEF LockAdministrator
  <2>2. QED
    BY <1>6, <2>1, FinishStep DEF auditVars
<1>8. CASE ~(todo = {} /\ kept = {req[r].target})
  <2>1. rowLock \in [Users -> Requests \cup {NoRequest}]
    BY DEF IInv, TablesOK, TablesTyped
  <2>2. PICK next \in {"append", "count"} : next = IF todo = {} THEN "append" ELSE "count"
    OBVIOUS
  <2>3. PICK q : q = [req[r] EXCEPT !.todo = todo, !.kept = kept, !.pc = next]
    OBVIOUS
  <2>4. /\ q \in Work /\ q.pc = next /\ q.op = req[r].op /\ q.token = req[r].token
        /\ q.target = req[r].target /\ q.kept = kept /\ q.row = req[r].row
        /\ q.todo = todo
    BY <1>1, <2>3 DEF Work, Pcs
  <2>5. rowLock' = [rowLock EXCEPT ![u] = r] /\ req' = [req EXCEPT ![r] = q]
    BY <1>3, <1>4, <1>5, <1>8, <2>2, <2>3 DEF LockAdministrator
  <2>6. /\ rowLock' \in [Users -> Requests \cup {NoRequest}] /\ rowLock'[u] = r
        /\ \A x \in Users : rowLock[x] \in Requests => rowLock'[x] = rowLock[x]
    BY <1>6, <2>1, <2>5, AuditAssumption
  <2>7. /\ req[r].op \in UserOps /\ Occupied /\ req[r].token \in Tokens
        /\ req[r].target \in Administrators /\ req[r].target \in req[r].todo \cup req[r].kept
        /\ rowLock[req[r].target] = r /\ req[r].row = user[req[r].target]
        /\ req[r].op = "create" => ~req[r].row.exists
        /\ req[r].op # "create" => user[req[r].target].exists
        /\ \A v \in req[r].kept : v \in Administrators /\ rowLock[v] = r
    BY <1>1 DEF RequestOK
  <2>8. Occupied' /\ Administrators' = Administrators /\ Administrators \subseteq Users
    BY <1>6, <2>7 DEF Occupied, Administrators, Active
  <2>9. \A v \in kept : v \in Administrators /\ rowLock'[v] = r
    BY <1>4, <2>6, <2>7, <2>8
  <2>10. req[r].target \in todo \cup kept
    BY <1>4, <1>5, <2>7
  <2>11. next = "append" => Spare(r, q)'
    <3>1. SUFFICES ASSUME next = "append" PROVE Spare(r, q)'
      OBVIOUS
    <3>2. todo = {} /\ kept # {req[r].target}
      BY <1>8, <2>2, <3>1
    <3>3. PICK v \in kept : v # req[r].target
      BY <2>10, <3>2
    <3>4. v \in Administrators' \ {q.target} /\ rowLock'[v] = r
      BY <2>4, <2>8, <2>9, <3>3
    <3>5. QED
      BY <3>4 DEF Spare
  <2>12. next = "count" => todo # {}
    BY <2>2
  <2>13. req[r].op # "login"
    BY <2>7 DEF UserOps
  <2>14. rowLock'[req[r].target] = r
    BY <2>6, <2>7, <2>8
  <2>15. RequestOK(r, q)'
    BY <1>6, <2>4, <2>7, <2>8, <2>9, <2>10, <2>11, <2>12, <2>13, <2>14 DEF RequestOK
  <2>16. QED
    BY <2>4, <2>5, <2>6, <2>15, <1>6, QuietStep
<1>9. QED
  BY <1>7, <1>8

\* The chain row is locked.
LEMMA AppendEventKeeps ==
    ASSUME IInv, NEW r \in Requests, AppendEvent(r)
    PROVE  IInv'
<1>1. req[r] \in Work /\ RequestOK(r, req[r]) /\ req[r].pc = "append"
  BY DEF IInv, RequestsOK, AppendEvent
<1>2. PICK q : q = [req[r] EXCEPT !.pc = "commit"]
  OBVIOUS
<1>3. /\ q \in Work /\ q.pc = "commit" /\ q.op = req[r].op /\ q.token = req[r].token
      /\ q.target = req[r].target /\ q.kept = req[r].kept /\ q.row = req[r].row
      /\ q.role = req[r].role
  BY <1>1, <1>2 DEF Work, Pcs
<1>4. /\ req' = [req EXCEPT ![r] = q] /\ UNCHANGED <<user, session, rowLock, log, chain>>
      /\ chainLock' = r /\ Len(log) < MaxEvents
  BY <1>2 DEF AppendEvent, LockChain
<1>5. RequestOK(r, q)
  BY <1>1, <1>3 DEF RequestOK, Spare
<1>6. RequestOK(r, q)'
  BY <1>4, <1>5 DEF RequestOK, Occupied, Administrators, Active, Spare, Fresh
<1>7. TablesOK'
  <2>1. rowLock' \in [Users -> Requests \cup {NoRequest}]
    BY <1>4 DEF IInv, TablesOK, TablesTyped
  <2>2. QED
    BY <1>4, <2>1, TablesStay DEF IInv
<1>8. Fenced(r)
  BY <1>4, FencedByLocks
<1>9. QED
  BY <1>3, <1>4, <1>6, <1>7, <1>8, RequestStep

\* The transaction is rolled back.
LEMMA AbortKeeps ==
    ASSUME IInv, NEW r \in Requests, Abort(r)
    PROVE  IInv'
BY FinishStep DEF Abort, ReleaseChain

\* An event is about one account at most; the trail of the others stays.
LEMMA OtherTrails ==
    ASSUME AuditOK, NEW r \in Requests, NEW p \in Payloads, CommitEvent(r, p), NEW u \in Users,
           ~(p.kind = "user" /\ p.about = u), user'[u] = user[u], TrailOK(u)
    PROVE  TrailOK(u)'
<1>1. PICK n \in Nat : n = Len(log)
  BY EventAdded
<1>2. /\ DOMAIN log = 1..n /\ DOMAIN log' = 1..(n + 1)
      /\ \A i \in 1..n : log'[i] = log[i]
      /\ log'[n + 1].payload = p
  <2>1. /\ DOMAIN log = 1..n /\ DOMAIN log' = 1..(n + 1)
        /\ \A i \in 1..n : log'[i] = log[i]
        /\ log'[n + 1] = EventRow(p)
    BY <1>1, EventAdded
  <2>2. EventRow(p).payload = p
    BY DEF EventRow
  <2>3. QED
    BY <2>1, <2>2
<1>3. EventsOf(u)' = EventsOf(u)
  <2>1. n + 1 \notin 1..n /\ 1..(n + 1) = (1..n) \cup {n + 1}
    BY <1>1
  <2>2. QED
    BY <1>2, <2>1 DEF EventsOf
<1>4. QED
  BY <1>2, <1>3, TrailStays

\* login, its refusal, logout and expiry.
LEMMA CommitAuthKeeps ==
    ASSUME IInv, NEW r \in Requests, CommitAuth(r)
    PROVE  IInv'
<1>1. req[r] \in Work /\ RequestOK(r, req[r]) /\ req[r].pc = "commit" /\ UNCHANGED user
  BY DEF IInv, RequestsOK, CommitAuth
<1>2. PICK u \in Users : u = req[r].target
  BY <1>1 DEF Work
<1>3. PICK p \in Payloads : /\ p.kind = "auth"
                            /\ p = [about |-> u, kind |-> "auth", before |-> <<>>, after |-> <<>>]
  BY DEF Payloads, Contexts
<1>4. CommitEvent(r, p) /\ Finish(r)
  BY <1>2, <1>3 DEF CommitAuth
<1>5. TablesOK
  BY DEF IInv
<1>6. AuditOK' /\ Len(log') = Len(log) + 1 /\ Len(log) \in Nat
  BY <1>4, <1>5, CommitKeepsAudit, EventAdded DEF TablesOK
<1>7. /\ rowLock' \in [Users -> Requests \cup {NoRequest}]
      /\ \A x \in Users : rowLock[x] \in Requests \ {r} => rowLock'[x] = rowLock[x]
      /\ req' = [req EXCEPT ![r] = IdleReq]
  BY <1>4, FinishLocks
<1>8. session \in [Tokens -> Sessions] /\ user \in [Users -> UserRows]
  BY <1>5 DEF TablesOK, TablesTyped
<1>9. session' \in [Tokens -> Sessions] /\ SessionsOK'
  <2>1. CASE req[r].op = "login"
    <3>1. PICK free \in SUBSET Tokens : free = {t \in Tokens : session[t].state = "none"}
      OBVIOUS
    <3>2. free # {} /\ session' = [session EXCEPT ![Min(free)] = OpenedSession(r)]
      BY <2>1, <3>1 DEF CommitAuth
    <3>3. Min(free) \in free
      <4>1. free \in SUBSET Nat
        BY AccessAssumption
      <4>2. QED
        BY <3>2, <4>1, MinIsMember
    <3>4. PICK t \in Tokens : t = Min(free)
      BY <3>3
    <3>5. PICK s : s = OpenedSession(r)
      OBVIOUS
    <3>6. req[r].row \in UserRows /\ Fresh(req[r].row, u)
      BY <1>1, <1>2, <2>1 DEF Work, RequestOK
    <3>7. /\ s \in Sessions /\ s.user = u /\ s.revocation = req[r].row.revocation
          /\ s.password = req[r].row.password /\ s.offs = req[r].row.offs
      BY <1>2, <3>5, <3>6 DEF OpenedSession, Sessions, UserRows
    <3>8. session' = [session EXCEPT ![t] = s]
      BY <3>2, <3>4, <3>5
    <3>9. /\ session' \in [Tokens -> Sessions] /\ session'[t] = s
          /\ \A x \in Tokens \ {t} : session'[x] = session[x]
      BY <1>8, <3>7, <3>8
    <3>10. SessionsOK'
      BY <1>1, <1>5, <3>6, <3>7, <3>9 DEF TablesOK, SessionsOK, Fresh
    <3>11. QED
      BY <3>9, <3>10
  <2>2. CASE req[r].op = "logout"
    <3>1. PICK t \in Tokens : t = req[r].token
      BY <1>1, <2>2 DEF RequestOK
    <3>2. PICK old \in Sessions : old = session[t]
      BY <1>8
    <3>3. PICK s : s = [old EXCEPT !.state = "revoked"]
      OBVIOUS
    <3>4. /\ s \in Sessions /\ s.user = old.user /\ s.revocation = old.revocation
          /\ s.password = old.password /\ s.offs = old.offs
      BY <3>3 DEF Sessions
    <3>5. session' = [session EXCEPT ![t] = s]
      BY <2>2, <3>1, <3>2, <3>3 DEF CommitAuth
    <3>6. /\ session' \in [Tokens -> Sessions] /\ session'[t] = s
          /\ \A x \in Tokens \ {t} : session'[x] = session[x]
      BY <1>8, <3>4, <3>5
    <3>7. SessionsOK'
      BY <1>1, <1>5, <3>2, <3>4, <3>6 DEF TablesOK, SessionsOK, Fresh
    <3>8. QED
      BY <3>6, <3>7
  <2>3. CASE req[r].op \notin {"login", "logout"}
    <3>1. UNCHANGED session
      BY <2>3 DEF CommitAuth
    <3>2. QED
      BY <1>1, <1>5, <1>8, <3>1 DEF TablesOK, SessionsOK, Fresh
  <2>4. QED
    BY <2>1, <2>2, <2>3
<1>10. TablesTyped'
  BY <1>1, <1>7, <1>8, <1>9 DEF TablesTyped
<1>11. UsersOK'
  <2>1. \A x \in Users : user[x].version \in Nat
    BY <1>8 DEF UserRows
  <2>2. QED
    BY <1>1, <1>5, <1>6, <2>1 DEF TablesOK, UsersOK, Occupied, Administrators, Active
<1>12. TrailsOK'
  <2>1. ASSUME NEW x \in Users PROVE TrailOK(x)'
    BY <1>1, <1>3, <1>4, <1>5, OtherTrails DEF TablesOK, TrailsOK
  <2>2. QED
    BY <2>1 DEF TrailsOK
<1>13. TablesOK'
  BY <1>6, <1>9, <1>10, <1>11, <1>12 DEF TablesOK
<1>14. Fenced(r)
  BY <1>1, <1>7, FencedByLocks
<1>15. QED
  BY <1>7, <1>13, <1>14, RowsTyped, IdleOK, RequestStep

\* What each operation makes of the row it locked: the account exists, its
\* credentials only age, and an administrator remains one unless that is what is asked.
LEMMA ChangedRow ==
    ASSUME NEW row \in UserRows, NEW op \in UserOps, NEW role \in Roles,
           row.revocation >= 1, ~row.exists => row = Absent, (op = "create") <=> ~row.exists,
           NEW new, new = Changed(row, op, role)
    PROVE  /\ new \in UserRows /\ new.exists
           /\ new.version = IF op = "create" THEN 1 ELSE row.version + 1
           /\ new.revocation >= row.revocation
           /\ new.revocation = row.revocation => new.password = row.password /\ new.offs = row.offs
           /\ row.exists /\ row.active /\ row.role = "administrator" /\ ~LosesAdministrator(op, role) =>
                 new.active /\ new.role = "administrator"
<1>1. /\ row.version \in Nat /\ row.password \in Nat /\ row.revocation \in Nat /\ row.offs \in Nat
      /\ row.role \in Roles /\ row.active \in BOOLEAN /\ row.exists \in BOOLEAN
  BY DEF UserRows
<1>2. PICK next : next = [row EXCEPT !.version = row.version + 1]
  OBVIOUS
<1>3. /\ next \in UserRows /\ next.version = row.version + 1 /\ next.role = row.role
      /\ next.active = row.active /\ next.exists = row.exists /\ next.offs = row.offs
      /\ next.password = row.password /\ next.revocation = row.revocation
  BY <1>1, <1>2 DEF UserRows
<1>4. CASE op = "create"
  <2>1. new = FreshUser(role)
    BY <1>4 DEF Changed
  <2>2. /\ new \in UserRows /\ new.exists /\ new.version = 1 /\ new.revocation = 1
        /\ new.password = 0 /\ new.offs = 0
    BY <2>1, RowsTyped DEF FreshUser, Absent
  <2>3. row.revocation = 1 /\ row.password = 0 /\ row.offs = 0 /\ ~row.exists
    BY <1>4 DEF Absent
  <2>4. QED
    BY <1>4, <2>2, <2>3
<1>5. CASE op = "update"
  <2>1. new = next
    BY <1>2, <1>5 DEF Changed
  <2>2. QED
    BY <1>1, <1>3, <1>5, <2>1
<1>6. CASE op = "role"
  <2>1. new = [next EXCEPT !.role = role]
    BY <1>2, <1>6 DEF Changed
  <2>2. /\ new \in UserRows /\ new.version = next.version /\ new.role = role
        /\ new.active = next.active /\ new.exists = next.exists /\ new.offs = next.offs
        /\ new.password = next.password /\ new.revocation = next.revocation
    BY <1>3, <2>1 DEF UserRows
  <2>3. QED
    BY <1>1, <1>3, <1>6, <2>2 DEF LosesAdministrator
<1>7. CASE op \in {"reset", "own_password"}
  <2>1. PICK p \in Nat, v \in Nat : p = next.password + 1 /\ v = next.revocation + 1
    BY <1>1, <1>3
  <2> new = [next EXCEPT !.password = p, !.revocation = v]
    BY <1>2, <1>7, <2>1 DEF Changed
  <2>2. /\ new \in UserRows /\ new.version = next.version /\ new.role = next.role
        /\ new.active = next.active /\ new.exists = next.exists
        /\ new.revocation = next.revocation + 1
    BY <1>3, <2>1 DEF UserRows
  <2>3. QED
    BY <1>1, <1>3, <1>7, <2>2
<1>8. CASE op = "activate"
  <2>1. new = [next EXCEPT !.active = TRUE]
    BY <1>2, <1>8 DEF Changed
  <2>2. /\ new \in UserRows /\ new.version = next.version /\ new.role = next.role
        /\ new.active = TRUE /\ new.exists = next.exists /\ new.offs = next.offs
        /\ new.password = next.password /\ new.revocation = next.revocation
    BY <1>3, <2>1 DEF UserRows
  <2>3. QED
    BY <1>1, <1>3, <1>8, <2>2
<1>9. CASE op = "deactivate"
  <2>1. PICK o \in Nat, v \in Nat : o = next.offs + 1 /\ v = next.revocation + 1
    BY <1>1, <1>3
  <2> new = [next EXCEPT !.active = FALSE, !.offs = o, !.revocation = v]
    BY <1>2, <1>9, <2>1 DEF Changed
  <2>2. /\ new \in UserRows /\ new.version = next.version
        /\ new.exists = next.exists /\ new.revocation = next.revocation + 1
    BY <1>3, <2>1 DEF UserRows
  <2>3. QED
    BY <1>1, <1>3, <1>9, <2>2 DEF LosesAdministrator
<1>10. QED
  BY <1>4, <1>5, <1>6, <1>7, <1>8, <1>9 DEF UserOps

\* The event of an operation takes the account from where its last event, or the
\* bootstrap, left it to where it is now.
LEMMA TargetTrail ==
    ASSUME AuditOK, NEW r \in Requests, NEW p \in Payloads, CommitEvent(r, p), NEW u \in Users,
           p.kind = "user", p.about = u, TrailOK(u), user'[u].exists,
           user[u].version \in Nat, ~user[u].exists => u # Boot,
           p.before = IF user[u].exists THEN Context(user[u]) ELSE <<>>,
           p.after = Context(user'[u]),
           user'[u].version = IF user[u].exists THEN user[u].version + 1 ELSE 1
    PROVE  TrailOK(u)'
<1>1. PICK n \in Nat : n = Len(log)
  BY EventAdded
<1>2. /\ DOMAIN log = 1..n /\ DOMAIN log' = 1..(n + 1)
      /\ \A i \in 1..n : log'[i] = log[i]
      /\ log'[n + 1].payload = p
  <2>1. /\ DOMAIN log = 1..n /\ DOMAIN log' = 1..(n + 1)
        /\ \A i \in 1..n : log'[i] = log[i]
        /\ log'[n + 1] = EventRow(p)
    BY <1>1, EventAdded
  <2>2. EventRow(p).payload = p
    BY DEF EventRow
  <2>3. QED
    BY <2>1, <2>2
<1>3. PICK E \in SUBSET (1..n) : E = EventsOf(u)
  BY <1>2 DEF EventsOf
<1>E. /\ n + 1 \in Nat /\ ~(n + 1 < n + 1) /\ E \in SUBSET Nat
      /\ \A i \in E : i < n + 1
  <2>1. \A i \in 1..n : i \in Nat /\ i < n + 1
    BY <1>1
  <2>2. ~(n + 1 < n + 1) /\ n + 1 \in Nat
    BY <1>1
  <2>3. \A i \in E : i \in 1..n
    BY <1>3
  <2>4. \A i \in E : i \in Nat /\ i < n + 1
    BY <2>1, <2>3
  <2>5. QED
    BY <2>2, <2>4, Zenon
<1>4. EventsOf(u)' = E \cup {n + 1}
  <2>1. n + 1 \notin 1..n /\ 1..(n + 1) = (1..n) \cup {n + 1}
    BY <1>1
  <2>2. QED
    BY <1>2, <1>3, <2>1 DEF EventsOf
<1>5. \A S \in SUBSET E : LastContext(u, S)' = LastContext(u, S)
  <2>1. \A S \in SUBSET (1..n) : LastContext(u, S)' = LastContext(u, S)
    BY <1>2, ContextStays
  <2>2. QED
    BY <2>1
<1>6. p.before = LastContext(u, E)
  BY <1>3 DEF TrailOK, LastContext
<1>7. user'[u].version = Cardinality(EventsOf(u)') + (IF u = Boot THEN 1 ELSE 0)
  <2>1. IsFiniteSet(E)
    <3>1. IsFiniteSet(1..n)
      BY <1>1, FS_Interval
    <3>2. QED
      BY <3>1, FS_Subset
  <2>2. n + 1 \notin E
    BY <1>1
  <2>3. Cardinality(E \cup {n + 1}) = Cardinality(E) + 1
    BY <2>1, <2>2, FS_AddElement
  <2>4. Cardinality(E) \in Nat
    BY <2>1, FS_CardinalityType
  <2>5. CASE user[u].exists
    <3>1. user[u].version = Cardinality(E) + (IF u = Boot THEN 1 ELSE 0)
      BY <1>3, <2>5 DEF TrailOK
    <3>2. QED
      BY <1>4, <2>3, <2>4, <2>5, <3>1
  <2>6. CASE ~user[u].exists
    <3>1. E = {} /\ u # Boot
      BY <1>3, <2>6 DEF TrailOK
    <3>2. Cardinality(E) = 0
      BY <3>1, FS_EmptySet
    <3>3. QED
      BY <1>4, <2>3, <2>6, <3>1, <3>2
  <2>7. QED
    BY <2>5, <2>6
<1>8. ASSUME NEW i \in EventsOf(u)'
      PROVE  log'[i].payload.before = LastContext(u, {j \in EventsOf(u) : j < i})'
  <2>1. CASE i \in E
    <3>1. PICK S \in SUBSET E : S = {j \in E : j < i}
      OBVIOUS
    <3>2. S = {j \in EventsOf(u)' : j < i}
      BY <1>1, <1>4, <2>1, <3>1
    <3>3. log[i].payload.before = LastContext(u, S)
      BY <1>3, <2>1, <3>1 DEF TrailOK
    <3>4. log'[i] = log[i]
      BY <1>2, <2>1
    <3>5. log'[i].payload.before = LastContext(u, S)'
      BY <1>5, <3>3, <3>4
    <3>6. QED
      BY <3>2, <3>5 DEF LastContext
  <2>2. CASE i = n + 1
    <3>1. E = {j \in EventsOf(u)' : j < i}
      BY <1>4, <1>E, <2>2
    <3>2. LastContext(u, E)' = LastContext(u, E)
      BY <1>5
    <3>3. log'[i].payload.before = LastContext(u, E)'
      BY <1>2, <1>6, <2>2, <3>2
    <3>4. QED
      BY <3>1, <3>3 DEF LastContext
  <2>3. QED
    BY <1>4, <2>1, <2>2
<1>9. Context(user[u])' = LastContext(u, EventsOf(u))'
  <2>1. n + 1 \in Nat /\ E \in SUBSET Nat /\ \A i \in E : i < n + 1
    BY <1>E
  <2>2. PICK F : F = E \cup {n + 1}
    OBVIOUS
  <2>3. Max(F) = n + 1 /\ F # {}
    BY <2>1, <2>2, MaxOfExtended
  <2>4. LastContext(u, F)' = p.after
    BY <1>2, <2>3 DEF LastContext
  <2>5. F = EventsOf(u)'
    BY <1>4, <2>2
  <2>6. QED
    BY <2>4, <2>5 DEF LastContext, Context
<1>10. QED
  BY <1>7, <1>8, <1>9 DEF TrailOK

\* The operation of a request on the account it locked.
LEMMA CommitUserKeeps ==
    ASSUME IInv, NEW r \in Requests, CommitUser(r)
    PROVE  IInv'
<1>1. /\ req[r] \in Work /\ RequestOK(r, req[r]) /\ req[r].pc = "commit"
      /\ req[r].op \in UserOps /\ UNCHANGED session
  BY DEF IInv, RequestsOK, CommitUser
<1>2. PICK u \in Users, op \in UserOps, role \in Roles, row \in UserRows :
           u = req[r].target /\ op = req[r].op /\ role = req[r].role /\ row = req[r].row
  BY <1>1 DEF Work
<1>3. TablesOK /\ user \in [Users -> UserRows]
  BY DEF IInv, TablesOK, TablesTyped
<1>4. /\ rowLock[u] = r /\ row = user[u] /\ Occupied
      /\ (op = "create") <=> ~row.exists
      /\ LosesAdministrator(op, role) /\ u \in Administrators =>
            \E v \in Administrators \ {u} : rowLock[v] = r
  <2>1. row.exists \in BOOLEAN
    BY DEF UserRows
  <2>2. QED
    BY <1>1, <1>2, <2>1 DEF RequestOK, Spare
<1>5. row.revocation >= 1 /\ (~row.exists => row = Absent) /\ row.version <= Len(log) + 1
  BY <1>3, <1>4 DEF TablesOK, UsersOK
<1>6. PICK new : new = Changed(row, op, role)
  OBVIOUS
<1>7. /\ new \in UserRows /\ new.exists
      /\ new.version = IF op = "create" THEN 1 ELSE row.version + 1
      /\ new.revocation >= row.revocation
      /\ new.revocation = row.revocation => new.password = row.password /\ new.offs = row.offs
      /\ row.exists /\ row.active /\ row.role = "administrator" /\ ~LosesAdministrator(op, role) =>
            new.active /\ new.role = "administrator"
  BY <1>4, <1>5, <1>6, ChangedRow
<1>8. user' = [user EXCEPT ![u] = new] /\ Finish(r)
  BY <1>2, <1>6 DEF CommitUser
<1>9. /\ user' \in [Users -> UserRows] /\ user'[u] = new
      /\ \A x \in Users \ {u} : user'[x] = user[x]
  BY <1>3, <1>7, <1>8
<1>10. PICK p : p = [about |-> u, kind |-> "user",
                     before |-> IF row.exists THEN Context(row) ELSE <<>>, after |-> Context(new)]
  OBVIOUS
<1>11. /\ p \in Payloads /\ p.kind = "user" /\ p.about = u /\ p.after = Context(new)
       /\ p.before = IF row.exists THEN Context(row) ELSE <<>>
  <2>1. Context(row) \in Roles \X BOOLEAN /\ Context(new) \in Roles \X BOOLEAN
    BY <1>7 DEF Context, UserRows
  <2>2. QED
    BY <1>10, <2>1 DEF Payloads, Contexts
<1>12. CommitEvent(r, p)
  BY <1>2, <1>6, <1>10 DEF CommitUser
<1>13. AuditOK' /\ Len(log') = Len(log) + 1 /\ Len(log) \in Nat
  BY <1>3, <1>11, <1>12, CommitKeepsAudit, EventAdded DEF TablesOK
<1>14. /\ rowLock' \in [Users -> Requests \cup {NoRequest}]
       /\ \A x \in Users : rowLock[x] \in Requests \ {r} => rowLock'[x] = rowLock[x]
       /\ req' = [req EXCEPT ![r] = IdleReq]
  BY <1>8, FinishLocks
<1>15. Fenced(r)
  <2>1. ASSUME NEW x \in Users, rowLock[x] \in Requests \ {r}
        PROVE  rowLock'[x] = rowLock[x] /\ user'[x] = user[x]
    BY <1>4, <1>9, <1>14, <2>1
  <2>2. ASSUME NEW x \in Users
        PROVE  /\ user[x].exists => user'[x].exists
               /\ user[x].revocation <= user'[x].revocation
               /\ user[x].revocation = user'[x].revocation =>
                     user'[x].password = user[x].password /\ user'[x].offs = user[x].offs
    <3>1. CASE x = u
      BY <1>4, <1>7, <1>9, <3>1 DEF UserRows
    <3>2. CASE x # u
      <4>1. user'[x] = user[x] /\ user[x].revocation \in Nat
        BY <1>3, <1>9, <3>2 DEF UserRows
      <4>2. QED
        BY <4>1
    <3>3. QED
      BY <3>1, <3>2
  <2>3. QED
    BY <2>1, <2>2 DEF Fenced
<1>16. Administrators' # {}
  <2>1. \E v \in Administrators : TRUE
    BY <1>3, <1>4 DEF TablesOK, UsersOK
  <2>2. CASE \E v \in Administrators : v # u
    <3>1. PICK v \in Users : v # u /\ v \in Administrators
      BY <2>2 DEF Administrators
    <3>2. user'[v] = user[v]
      BY <1>9, <3>1
    <3>3. v \in Administrators'
      BY <3>1, <3>2 DEF Administrators, Active
    <3>4. QED
      BY <3>3
  <2>3. CASE ~\E v \in Administrators : v # u
    <3>1. u \in Administrators
      BY <2>1, <2>3
    <3>2. ~LosesAdministrator(op, role)
      BY <1>4, <2>3, <3>1
    <3>3. row.exists /\ row.active /\ row.role = "administrator"
      BY <1>4, <3>1 DEF Administrators, Active
    <3>4. new.active /\ new.role = "administrator"
      BY <1>7, <3>2, <3>3
    <3>5. u \in Administrators'
      BY <1>7, <1>9, <3>4 DEF Administrators, Active
    <3>6. QED
      BY <3>5
  <2>4. QED
    BY <2>2, <2>3
<1>17. UsersOK'
  <2>1. user'[Boot].exists
    BY <1>3, <1>4, <1>15, BootIsUser DEF TablesOK, UsersOK, Fenced
  <2>2. ASSUME NEW x \in Users
        PROVE  /\ ~user'[x].exists => user'[x] = Absent
               /\ user'[x].revocation >= 1
               /\ user'[x].version <= Len(log') + 1
    <3>1. CASE x = u
      <4>1. row.version \in Nat /\ row.revocation \in Nat /\ new.revocation \in Nat
        BY <1>7 DEF UserRows
      <4>2. QED
        BY <1>5, <1>7, <1>9, <1>13, <3>1, <4>1
    <3>2. CASE x # u
      <4>1. user'[x] = user[x] /\ user[x].version \in Nat
        BY <1>3, <1>9, <3>2 DEF UserRows
      <4>2. QED
        BY <1>3, <1>13, <4>1 DEF TablesOK, UsersOK
    <3>3. QED
      BY <3>1, <3>2
  <2>3. QED
    BY <1>16, <2>1, <2>2 DEF UsersOK
<1>18. SessionsOK'
  <2>1. ASSUME NEW t \in Tokens PROVE Fresh(session[t], session[t].user)'
    <3>1. PICK s \in Sessions : s = session[t]
      BY <1>3 DEF TablesOK, TablesTyped
    <3>2. PICK x \in Users : x = s.user
      BY DEF Sessions
    <3>3. s.revocation \in Nat /\ Fresh(s, x)
      BY <1>3, <3>1, <3>2 DEF TablesOK, SessionsOK, Sessions
    <3>4. Fresh(s, x)'
      BY <1>3, <1>9, <1>15, <3>3, FreshStays
    <3>5. session'[t] = s
      BY <1>1, <3>1
    <3>6. QED
      BY <3>2, <3>4, <3>5 DEF Fresh
  <2>2. QED
    BY <2>1 DEF SessionsOK
<1>19. TrailsOK'
  <2>1. ASSUME NEW x \in Users, x # u PROVE TrailOK(x)'
    <3>1. AuditOK /\ TrailOK(x) /\ user'[x] = user[x] /\ ~(p.kind = "user" /\ p.about = x)
      BY <1>3, <1>9, <1>11, <2>1 DEF TablesOK, TrailsOK
    <3>2. QED
      BY <1>11, <1>12, <3>1, OtherTrails
  <2>2. TrailOK(u)'
    <3>1. AuditOK /\ TrailOK(u) /\ user'[u].exists /\ user[u].version \in Nat
      BY <1>3, <1>7, <1>9 DEF TablesOK, TrailsOK, UserRows
    <3>2. ~user[u].exists => u # Boot
      BY <1>3, <1>4 DEF TablesOK, UsersOK
    <3>3. p.before = IF user[u].exists THEN Context(user[u]) ELSE <<>>
      BY <1>4, <1>11
    <3>4. p.after = Context(user'[u])
      BY <1>9, <1>11
    <3>5. user'[u].version = IF user[u].exists THEN user[u].version + 1 ELSE 1
      BY <1>4, <1>7, <1>9
    <3>6. QED
      BY <1>11, <1>12, <3>1, <3>2, <3>3, <3>4, <3>5, TargetTrail
  <2>3. QED
    BY <2>1, <2>2 DEF TrailsOK
<1>20. TablesTyped'
  BY <1>1, <1>3, <1>9, <1>14 DEF TablesOK, TablesTyped
<1>21. TablesOK'
  BY <1>13, <1>17, <1>18, <1>19, <1>20 DEF TablesOK
<1>22. QED
  BY <1>14, <1>15, <1>21, RowsTyped, IdleOK, RequestStep

\* bootstrap_first_administrator: nobody can have asked for anything yet but a login.
LEMMA BootstrapKeeps ==
    ASSUME IInv, Bootstrap
    PROVE  IInv'
<1>1. /\ TablesOK /\ user \in [Users -> UserRows] /\ Boot \in Users
      /\ UNCHANGED <<session, rowLock, req, log, chain, chainLock>>
  BY BootIsUser DEF IInv, TablesOK, TablesTyped, Bootstrap, auditVars
<1>2. PICK new \in UserRows : new = FreshUser("administrator")
  BY RowsTyped, AccessAssumption
<1>3. /\ new.exists /\ new.active /\ new.role = "administrator" /\ new.version = 1
      /\ new.revocation = 1 /\ new.password = 0 /\ new.offs = 0
  BY <1>2 DEF FreshUser, Absent
<1>4. /\ user' \in [Users -> UserRows] /\ user'[Boot] = new
      /\ \A x \in Users \ {Boot} : user'[x] = user[x]
  BY <1>1, <1>2 DEF Bootstrap
<1>5. ~Occupied /\ \A x \in Users : user[x] = Absent
  BY <1>1 DEF Bootstrap, Occupied, TablesOK, UsersOK
<1>6. Fenced(NoRequest)
  <2>1. ASSUME NEW x \in Users
        PROVE  /\ user[x].exists => user'[x].exists
               /\ user[x].revocation <= user'[x].revocation
               /\ user'[x].password = user[x].password /\ user'[x].offs = user[x].offs
    <3>1. /\ user[x].revocation = 1 /\ user[x].password = 0 /\ user[x].offs = 0
          /\ ~user[x].exists
      BY <1>5 DEF Absent
    <3>2. /\ user'[x].revocation = 1 /\ user'[x].password = 0 /\ user'[x].offs = 0
      BY <1>3, <1>4, <3>1
    <3>3. QED
      BY <3>1, <3>2
  <2>2. QED
    BY <1>1, <1>5, <2>1 DEF Fenced
<1>7. UsersOK'
  <2>1. Len(log) \in Nat
    BY <1>1 DEF TablesOK, AuditOK
  <2>2. ASSUME NEW x \in Users
        PROVE  /\ ~user'[x].exists => user'[x] = Absent
               /\ user'[x].revocation >= 1 /\ user'[x].version <= Len(log) + 1
    <3>1. CASE x = Boot
      BY <1>3, <1>4, <2>1, <3>1
    <3>2. CASE x # Boot
      <4>1. user'[x] = user[x]
        BY <1>4, <3>2
      <4>2. QED
        BY <1>1, <4>1 DEF TablesOK, UsersOK
    <3>3. QED
      BY <3>1, <3>2
  <2>3. Boot \in Administrators'
    BY <1>1, <1>3, <1>4 DEF Administrators, Active
  <2>4. QED
    BY <1>1, <1>3, <1>4, <2>2, <2>3 DEF UsersOK
<1>8. SessionsOK'
  <2>1. ASSUME NEW t \in Tokens PROVE Fresh(session[t], session[t].user)'
    <3>1. PICK s \in Sessions : s = session[t]
      BY <1>1 DEF TablesOK, TablesTyped
    <3>2. PICK x \in Users : x = s.user
      BY DEF Sessions
    <3>3. s.revocation \in Nat /\ Fresh(s, x)
      BY <1>1, <3>1, <3>2 DEF TablesOK, SessionsOK, Sessions
    <3>4. Fresh(s, x)'
      BY <1>1, <1>4, <1>6, <3>3, FreshStays
    <3>5. session'[t] = s
      BY <1>1, <3>1
    <3>6. QED
      BY <3>2, <3>4, <3>5 DEF Fresh
  <2>2. QED
    BY <2>1 DEF SessionsOK
<1>9. TrailsOK'
  <2>1. \A x \in Users : EventsOf(x)' = EventsOf(x) /\ TrailOK(x)
    BY <1>1 DEF EventsOf, TablesOK, TrailsOK
  <2>2. ASSUME NEW x \in Users, x # Boot PROVE TrailOK(x)'
    <3>1. user'[x] = user[x] /\ AuditOK
      BY <1>1, <1>4, <2>2 DEF TablesOK
    <3>2. QED
      BY <1>1, <2>1, <3>1, TrailStays
  <2>3. TrailOK(Boot)'
    <3>1. EventsOf(Boot)' = {}
      BY <1>1, <1>5, <2>1 DEF TrailOK, Occupied
    <3>2. Cardinality(EventsOf(Boot)') = 0
      BY <3>1, FS_EmptySet
    <3>3. LastContext(Boot, EventsOf(Boot))' = <<"administrator", TRUE>>
      BY <3>1 DEF LastContext
    <3>4. Context(user[Boot])' = <<"administrator", TRUE>>
      BY <1>3, <1>4 DEF Context
    <3>5. user'[Boot].version = Cardinality(EventsOf(Boot)') + 1
      BY <1>3, <1>4, <3>2
    <3>6. QED
      BY <1>3, <1>4, <3>1, <3>3, <3>4, <3>5 DEF TrailOK
  <2>4. QED
    BY <2>2, <2>3 DEF TrailsOK
<1>10. TablesOK'
  <2>1. AuditOK'
    BY <1>1, LockKeepsAudit DEF TablesOK, AuditOK
  <2>2. TablesTyped'
    BY <1>1, <1>4 DEF TablesOK, TablesTyped
  <2>3. QED
    BY <1>7, <1>8, <1>9, <2>1, <2>2 DEF TablesOK
<1>11. ASSUME NEW x \in Requests PROVE RequestOK(x, req[x])'
  <2>1. PICK q \in Work : q = req[x] /\ q = req'[x]
    BY <1>1 DEF IInv
  <2>2. RequestOK(x, q) /\ x \in Requests \ {NoRequest}
    BY <2>1, AuditAssumption DEF IInv, RequestsOK
  <2>3. RequestOK(x, q)'
    BY <1>1, <1>4, <1>6, <2>2, OthersKeep
  <2>4. QED
    BY <2>1, <2>3
<1>12. req' \in [Requests -> Work]
  BY <1>1 DEF IInv
<1>13. QED
  BY <1>10, <1>11, <1>12 DEF IInv, RequestsOK

----------------------------------------------------------------------------
(* The theorems.                                                           *)

\* A fresh installation satisfies the invariant.
LEMMA InitHolds ==
    ASSUME AuditInit, AccessInit
    PROVE  IInv
<1>1. log = <<>> /\ chain = [sequence |-> 0, hash |-> Genesis] /\ chainLock = NoRequest
  BY DEF AuditInit
<1>2. AuditOK
  <2>1. log \in Seq(Entries) /\ Len(log) = 0 /\ DOMAIN log = {}
    BY <1>1
  <2>2. Genesis \in Digests
    BY DEF Genesis, Digests
  <2>3. chain \in [sequence : Nat, hash : Digests] /\ chain.sequence = 0 /\ chain.hash = Genesis
    BY <1>1, <2>2
  <2>4. Verify
    BY <2>1 DEF Verify
  <2>5. QED
    BY <1>1, <2>1, <2>3, <2>4, AuditAssumption DEF AuditOK, LastHash
<1>3. /\ user = [u \in Users |-> Absent] /\ session = [t \in Tokens |-> Closed]
      /\ rowLock = [u \in Users |-> NoRequest] /\ req = [r \in Requests |-> IdleReq]
  BY DEF AccessInit
<1>4. TablesTyped /\ req \in [Requests -> Work]
  BY <1>3, RowsTyped DEF TablesTyped
<1>5. ~Absent.exists /\ Absent.revocation = 1 /\ Absent.version = 0
  BY DEF Absent
<1>6. UsersOK
  <2>1. Len(log) = 0
    BY <1>1
  <2>2. \A u \in Users : user[u] = Absent
    BY <1>3
  <2>3. QED
    BY <1>5, <2>1, <2>2 DEF UsersOK, Occupied
<1>7. SessionsOK
  <2>1. Closed.user = Boot /\ Closed.revocation = 0
    BY DEF Closed
  <2>2. \A t \in Tokens : session[t] = Closed
    BY <1>3
  <2>3. user[Boot].revocation = 1
    BY <1>3, <1>5, BootIsUser
  <2>4. Fresh(Closed, Boot)
    BY <2>1, <2>3 DEF Fresh
  <2>5. QED
    BY <2>1, <2>2, <2>4 DEF SessionsOK
<1>8. TrailsOK
  <2>1. \A u \in Users : ~user[u].exists
    BY <1>3, <1>5
  <2>2. \A u \in Users : EventsOf(u) = {}
    BY <1>1 DEF EventsOf
  <2>3. QED
    BY <2>1, <2>2 DEF TrailsOK, TrailOK
<1>9. RequestsOK
  BY <1>3, IdleOK DEF RequestsOK
<1>10. QED
  BY <1>2, <1>4, <1>6, <1>7, <1>8, <1>9 DEF IInv, TablesOK

\* Every step keeps the invariant.
LEMMA NextKeeps ==
    ASSUME IInv, [AccessNext]_<<auditVars, accessVars>>
    PROVE  IInv'
<1>1. CASE Bootstrap
  BY <1>1, BootstrapKeeps
<1>2. CASE \E t \in Tokens : TimeOut(t)
  BY <1>2, TimeOutKeeps
<1>3. CASE \E r \in Requests :
              \/ \E u \in Users, valid \in BOOLEAN : ReadCredentials(r, u, valid)
              \/ \E t \in Tokens : ReadLogout(r, t) \/ RevokeStale(r, t)
              \/ \E t \in Tokens, op \in UserOps, u \in Users, role \in Roles :
                    Request(r, t, op, u, role)
  BY <1>3, ReadCredentialsKeeps, ReadLogoutKeeps, RevokeStaleKeeps, RequestKeeps
<1>4. CASE \E r \in Requests : \/ Touch(r) \/ Actor(r) \/ LockTarget(r)
                               \/ ListAdministrators(r) \/ LockAdministrator(r)
  BY <1>4, TouchKeeps, ActorKeeps, LockTargetKeeps, ListAdministratorsKeeps, LockAdministratorKeeps
<1>5. CASE \E r \in Requests : AppendEvent(r) \/ CommitUser(r) \/ CommitAuth(r) \/ Abort(r)
  BY <1>5, AppendEventKeeps, CommitUserKeeps, CommitAuthKeeps, AbortKeeps
<1>6. CASE UNCHANGED <<auditVars, accessVars>>
  <2>1. UNCHANGED <<user, session, rowLock, req, log, chain, chainLock>>
    BY <1>6 DEF auditVars, accessVars
  <2>2. TablesOK'
    BY <2>1, TablesStay DEF IInv, TablesOK, TablesTyped, AuditOK
  <2>3. RequestsOK'
    BY <2>1 DEF IInv, RequestsOK, RequestOK, Occupied, Administrators, Active, Spare, Fresh
  <2>4. QED
    BY <2>1, <2>2, <2>3 DEF IInv
<1>7. QED
  BY <1>1, <1>2, <1>3, <1>4, <1>5, <1>6 DEF AccessNext

\* The invariant of nfx.identity and nfx.audit: a request at work holds the row it
\* read, one that takes an administrator away holds another one, credentials and
\* sessions are never newer than their account, and the trail explains every account.
THEOREM InvariantHolds == AccessSpec => []IInv
<1>1. AuditInit /\ AccessInit => IInv
  BY InitHolds
<1>2. IInv /\ [AccessNext]_<<auditVars, accessVars>> => IInv'
  BY NextKeeps
<1>3. QED
  BY <1>1, <1>2, PTL DEF AccessSpec

\* Types, and the last administrator: whichever demotions and deactivations of
\* different administrators run at once, _assert_not_last_administrator leaves one.
THEOREM AccessInvHolds == AccessSpec => []AccessInv
<1>1. IInv => AccessInv
  <2> SUFFICES ASSUME IInv PROVE AccessInv
    OBVIOUS
  <2>1. AuditTypeOK
    BY AuditAssumption DEF IInv, TablesOK, AuditOK, AuditTypeOK
  <2>2. ASSUME NEW u \in Users
        PROVE  user[u].role \in Roles /\ user[u].version \in 0..(MaxEvents + 1)
    <3>1. user[u] \in UserRows /\ user[u].version <= Len(log) + 1
      BY DEF IInv, TablesOK, TablesTyped, UsersOK
    <3>2. Len(log) \in 0..MaxEvents
      BY <2>1 DEF AuditTypeOK
    <3>3. user[u].role \in Roles /\ user[u].version \in Nat
      BY <3>1 DEF UserRows
    <3>4. QED
      BY <3>1, <3>2, <3>3, AuditAssumption
  <2>3. ASSUME NEW t \in Tokens
        PROVE  session[t].state \in {"none", "open", "timed_out", "revoked"}
    BY DEF IInv, TablesOK, TablesTyped, Sessions
  <2>4. rowLock \in [Users -> Requests \cup {NoRequest}]
    BY DEF IInv, TablesOK, TablesTyped
  <2>5. ASSUME NEW r \in Requests PROVE req[r].pc \in Pcs
    BY DEF IInv, Work
  <2>6. AccessTypeOK
    BY <2>1, <2>2, <2>3, <2>4, <2>5 DEF AccessTypeOK, Pcs
  <2>7. QED
    BY <2>6 DEF AccessInv, IInv, TablesOK, UsersOK, Occupied
<1>2. QED
  BY <1>1, InvariantHolds, PTL

\* The audit trail explains every account and the verifier accepts it, across
\* concurrent changes of one account and rollbacks: an operation appends its event in
\* its own transaction, while it holds the row and the chain.
THEOREM TrailExplainsUsersHolds == AccessSpec => []TrailExplainsUsers
<1>1. IInv => TrailExplainsUsers
  BY DEF IInv, TablesOK, AuditOK, TrailsOK, TrailOK, TrailExplainsUsers
<1>2. QED
  BY <1>1, InvariantHolds, PTL

\* No session resolves with a password that was replaced, or across a deactivation,
\* however the login raced the reset (the session keeps the revocation version that
\* authenticate read with the credentials).
THEOREM StaleSessionsDeadHolds == AccessSpec => []StaleSessionsDead
<1>1. IInv => StaleSessionsDead
  BY DEF IInv, TablesOK, SessionsOK, Fresh, StaleSessionsDead, Resolves
<1>2. QED
  BY <1>1, InvariantHolds, PTL

====
