-------------------------- MODULE Registry_proofs --------------------------
(***************************************************************************)
(* Theorems about Registry: for every set of companies and certificates,   *)
(* and any number of uploads, edits, failures and crashes; and about the   *)
(* Rules a registered company is run by: for every date, instant, pair of  *)
(* policies and sum of digits.                                             *)
(***************************************************************************)
EXTENDS Registry, Rules, FiniteSetTheorems, SequenceTheorems, TLAPS

----------------------------------------------------------------------------
(* The inductive invariant.                                                *)

CompanyRows == [status : {"none", "registered", "active", "deactivated"},
                cnpj : Cnpjs \cup {"none"}, flow : {"enabled", "paused"}]
CertStates == {"none", "pending", "current", "replaced", "storage_failed"}
CertRows == [state : CertStates, company : Companies \cup {"none"}, pfx : Pfxs \cup {"none"},
             stored : BOOLEAN]
UploadWork == [pc : {"idle", "create", "upload", "activate"}, company : Companies \cup {"none"},
             pfx : Pfxs \cup {"none"}, cert : Nat]

Typed ==
    /\ company \in [Companies -> CompanyRows]
    /\ cert \in [Certificates -> CertRows]
    /\ initial \in [Companies -> 0..MaxCertificates]
    /\ upload \in [Uploads -> UploadWork]

\* The rows that exist are the first ones.
Contiguous ==
    \E n \in 0..MaxCertificates : \A k \in Certificates : cert[k].state # "none" <=> k <= n

\* A certificate in use is stored; a company uses one, and a certificate is used by
\* one company.
InUse(k) == cert[k].state = "current"
UsedOnce ==
    /\ \A k \in Certificates : InUse(k) => cert[k].stored /\ cert[k].company \in Companies
    /\ \A j, k \in Certificates : InUse(j) /\ InUse(k) =>
          /\ cert[j].company = cert[k].company => j = k
          /\ cert[j].pfx = cert[k].pfx => cert[j].company = cert[k].company

\* An upload between its two transactions has a pending row of its own.
Holding(u) == u.pc \in {"upload", "activate"}
UploadOK(u) ==
    /\ u.pc # "idle" => u.company \in Companies /\ u.pfx \in Pfxs
    /\ Holding(u) => /\ u.cert \in Certificates
                     /\ cert[u.cert].state = "pending"
                     /\ cert[u.cert].company = u.company
                     /\ cert[u.cert].pfx = u.pfx
    /\ u.pc = "activate" => cert[u.cert].stored

UploadsOK == \A r \in Uploads : UploadOK(upload[r])
RowsApart ==
    \A r, s \in Uploads :
        r # s /\ Holding(upload[r]) /\ Holding(upload[s]) => upload[r].cert # upload[s].cert

IInv ==
    /\ Typed
    /\ Contiguous
    /\ UsedOnce
    /\ UploadsOK
    /\ RowsApart

----------------------------------------------------------------------------
(* What every step has in common.                                          *)

\* An idle upload is one.
LEMMA IdleTyped == IdleUpload \in UploadWork /\ IdleUpload.pc = "idle"
BY DEF IdleUpload, UploadWork

\* The next row is free.
LEMMA NextRowFree ==
    ASSUME IInv, NEW k, k = Cardinality({j \in Certificates : cert[j].state # "none"}) + 1,
           k \in Certificates
    PROVE  cert[k].state = "none" /\ \A j \in Certificates : cert[j].state # "none" <=> j < k
<1>1. PICK n \in 0..MaxCertificates :
           \A j \in Certificates : cert[j].state # "none" <=> j <= n
  BY DEF IInv, Contiguous
<1>2. n \in Nat /\ MaxCertificates \in Nat /\ n <= MaxCertificates
  BY RegistryAssumption
<1>3. {j \in Certificates : cert[j].state # "none"} = 1..n
  BY <1>1, <1>2 DEF Certificates
<1>4. Cardinality(1..n) = n
  BY <1>2, FS_Interval
<1>5. k = n + 1
  BY <1>3, <1>4
<1>6. k \in Nat /\ \A j \in Certificates : j \in Nat /\ (j < k <=> j <= n)
  BY <1>2, <1>5 DEF Certificates
<1>7. ~(k <= n)
  BY <1>2, <1>5
<1>8. cert[k].state = "none"
  BY <1>1, <1>7
<1>9. QED
  BY <1>1, <1>6, <1>8

\* One upload moves, and may write its own row or a free one, in use or not.
LEMMA UploadStep ==
    ASSUME IInv, NEW r \in Uploads, NEW u \in UploadWork, upload' = [upload EXCEPT ![r] = u],
           company' \in [Companies -> CompanyRows], cert' \in [Certificates -> CertRows],
           initial' \in [Companies -> 0..MaxCertificates], Contiguous', UsedOnce', UploadOK(u)',
           \A k \in Certificates : cert[k].state = "pending" /\ cert'[k] # cert[k] =>
                Holding(upload[r]) /\ k = upload[r].cert,
           Holding(u) => \/ Holding(upload[r]) /\ u.cert = upload[r].cert
                         \/ cert[u.cert].state # "pending"
    PROVE  IInv'
<1>1. upload \in [Uploads -> UploadWork]
  BY DEF IInv, Typed
<1>2. upload'[r] = u /\ \A s \in Uploads \ {r} : upload'[s] = upload[s]
  BY <1>1
<1>3. Typed'
  BY <1>1 DEF Typed
<1>4. UploadsOK'
  <2> SUFFICES ASSUME NEW s \in Uploads PROVE UploadOK(upload[s])'
    BY DEF UploadsOK
  <2>1. CASE s = r
    BY <1>2, <2>1 DEF UploadOK, Holding
  <2>2. CASE s # r
    <3>1. upload'[s] = upload[s] /\ UploadOK(upload[s])
      BY <1>2, <2>2 DEF IInv, UploadsOK
    <3>2. Holding(upload[s]) => cert'[upload[s].cert] = cert[upload[s].cert]
      BY <2>2, <3>1 DEF IInv, RowsApart, UploadOK
    <3>3. upload[s].pc = "activate" => Holding(upload[s])
      BY DEF Holding
    <3>4. QED
      BY <3>1, <3>2, <3>3 DEF UploadOK, Holding
  <2>3. QED
    BY <2>1, <2>2
<1>5. ASSUME NEW s \in Uploads \ {r}, Holding(upload[s]), Holding(u)
      PROVE  upload[s].cert # u.cert
  BY <1>5 DEF IInv, UploadsOK, UploadOK, RowsApart
<1>6. RowsApart'
  BY <1>2, <1>5 DEF IInv, RowsApart, Holding
<1>7. QED
  BY <1>3, <1>4, <1>6 DEF IInv

\* The upload moves, and no row is written.
LEMMA PlainStep ==
    ASSUME IInv, NEW r \in Uploads, NEW u \in UploadWork, upload' = [upload EXCEPT ![r] = u],
           UNCHANGED <<company, cert, initial>>, UploadOK(u), ~Holding(u)
    PROVE  IInv'
<1>1. UploadOK(u)'
  BY DEF UploadOK, Holding
<1>2. Contiguous' /\ UsedOnce'
  BY DEF IInv, Contiguous, UsedOnce, InUse
<1>3. /\ company' \in [Companies -> CompanyRows] /\ cert' \in [Certificates -> CertRows]
      /\ initial' \in [Companies -> 0..MaxCertificates]
  BY DEF IInv, Typed
<1>4. QED
  BY <1>1, <1>2, <1>3, UploadStep

\* The request ends.
LEMMA FailStep ==
    ASSUME IInv, NEW r \in Uploads, Fail(r), UNCHANGED <<company, cert, initial>>
    PROVE  IInv'
<1>1. UploadOK(IdleUpload) /\ ~Holding(IdleUpload)
  BY DEF UploadOK, Holding, IdleUpload
<1>2. QED
  BY <1>1, IdleTyped, PlainStep DEF Fail

\* Only the company changes.
LEMMA CompanyStep ==
    ASSUME IInv, company' \in [Companies -> CompanyRows], UNCHANGED <<cert, initial, upload>>
    PROVE  IInv'
BY DEF IInv, Typed, Contiguous, UsedOnce, InUse, UploadsOK, UploadOK, Holding, RowsApart

----------------------------------------------------------------------------
(* Each step keeps the invariant.                                          *)

\* The operations on companies write the company's row.
LEMMA CompaniesKeep ==
    ASSUME IInv, NEW c \in Companies,
           \/ \E n \in Cnpjs : CreateCompany(c, n) \/ UpdateCompany(c, n)
           \/ \E s \in {"active", "deactivated"} : SetStatus(c, s)
           \/ \E s \in {"enabled", "paused"} : SetFlow(c, s)
    PROVE  IInv' /\ UNCHANGED <<cert, initial, upload>>
<1>1. company \in [Companies -> CompanyRows]
  BY DEF IInv, Typed
<1>2. PICK old \in CompanyRows : old = company[c]
  BY <1>1
<1>3. UNCHANGED <<cert, initial, upload>>
  BY DEF CreateCompany, UpdateCompany, SetStatus, SetFlow
<1>4. ASSUME NEW n \in Cnpjs
      PROVE  [old EXCEPT !.cnpj = n] \in CompanyRows
             /\ [old EXCEPT !.status = "registered", !.cnpj = n] \in CompanyRows
  BY DEF CompanyRows
<1>5. ASSUME NEW s \in {"active", "deactivated"}
      PROVE  [old EXCEPT !.status = s] \in CompanyRows
  BY DEF CompanyRows
<1>6. ASSUME NEW s \in {"enabled", "paused"}
      PROVE  [old EXCEPT !.flow = s] \in CompanyRows
  BY DEF CompanyRows
<1>7. \E row \in CompanyRows : company' = [company EXCEPT ![c] = row]
  <2>1. CASE \E n \in Cnpjs : CreateCompany(c, n)
    BY <1>2, <1>4, <2>1 DEF CreateCompany
  <2>2. CASE \E n \in Cnpjs : UpdateCompany(c, n)
    BY <1>2, <1>4, <2>2 DEF UpdateCompany
  <2>3. CASE \E s \in {"active", "deactivated"} : SetStatus(c, s)
    BY <1>2, <1>5, <2>3 DEF SetStatus
  <2>4. CASE \E s \in {"enabled", "paused"} : SetFlow(c, s)
    BY <1>2, <1>6, <2>4 DEF SetFlow
  <2>5. QED
    BY <2>1, <2>2, <2>3, <2>4
<1>8. company' \in [Companies -> CompanyRows]
  BY <1>1, <1>7
<1>9. QED
  BY <1>3, <1>8, CompanyStep

\* Writing a row of a certificate in place.
LEMMA RowWritten ==
    ASSUME IInv, NEW k \in Certificates, NEW new \in CertRows, cert' = [cert EXCEPT ![k] = new]
    PROVE  /\ cert' \in [Certificates -> CertRows]
           /\ cert'[k] = new
           /\ \A j \in Certificates \ {k} : cert'[j] = cert[j]
           /\ cert[k].state # "none" /\ new.state # "none" => Contiguous'
           /\ ~InUse(k) /\ new.state # "current" => UsedOnce'
<1>1. cert \in [Certificates -> CertRows]
  BY DEF IInv, Typed
<1>2. /\ cert' \in [Certificates -> CertRows] /\ cert'[k] = new
      /\ \A j \in Certificates \ {k} : cert'[j] = cert[j]
  BY <1>1
<1>3. ASSUME cert[k].state # "none", new.state # "none" PROVE Contiguous'
  BY <1>2, <1>3 DEF IInv, Contiguous
<1>4. ASSUME ~InUse(k), new.state # "current" PROVE UsedOnce'
  <2>1. \A j \in Certificates : InUse(j)' => InUse(j) /\ cert'[j] = cert[j]
    BY <1>2, <1>4 DEF InUse
  <2>2. QED
    BY <2>1 DEF IInv, UsedOnce
<1>5. QED
  BY <1>2, <1>3, <1>4

\* parse_pfx: no row is written.
LEMMA CheckPfxKeeps ==
    ASSUME IInv, NEW r \in Uploads, NEW c \in Companies, NEW pfx \in Pfxs, CheckPfx(r, c, pfx)
    PROVE  IInv' /\ UNCHANGED <<cert, initial>>
<1>1. PICK u : u = [IdleUpload EXCEPT !.pc = "create", !.company = c, !.pfx = pfx]
  OBVIOUS
<1>2. u \in UploadWork /\ u.pc = "create" /\ u.company = c /\ u.pfx = pfx
  BY <1>1, IdleTyped DEF UploadWork
<1>3. upload' = [upload EXCEPT ![r] = u] /\ UNCHANGED <<company, cert, initial>>
  BY <1>1 DEF CheckPfx
<1>4. UploadOK(u) /\ ~Holding(u)
  BY <1>2 DEF UploadOK, Holding
<1>5. QED
  BY <1>2, <1>3, <1>4, PlainStep

\* The first transaction takes a free row.
LEMMA CreatePendingKeeps ==
    ASSUME IInv, NEW r \in Uploads, CreatePending(r)
    PROVE  /\ IInv' /\ UNCHANGED initial
           /\ \A k \in Certificates : cert[k].state # "none" => cert'[k] = cert[k]
<1>1. PICK k \in Certificates :
           k = Cardinality({j \in Certificates : cert[j].state # "none"}) + 1
  BY DEF CreatePending
<1>2. cert[k].state = "none" /\ \A j \in Certificates : cert[j].state # "none" <=> j < k
  BY <1>1, NextRowFree
<1>3. UNCHANGED <<company, initial>> /\ upload[r].pc = "create"
  BY DEF CreatePending
<1>4. CASE Fail(r) /\ UNCHANGED cert
  BY <1>3, <1>4, FailStep
<1>5. CASE /\ cert' = [cert EXCEPT ![k] = PendingCert(r)]
           /\ upload' = [upload EXCEPT ![r] = [@ EXCEPT !.pc = "upload", !.cert = k]]
  <2>1. upload[r] \in UploadWork /\ UploadOK(upload[r])
    BY DEF IInv, Typed, UploadsOK
  <2>2. upload[r].company \in Companies /\ upload[r].pfx \in Pfxs
    BY <1>3, <2>1 DEF UploadOK
  <2>3. PICK new : new = PendingCert(r)
    OBVIOUS
  <2>4. /\ new \in CertRows /\ new.state = "pending"
        /\ new.company = upload[r].company /\ new.pfx = upload[r].pfx
    BY <2>2, <2>3 DEF PendingCert, CertRows, CertStates
  <2>5. cert' = [cert EXCEPT ![k] = new]
    BY <1>5, <2>3
  <2>6. /\ cert' \in [Certificates -> CertRows]
        /\ cert'[k] = new
        /\ \A j \in Certificates \ {k} : cert'[j] = cert[j]
        /\ UsedOnce'
    BY <1>2, <2>4, <2>5, RowWritten DEF InUse
  <2>7. Contiguous'
    <3>1. k \in 0..MaxCertificates /\ k \in Nat /\ \A j \in Certificates : j \in Nat
      BY RegistryAssumption DEF Certificates
    <3>2. \A j \in Certificates : cert'[j].state # "none" <=> j <= k
      BY <1>2, <2>4, <2>6, <3>1
    <3>3. QED
      BY <3>1, <3>2 DEF Contiguous
  <2>8. PICK u : u = [upload[r] EXCEPT !.pc = "upload", !.cert = k]
    OBVIOUS
  <2>9. /\ u \in UploadWork /\ u.pc = "upload" /\ u.cert = k
        /\ u.company = upload[r].company /\ u.pfx = upload[r].pfx
    <3>1. k \in Nat
      BY RegistryAssumption DEF Certificates
    <3>2. QED
      BY <2>1, <2>8, <3>1 DEF UploadWork
  <2>10. upload' = [upload EXCEPT ![r] = u]
    BY <1>5, <2>8
  <2>11. UploadOK(u)'
    BY <2>2, <2>4, <2>6, <2>9 DEF UploadOK, Holding
  <2>12. company' \in [Companies -> CompanyRows] /\ initial' \in [Companies -> 0..MaxCertificates]
    BY <1>3 DEF IInv, Typed
  <2>13. \A j \in Certificates : cert[j].state # "none" => cert'[j] = cert[j]
    BY <1>2, <2>6
  <2>14. cert[u.cert].state # "pending"
    BY <1>2, <2>9
  <2>15. \A j \in Certificates : ~(cert[j].state = "pending" /\ cert'[j] # cert[j])
    BY <2>13
  <2>16. IInv'
    BY <2>6, <2>7, <2>9, <2>10, <2>11, <2>12, <2>14, <2>15, UploadStep
  <2>17. QED
    BY <1>3, <2>13, <2>16
<1>6. QED
  BY <1>1, <1>4, <1>5 DEF CreatePending

\* What an upload between its transactions holds.
LEMMA Held ==
    ASSUME IInv, NEW r \in Uploads, Holding(upload[r])
    PROVE  /\ upload[r] \in UploadWork
           /\ upload[r].cert \in Certificates
           /\ cert[upload[r].cert] \in CertRows
           /\ cert[upload[r].cert].state = "pending"
           /\ cert[upload[r].cert].company = upload[r].company
           /\ cert[upload[r].cert].pfx = upload[r].pfx
           /\ upload[r].company \in Companies
           /\ upload[r].pfx \in Pfxs
           /\ upload[r].pc = "activate" => cert[upload[r].cert].stored
<1>1. UploadOK(upload[r]) /\ upload[r] \in UploadWork
  BY DEF IInv, Typed, UploadsOK
<1>2. upload[r].pc # "idle"
  BY DEF Holding
<1>3. QED
  BY <1>1, <1>2 DEF UploadOK, IInv, Typed

\* The pending row fails, and the request with it.
LEMMA RowFails ==
    ASSUME IInv, NEW r \in Uploads, NEW k, Holding(upload[r]), k = upload[r].cert,
           cert' = [cert EXCEPT ![k].state = "storage_failed"], Fail(r),
           UNCHANGED <<company, initial>>
    PROVE  /\ IInv'
           /\ \A j \in Certificates : cert[j].state # "pending" => cert'[j] = cert[j]
<1>1. k \in Certificates /\ cert[k] \in CertRows /\ cert[k].state = "pending"
  BY Held
<1>2. PICK new : new = [cert[k] EXCEPT !.state = "storage_failed"]
  OBVIOUS
<1>3. new \in CertRows /\ new.state = "storage_failed"
  BY <1>1, <1>2 DEF CertRows, CertStates
<1>4. cert' = [cert EXCEPT ![k] = new]
  BY <1>2
<1>5. /\ cert' \in [Certificates -> CertRows]
      /\ cert'[k] = new
      /\ \A j \in Certificates \ {k} : cert'[j] = cert[j]
      /\ Contiguous' /\ UsedOnce'
  BY <1>1, <1>3, <1>4, RowWritten DEF InUse
<1>6. UploadOK(IdleUpload)' /\ ~Holding(IdleUpload)
  BY DEF UploadOK, Holding, IdleUpload
<1>7. company' \in [Companies -> CompanyRows] /\ initial' \in [Companies -> 0..MaxCertificates]
  BY DEF IInv, Typed
<1>8. upload' = [upload EXCEPT ![r] = IdleUpload]
  BY DEF Fail
<1>9. \A j \in Certificates : cert[j].state = "pending" /\ cert'[j] # cert[j] =>
          Holding(upload[r]) /\ j = upload[r].cert
  BY <1>5
<1>10. IInv'
  BY <1>5, <1>6, <1>7, <1>8, <1>9, IdleTyped, UploadStep
<1>11. QED
  BY <1>1, <1>5, <1>10

\* transmit: the row is stored, or fails.
LEMMA TransmitKeeps ==
    ASSUME IInv, NEW r \in Uploads, NEW ok \in BOOLEAN, Transmit(r, ok)
    PROVE  /\ IInv' /\ UNCHANGED initial
           /\ \A j \in Certificates : cert[j].state # "pending" => cert'[j] = cert[j]
<1>1. upload[r].pc = "upload" /\ Holding(upload[r]) /\ UNCHANGED <<company, initial>>
  BY DEF Transmit, Holding
<1>2. PICK k \in Certificates : k = upload[r].cert
  BY <1>1, Held
<1>3. CASE ~ok
  <2>1. cert' = [cert EXCEPT ![k].state = "storage_failed"] /\ Fail(r)
    BY <1>2, <1>3 DEF Transmit
  <2>2. QED
    BY <1>1, <1>2, <2>1, RowFails
<1>4. CASE ok
  <2>1. /\ cert[k] \in CertRows /\ cert[k].state = "pending"
        /\ cert[k].company = upload[r].company /\ cert[k].pfx = upload[r].pfx
        /\ upload[r] \in UploadWork /\ upload[r].company \in Companies /\ upload[r].pfx \in Pfxs
    BY <1>1, <1>2, Held
  <2>2. PICK new : new = [cert[k] EXCEPT !.stored = TRUE]
    OBVIOUS
  <2>3. /\ new \in CertRows /\ new.state = "pending" /\ new.stored
        /\ new.company = upload[r].company /\ new.pfx = upload[r].pfx
    BY <2>1, <2>2 DEF CertRows
  <2>4. cert' = [cert EXCEPT ![k] = new]
    BY <1>2, <1>4, <2>2 DEF Transmit
  <2>5. /\ cert' \in [Certificates -> CertRows]
        /\ cert'[k] = new
        /\ \A j \in Certificates \ {k} : cert'[j] = cert[j]
        /\ Contiguous' /\ UsedOnce'
    BY <2>1, <2>3, <2>4, RowWritten DEF InUse
  <2>6. PICK u : u = [upload[r] EXCEPT !.pc = "activate"]
    OBVIOUS
  <2>7. /\ u \in UploadWork /\ u.pc = "activate" /\ u.cert = k
        /\ u.company = upload[r].company /\ u.pfx = upload[r].pfx
    BY <1>2, <2>1, <2>6 DEF UploadWork
  <2>8. upload' = [upload EXCEPT ![r] = u]
    BY <1>4, <2>6 DEF Transmit
  <2>9. UploadOK(u)'
    BY <2>1, <2>3, <2>5, <2>7 DEF UploadOK, Holding
  <2>10. company' \in [Companies -> CompanyRows] /\ initial' \in [Companies -> 0..MaxCertificates]
    BY <1>1 DEF IInv, Typed
  <2>11. \A j \in Certificates : cert[j].state = "pending" /\ cert'[j] # cert[j] =>
            Holding(upload[r]) /\ j = upload[r].cert
    BY <1>1, <1>2, <2>5
  <2>12. Holding(upload[r]) /\ u.cert = upload[r].cert
    BY <1>1, <1>2, <2>7
  <2>13. IInv'
    BY <2>5, <2>7, <2>8, <2>9, <2>10, <2>11, <2>12, UploadStep
  <2>14. QED
    BY <1>1, <2>1, <2>5, <2>13
<1>5. QED
  BY <1>3, <1>4

\* What the second transaction leaves of each row.
LEMMA ActivatedRows ==
    ASSUME IInv, NEW k \in Certificates, NEW c \in Companies, cert[k].state = "pending",
           cert' = Activated(k, c)
    PROVE  /\ cert' \in [Certificates -> CertRows]
           /\ cert'[k].state = "current" /\ cert'[k].company = cert[k].company
           /\ cert'[k].pfx = cert[k].pfx /\ cert'[k].stored = cert[k].stored
           /\ \A j \in Certificates \ {k} :
                IF j \in Current(c) THEN cert'[j].state = "replaced" ELSE cert'[j] = cert[j]
<1>1. cert \in [Certificates -> CertRows]
  BY DEF IInv, Typed
<1>2. ASSUME NEW j \in Certificates
      PROVE  /\ cert'[j] \in CertRows
             /\ j = k => /\ cert'[j].state = "current" /\ cert'[j].company = cert[j].company
                         /\ cert'[j].pfx = cert[j].pfx /\ cert'[j].stored = cert[j].stored
             /\ j # k => IF j \in Current(c) THEN cert'[j].state = "replaced"
                         ELSE cert'[j] = cert[j]
  <2>1. PICK old \in CertRows : old = cert[j]
    BY <1>1
  <2>2. [old EXCEPT !.state = "current"] \in CertRows /\ [old EXCEPT !.state = "replaced"] \in CertRows
    BY DEF CertRows, CertStates
  <2>3. cert'[j] = IF j = k THEN [old EXCEPT !.state = "current"]
                   ELSE IF j \in Current(c) THEN [old EXCEPT !.state = "replaced"] ELSE old
    BY <2>1 DEF Activated
  <2>4. QED
    BY <2>1, <2>2, <2>3 DEF CertRows
<1>3. cert' \in [Certificates -> CertRows]
  <2>1. cert' = [j \in Certificates |-> cert'[j]]
    BY DEF Activated
  <2>2. QED
    BY <1>2, <2>1
<1>4. QED
  BY <1>2, <1>3

\* The second transaction: one certificate takes the place of another.
LEMMA ActivateKeeps ==
    ASSUME IInv, NEW r \in Uploads, Activate(r)
    PROVE  /\ IInv'
           /\ \/ /\ UNCHANGED initial
                 /\ \A j \in Certificates : cert[j].state # "pending" => cert'[j] = cert[j]
              \/ \E k \in Certificates, c \in Companies :
                    /\ cert[k].state = "pending" /\ cert[k].company = c /\ cert[k].stored
                    /\ cert' = Activated(k, c)
                    /\ initial' = [initial EXCEPT ![c] = InitialRequest(c, k)]
<1>1. upload[r].pc = "activate" /\ Holding(upload[r]) /\ UNCHANGED company /\ Fail(r)
  BY DEF Activate, Holding
<1>2. PICK k \in Certificates, c \in Companies : k = upload[r].cert /\ c = upload[r].company
  BY <1>1, Held
<1>3. CASE Assigned(upload[r].pfx, c)
  <2>1. cert' = [cert EXCEPT ![k].state = "storage_failed"] /\ UNCHANGED initial
    BY <1>2, <1>3 DEF Activate
  <2>2. QED
    BY <1>1, <1>2, <2>1, RowFails
<1>4. CASE ~Assigned(upload[r].pfx, c)
  <2>1. cert' = Activated(k, c) /\ initial' = [initial EXCEPT ![c] = InitialRequest(c, k)]
    BY <1>2, <1>4 DEF Activate
  <2>2. cert[k].state = "pending" /\ cert[k].company = c /\ cert[k].pfx = upload[r].pfx /\ cert[k].stored
    BY <1>1, <1>2, Held
  <2>3. /\ cert' \in [Certificates -> CertRows]
        /\ cert'[k].state = "current" /\ cert'[k].company = c
        /\ cert'[k].pfx = cert[k].pfx /\ cert'[k].stored
        /\ \A j \in Certificates \ {k} :
             IF j \in Current(c) THEN cert'[j].state = "replaced" ELSE cert'[j] = cert[j]
    BY <2>1, <2>2, ActivatedRows
  <2>4. \A j \in Certificates \ {k} : InUse(j)' =>
            /\ InUse(j) /\ cert'[j] = cert[j] /\ cert[j].company # c /\ cert[j].pfx # cert[k].pfx
    <3> SUFFICES ASSUME NEW j \in Certificates \ {k}, InUse(j)'
                 PROVE  InUse(j) /\ cert'[j] = cert[j] /\ cert[j].company # c
                        /\ cert[j].pfx # cert[k].pfx
      OBVIOUS
    <3>1. cert'[j] = cert[j] /\ InUse(j) /\ j \notin Current(c)
      BY <2>3 DEF InUse
    <3>2. cert[j].company # c
      BY <3>1 DEF Current, InUse
    <3>3. QED
      BY <1>4, <2>2, <3>1, <3>2 DEF Assigned, InUse
  <2>5. UsedOnce'
    <3>1. ASSUME NEW j \in Certificates, InUse(j)'
          PROVE  (cert[j].stored /\ cert[j].company \in Companies)'
      <4>1. CASE j = k
        BY <2>3, <4>1
      <4>2. CASE j # k
        BY <2>4, <3>1, <4>2 DEF IInv, UsedOnce
      <4>3. QED
        BY <4>1, <4>2
    <3>2. ASSUME NEW i \in Certificates, NEW j \in Certificates, InUse(i)', InUse(j)'
          PROVE  /\ cert'[i].company = cert'[j].company => i = j
                 /\ cert'[i].pfx = cert'[j].pfx => cert'[i].company = cert'[j].company
      <4>1. CASE i = k /\ j = k
        BY <4>1
      <4>2. CASE i = k /\ j # k
        BY <2>3, <2>4, <3>2, <4>2
      <4>3. CASE i # k /\ j = k
        BY <2>3, <2>4, <3>2, <4>3
      <4>4. CASE i # k /\ j # k
        BY <2>4, <3>2, <4>4 DEF IInv, UsedOnce
      <4>5. QED
        BY <4>1, <4>2, <4>3, <4>4
    <3>3. QED
      BY <3>1, <3>2 DEF UsedOnce, InUse
  <2>6. Contiguous'
    <3>1. \A j \in Certificates : cert'[j].state # "none" <=> cert[j].state # "none"
      BY <2>2, <2>3 DEF Current
    <3>2. QED
      BY <3>1 DEF IInv, Contiguous
  <2>7. \A j \in Certificates : cert[j].state = "pending" /\ cert'[j] # cert[j] =>
            Holding(upload[r]) /\ j = upload[r].cert
    BY <1>1, <1>2, <2>3 DEF Current
  <2>8. initial' \in [Companies -> 0..MaxCertificates]
    <3>1. InitialRequest(c, k) \in 0..MaxCertificates
      BY RegistryAssumption DEF InitialRequest, IInv, Typed, Certificates
    <3>2. QED
      BY <2>1, <3>1 DEF IInv, Typed
  <2>9. company' \in [Companies -> CompanyRows] /\ upload' = [upload EXCEPT ![r] = IdleUpload]
    BY <1>1 DEF IInv, Typed, Fail
  <2>10. UploadOK(IdleUpload)' /\ ~Holding(IdleUpload)
    BY DEF UploadOK, Holding, IdleUpload
  <2>11. IInv'
    BY <2>3, <2>5, <2>6, <2>7, <2>8, <2>9, <2>10, IdleTyped, UploadStep
  <2>12. QED
    BY <2>1, <2>2, <2>11
<1>5. QED
  BY <1>3, <1>4

\* What a step may never do to the certificates in use and to the requests.
Serves ==
    /\ \A c \in Companies : Current(c) # {} => Current(c)' # {}
    /\ \A k \in Certificates : cert[k].state = "replaced" => cert'[k].state = "replaced"
    /\ \A c \in Companies :
          /\ initial[c] # 0 => initial'[c] = initial[c]
          /\ initial'[c] # initial[c] => LET k == initial'[c]
                                         IN  cert'[k].state = "current" /\ cert'[k].stored
                                             /\ cert'[k].company = c

\* A step that touches no certificate but pending ones and free rows serves.
LEMMA QuietServes ==
    ASSUME UNCHANGED initial,
           \A j \in Certificates : cert[j].state \notin {"none", "pending"} => cert'[j] = cert[j]
    PROVE  Serves
<1>1. ASSUME NEW c \in Companies, Current(c) # {} PROVE Current(c)' # {}
  <2>1. PICK j \in Certificates : cert[j].state = "current" /\ cert[j].company = c
    BY <1>1 DEF Current
  <2>2. cert'[j] = cert[j]
    BY <2>1
  <2>3. j \in Current(c)'
    BY <2>1, <2>2 DEF Current
  <2>4. QED
    BY <2>3
<1>2. \A k \in Certificates : cert[k].state = "replaced" => cert'[k].state = "replaced"
  OBVIOUS
<1>3. QED
  BY <1>1, <1>2 DEF Serves

\* The transaction that replaces a certificate serves.
LEMMA ActivatedServes ==
    ASSUME IInv, NEW k \in Certificates, NEW c \in Companies, cert[k].state = "pending",
           cert[k].company = c, cert[k].stored, cert' = Activated(k, c),
           initial' = [initial EXCEPT ![c] = InitialRequest(c, k)]
    PROVE  Serves
<1>1. /\ cert'[k].state = "current" /\ cert'[k].company = c /\ cert'[k].stored
      /\ \A j \in Certificates \ {k} :
           IF j \in Current(c) THEN cert'[j].state = "replaced" ELSE cert'[j] = cert[j]
  BY ActivatedRows
<1>2. ASSUME NEW d \in Companies, Current(d) # {} PROVE Current(d)' # {}
  <2>1. CASE d = c
    <3>1. k \in Current(d)'
      BY <1>1, <2>1 DEF Current
    <3>2. QED
      BY <3>1
  <2>2. CASE d # c
    <3>1. PICK j \in Certificates : cert[j].state = "current" /\ cert[j].company = d
      BY <1>2 DEF Current
    <3>2. j # k /\ j \notin Current(c)
      BY <2>2, <3>1 DEF Current
    <3>3. cert'[j] = cert[j]
      BY <1>1, <3>2
    <3>4. j \in Current(d)'
      BY <3>1, <3>3 DEF Current
    <3>5. QED
      BY <3>4
  <2>3. QED
    BY <2>1, <2>2
<1>3. \A j \in Certificates : cert[j].state = "replaced" => cert'[j].state = "replaced"
  BY <1>1 DEF Current
<1>4. ASSUME NEW d \in Companies
      PROVE  /\ initial[d] # 0 => initial'[d] = initial[d]
             /\ initial'[d] # initial[d] =>
                  /\ cert'[initial'[d]].state = "current" /\ cert'[initial'[d]].stored
                  /\ cert'[initial'[d]].company = d
  <2>1. initial \in [Companies -> 0..MaxCertificates]
    BY DEF IInv, Typed
  <2>2. CASE d # c
    BY <2>1, <2>2
  <2>3. CASE d = c
    <3>1. initial'[d] = IF company[c].status = "active" /\ initial[c] = 0 THEN k ELSE initial[c]
      BY <2>1, <2>3 DEF InitialRequest
    <3>2. CASE company[c].status = "active" /\ initial[c] = 0
      BY <1>1, <2>3, <3>1, <3>2
    <3>3. CASE ~(company[c].status = "active" /\ initial[c] = 0)
      BY <2>3, <3>1, <3>3
    <3>4. QED
      BY <3>2, <3>3
  <2>4. QED
    BY <2>2, <2>3
<1>5. QED
  BY <1>2, <1>3, <1>4 DEF Serves

\* Every step keeps the invariant, and serves.
LEMMA NextKeeps ==
    ASSUME IInv, RegistryNext \/ UNCHANGED registryVars
    PROVE  IInv' /\ Serves
<1>1. CASE UNCHANGED registryVars
  <2>1. UNCHANGED <<cert, initial, upload, company>>
    BY <1>1 DEF registryVars
  <2>2. company' \in [Companies -> CompanyRows]
    BY <2>1 DEF IInv, Typed
  <2>3. IInv'
    BY <2>1, <2>2, CompanyStep
  <2>4. QED
    BY <2>1, <2>3, QuietServes
<1>2. ASSUME NEW c \in Companies,
             \/ \E n \in Cnpjs : CreateCompany(c, n) \/ UpdateCompany(c, n)
             \/ \E s \in {"active", "deactivated"} : SetStatus(c, s)
             \/ \E s \in {"enabled", "paused"} : SetFlow(c, s)
      PROVE  IInv' /\ Serves
  <2>1. IInv' /\ UNCHANGED <<cert, initial, upload>>
    BY <1>2, CompaniesKeep
  <2>2. QED
    BY <2>1, QuietServes
<1>3. ASSUME NEW r \in Uploads, NEW c \in Companies, NEW pfx \in Pfxs, CheckPfx(r, c, pfx)
      PROVE  IInv' /\ Serves
  <2>1. IInv' /\ UNCHANGED <<cert, initial>>
    BY <1>3, CheckPfxKeeps
  <2>2. QED
    BY <2>1, QuietServes
<1>4. ASSUME NEW r \in Uploads, CreatePending(r) PROVE IInv' /\ Serves
  <2>1. IInv' /\ UNCHANGED initial /\ \A k \in Certificates : cert[k].state # "none" => cert'[k] = cert[k]
    BY <1>4, CreatePendingKeeps
  <2>2. QED
    BY <2>1, QuietServes
<1>5. ASSUME NEW r \in Uploads, NEW ok \in BOOLEAN, Transmit(r, ok) PROVE IInv' /\ Serves
  <2>1. IInv' /\ UNCHANGED initial /\ \A k \in Certificates : cert[k].state # "pending" => cert'[k] = cert[k]
    BY <1>5, TransmitKeeps
  <2>2. QED
    BY <2>1, QuietServes
<1>6. ASSUME NEW r \in Uploads, Activate(r) PROVE IInv' /\ Serves
  <2>1. IInv'
    BY <1>6, ActivateKeeps
  <2>2. CASE UNCHANGED initial /\ \A j \in Certificates : cert[j].state # "pending" => cert'[j] = cert[j]
    BY <2>1, <2>2, QuietServes
  <2>3. CASE \E k \in Certificates, c \in Companies :
                    /\ cert[k].state = "pending" /\ cert[k].company = c /\ cert[k].stored
                    /\ cert' = Activated(k, c)
                    /\ initial' = [initial EXCEPT ![c] = InitialRequest(c, k)]
    BY <2>1, <2>3, ActivatedServes
  <2>4. QED
    BY <1>6, <2>2, <2>3, ActivateKeeps
<1>7. ASSUME NEW r \in Uploads, UploadDies(r) PROVE IInv' /\ Serves
  <2>1. UNCHANGED <<company, cert, initial>> /\ Fail(r)
    BY <1>7 DEF UploadDies
  <2>2. QED
    BY <2>1, FailStep, QuietServes
<1>8. QED
  BY <1>1, <1>2, <1>3, <1>4, <1>5, <1>6, <1>7 DEF RegistryNext

\* Nothing is registered at first.
LEMMA InitHolds == RegistryInit => IInv
<1> SUFFICES ASSUME RegistryInit PROVE IInv
  OBVIOUS
<1>1. Typed
  <2>1. Unregistered \in CompanyRows /\ NoCert \in CertRows
    BY DEF Unregistered, CompanyRows, NoCert, CertRows, CertStates
  <2>2. QED
    BY <2>1, IdleTyped, RegistryAssumption DEF RegistryInit, Typed
<1>2. Contiguous
  <2>1. 0 \in 0..MaxCertificates /\ \A k \in Certificates : cert[k].state = "none" /\ ~(k <= 0)
    BY RegistryAssumption DEF RegistryInit, NoCert, Certificates
  <2>2. QED
    BY <2>1 DEF Contiguous
<1>3. UsedOnce
  BY DEF RegistryInit, NoCert, UsedOnce, InUse
<1>4. UploadsOK /\ RowsApart
  BY DEF RegistryInit, UploadsOK, UploadOK, RowsApart, Holding, IdleUpload
<1>5. QED
  BY <1>1, <1>2, <1>3, <1>4 DEF IInv

----------------------------------------------------------------------------
(* The theorems.                                                           *)

\* The invariant holds however uploads race, fail and die and companies are edited
\* (add_certificate).
THEOREM InvariantHolds == RegistrySpec => []IInv
<1>1. RegistryInit => IInv
  BY InitHolds
<1>2. IInv /\ [RegistryNext]_registryVars => IInv'
  BY NextKeeps
<1>3. QED
  BY <1>1, <1>2, PTL DEF RegistrySpec

\* A certificate in use is stored and is the only one of its only company
\* (the locks and the check for another company in add_certificate).
THEOREM RegistryInvHolds == RegistrySpec => []RegistryInv
<1>1. ASSUME IInv PROVE RegistryInv
  <2>1. RegistryTypeOK
    BY <1>1 DEF IInv, Typed, RegistryTypeOK, CompanyRows, CertRows, CertStates, UploadWork
  <2>2. ASSUME NEW k \in Certificates, cert[k].state = "current"
        PROVE  /\ cert[k].stored
               /\ Current(cert[k].company) = {k}
               /\ ~Assigned(cert[k].pfx, cert[k].company)
    BY <1>1, <2>2 DEF IInv, UsedOnce, InUse, Current, Assigned
  <2>3. QED
    BY <2>1, <2>2 DEF RegistryInv
<1>2. QED
  BY <1>1, InvariantHolds, PTL

\* No step leaves a company without the certificate it had, revives a replaced one or
\* asks for a second initial collection (add_certificate, _queue_initial_collection).
THEOREM NeverWithoutCertificateHolds == RegistrySpec => NeverWithoutCertificate
<1>1. IInv /\ [RegistryNext]_registryVars => [Serves]_registryVars
  BY NextKeeps
<1>2. QED
  BY <1>1, InvariantHolds, PTL DEF RegistrySpec, NeverWithoutCertificate, Serves

----------------------------------------------------------------------------
(* Retention.                                                              *)

LEMMA DaysInRange ==
    ASSUME NEW y \in Nat, NEW m \in 1..12
    PROVE  DaysIn(y, m) \in 28..31
  BY DEF DaysIn

LEMMA MinOfTwo ==
    ASSUME NEW x \in Int, NEW y \in Int
    PROVE  Min({x, y}) = IF x <= y THEN x ELSE y
  BY DEF Min

LEMMA MaxOfTwo ==
    ASSUME NEW x \in Int, NEW y \in Int
    PROVE  Max({x, y}) = IF x >= y THEN x ELSE y
  BY DEF Max

\* Eleven years are 132 months: the month is kept, the day cut to its length.
LEMMA ElevenYears ==
    ASSUME NEW d, IsDate(d)
    PROVE  LET last == DaysIn(d[1] + 11, d[2])
           IN  EligibilityDate("nfe", d) = <<d[1] + 11, d[2], IF d[3] <= last THEN d[3] ELSE last>>
<1>1. d[1] \in Nat /\ d[2] \in 1..12 /\ d[3] \in 1..31
  BY DEF IsDate
<1> DEFINE index == d[1] * 12 + d[2] - 1 + 132
<1>2. index \div 12 = d[1] + 11 /\ index % 12 = d[2] - 1
  BY <1>1
<1>3. (d[2] - 1) + 1 = d[2] /\ DaysIn(d[1] + 11, d[2]) \in 28..31
  BY <1>1, DaysInRange
<1>4. EligibilityDate("nfe", d) = <<index \div 12, (index % 12) + 1,
                                   Min({d[3], DaysIn(index \div 12, (index % 12) + 1)})>>
  BY DEF EligibilityDate, AddMonths
<1>5. EligibilityDate("nfe", d) = <<d[1] + 11, d[2], Min({d[3], DaysIn(d[1] + 11, d[2])})>>
  <2> HIDE DEF index
  <2> QED
    BY <1>2, <1>3, <1>4
<1>6. QED
  BY <1>1, <1>3, <1>5, MinOfTwo

\* A later document is never eligible earlier, whatever its family: the order of
\* calculate_eligibility_date is the order of the dates, though a day may be cut to
\* the end of a shorter month.
THEOREM EligibilityKeepsOrder ==
    ASSUME NEW d, NEW e, IsDate(d), IsDate(e), AtLeast(e, d), NEW family \in {"nfe", "nfse"}
    PROVE  AtLeast(EligibilityDate(family, e), EligibilityDate(family, d))
<1>1. /\ d[1] \in Nat /\ d[2] \in 1..12 /\ d[3] \in 1..31
      /\ e[1] \in Nat /\ e[2] \in 1..12 /\ e[3] \in 1..31
  BY DEF IsDate
<1>2. CASE family = "nfse"
  BY <1>1, <1>2 DEF EligibilityDate, AtLeast
<1>3. CASE family = "nfe"
  <2> DEFINE ld == DaysIn(d[1] + 11, d[2])
             le == DaysIn(e[1] + 11, e[2])
  <2>1. ld \in 28..31 /\ le \in 28..31
    BY <1>1, DaysInRange
  <2>2. d[1] = e[1] /\ d[2] = e[2] => ld = le
    OBVIOUS
  <2>3. /\ EligibilityDate("nfe", d) = <<d[1] + 11, d[2], IF d[3] <= ld THEN d[3] ELSE ld>>
        /\ EligibilityDate("nfe", e) = <<e[1] + 11, e[2], IF e[3] <= le THEN e[3] ELSE le>>
    BY ElevenYears
  <2> HIDE DEF ld, le
  <2>4. QED
    BY <1>1, <1>3, <2>1, <2>2, <2>3 DEF AtLeast
<1>4. QED
  BY <1>2, <1>3

\* The day before is a date, it is earlier and its next day is the day itself.
LEMMA PrevDayIsEarlier ==
    ASSUME NEW d, IsDate(d), d[1] >= 1
    PROVE  IsDate(PrevDay(d)) /\ ~AtLeast(PrevDay(d), d) /\ NextDay(PrevDay(d)) = d
<1>1. /\ d[1] \in Nat /\ d[2] \in 1..12 /\ d[3] \in 1..31 /\ d[3] <= DaysIn(d[1], d[2])
      /\ d = <<d[1], d[2], d[3]>>
  BY DEF IsDate
<1>2. DaysIn(d[1], d[2]) \in 28..31
  BY <1>1, DaysInRange
<1>3. CASE d[3] > 1
  <2>1. PrevDay(d) = <<d[1], d[2], d[3] - 1>>
    BY <1>3 DEF PrevDay
  <2>2. IsDate(PrevDay(d)) /\ ~AtLeast(PrevDay(d), d)
    BY <1>1, <1>2, <1>3, <2>1 DEF IsDate, AtLeast
  <2>3. NextDay(PrevDay(d)) = <<d[1], d[2], (d[3] - 1) + 1>>
    BY <1>1, <1>2, <1>3, <2>1 DEF NextDay
  <2>4. QED
    BY <1>1, <2>2, <2>3
<1>4. CASE ~(d[3] > 1) /\ d[2] > 1
  <2>1. PrevDay(d) = <<d[1], d[2] - 1, DaysIn(d[1], d[2] - 1)>>
    BY <1>4 DEF PrevDay
  <2>2. DaysIn(d[1], d[2] - 1) \in 28..31
    BY <1>1, <1>4, DaysInRange
  <2>3. IsDate(PrevDay(d)) /\ ~AtLeast(PrevDay(d), d)
    BY <1>1, <1>4, <2>1, <2>2 DEF IsDate, AtLeast
  <2>4. NextDay(PrevDay(d)) = <<d[1], (d[2] - 1) + 1, 1>>
    BY <1>1, <1>4, <2>1, <2>2 DEF NextDay
  <2>5. QED
    BY <1>1, <1>4, <2>3, <2>4
<1>5. CASE ~(d[3] > 1) /\ ~(d[2] > 1)
  <2>1. PrevDay(d) = <<d[1] - 1, 12, 31>>
    BY <1>5 DEF PrevDay
  <2>2. DaysIn(d[1] - 1, 12) = 31
    BY DEF DaysIn
  <2>3. IsDate(PrevDay(d)) /\ ~AtLeast(PrevDay(d), d)
    BY <1>1, <1>5, <2>1, <2>2 DEF IsDate, AtLeast
  <2>4. NextDay(PrevDay(d)) = <<(d[1] - 1) + 1, 1, 1>>
    BY <1>1, <1>5, <2>1, <2>2 DEF NextDay
  <2>5. QED
    BY <1>1, <1>5, <2>3, <2>4
<1>6. QED
  BY <1>3, <1>4, <1>5

LEMMA CivilDateIsDate ==
    ASSUME NEW t \in Moments
    PROVE  /\ IsDate(CivilDate(t)) /\ CivilDate(t)[1] \in Nat
           /\ t.date = IF t.hour < t.behind THEN NextDay(CivilDate(t)) ELSE CivilDate(t)
<1>1. IsDate(t.date) /\ t.date[1] >= 1
  <2>1. t \in [date : (Nat \ {0, 1}) \X (1..12) \X (1..31), hour : 0..23, behind : {2, 3}]
    BY RulesAssumption
  <2>2. t.date \in (Nat \ {0, 1}) \X (1..12) \X (1..31)
    BY <2>1
  <2>3. \A d \in (Nat \ {0, 1}) \X (1..12) \X (1..31) : d[1] >= 1
    OBVIOUS
  <2>4. QED
    BY <2>2, <2>3, RulesAssumption
<1>2. QED
  BY <1>1, PrevDayIsEarlier DEF CivilDate, IsDate

\* The 29th of February is the only day eleven years cut: a leap year is a multiple of
\* four, eleven years later none is.
LEMMA ElevenYearsDay ==
    ASSUME NEW d, IsDate(d)
    PROVE  LET first == <<d[1] + 11, d[2], IF d[2] = 2 /\ d[3] = 29 THEN 28 ELSE d[3]>>
           IN  EligibilityDate("nfe", d) = first /\ IsDate(first)
<1> DEFINE last == DaysIn(d[1] + 11, d[2])
<1>1. d[1] \in Nat /\ d[2] \in 1..12 /\ d[3] \in 1..31 /\ d[3] <= DaysIn(d[1], d[2])
  BY DEF IsDate
<1>2. EligibilityDate("nfe", d) = <<d[1] + 11, d[2], IF d[3] <= last THEN d[3] ELSE last>>
  BY ElevenYears
<1>3. CASE d[2] # 2
  <2>1. DaysIn(d[1], d[2]) = last
    BY <1>3 DEF DaysIn
  <2>2. d[3] <= last
    BY <1>1, <2>1
  <2>3. QED
    BY <1>1, <1>2, <1>3, <2>2 DEF IsDate
<1>4. CASE d[2] = 2
  <2>1. Leap(d[1]) => ~Leap(d[1] + 11)
    BY <1>1 DEF Leap
  <2>2. /\ DaysIn(d[1], d[2]) = IF Leap(d[1]) THEN 29 ELSE 28
        /\ last = IF Leap(d[1] + 11) THEN 29 ELSE 28
    BY <1>4 DEF DaysIn
  <2>3. d[3] = 29 => last = 28
    BY <1>1, <2>1, <2>2
  <2>4. d[3] # 29 => d[3] <= 28 /\ d[3] <= last
    BY <1>1, <2>2
  <2> HIDE DEF last
  <2>5. EligibilityDate("nfe", d) = <<d[1] + 11, d[2], IF d[2] = 2 /\ d[3] = 29 THEN 28 ELSE d[3]>>
    BY <1>1, <1>2, <1>4, <2>3, <2>4
  <2>6. (IF d[2] = 2 /\ d[3] = 29 THEN 28 ELSE d[3]) <= DaysIn(d[1] + 11, d[2])
    BY <1>1, <1>4, <2>3, <2>4 DEF last
  <2>7. QED
    BY <1>1, <2>5, <2>6 DEF IsDate
<1>5. QED
  BY <1>3, <1>4

\* A row is available exactly when nothing is wrong with it.
LEMMA AvailableIsIntact ==
    ASSUME NEW row \in EvidenceRows
    PROVE  ArtifactAvailable(row) <=> row = IntactRow
  BY DEF EvidenceRows, ArtifactAvailable, IntactRow

LEMMA SoundRows ==
    ASSUME NEW rows \in Evidence
    PROVE  (rows # {} /\ \A row \in rows : ArtifactAvailable(row)) <=> rows = {IntactRow}
<1>1. \A row \in rows : row \in EvidenceRows
  BY RulesAssumption
<1>2. \A row \in rows : ArtifactAvailable(row) <=> row = IntactRow
  BY <1>1, AvailableIsIntact
<1>3. QED
  BY <1>2

LEMMA SoundIsKept ==
    ASSUME NEW doc \in Documents
    PROVE  EvidenceSound(doc) <=> /\ doc.state = "persisted"
                                  /\ \A rows \in {doc.evidence} \cup doc.events : rows = {IntactRow}
<1>1. doc.evidence \in Evidence /\ \A rows \in doc.events : rows \in Evidence
  BY DEF Documents
<1>2. QED
  BY <1>1, SoundRows DEF EvidenceSound

\* What is decided for a document with sound evidence, around the date its moment gives.
LEMMA DecidedByDate ==
    ASSUME NEW doc \in Documents, EvidenceSound(doc), NEW t \in Moments, Basis(doc) = {t},
           NEW first, first = EligibilityDate(doc.family, CivilDate(t)), IsDate(first), first[1] >= 1
    PROVE  Decision(doc, PrevDay(first)) = "retained" /\ Decision(doc, first) = "eligible"
<1>1. EligibilityDates(doc) = {first}
  BY DEF EligibilityDates
<1>2. ~AtLeast(PrevDay(first), first)
  BY PrevDayIsEarlier
<1>3. AtLeast(first, first)
  BY DEF AtLeast, IsDate
<1>4. QED
  BY <1>1, <1>2, <1>3 DEF Decision

LEMMA DocumentKept ==
    ASSUME NEW doc \in Documents, question = [kind |-> "document", document |-> doc]
    PROVE  RetentionExact
<1> DEFINE kept == /\ doc.state = "persisted"
                   /\ \A rows \in {doc.evidence} \cup doc.events : rows = {IntactRow}
           days == IF doc.family = "nfe" THEN doc.authorized
                   ELSE IF doc.family = "nfse" THEN doc.emitted ELSE {}
           First(d) == IF doc.family = "nfse" THEN <<d[1] + 6, 1, 1>>
                       ELSE <<d[1] + 11, d[2], IF d[2] = 2 /\ d[3] = 29 THEN 28 ELSE d[3]>>
<1>1. question.document = doc
  OBVIOUS
<1>2. kept <=> EvidenceSound(doc)
  BY SoundIsKept
<1>3. doc.family \in {"nfe", "nfse", "other"} /\ days = Basis(doc)
  BY DEF Documents, Basis
<1>4. \A t \in days : t \in Moments /\ days = {t} /\ doc.family \in {"nfe", "nfse"}
  BY <1>3 DEF Documents, Timestamps
<1>5. ASSUME NEW t \in days
      PROVE  /\ t.date = IF t.hour < t.behind THEN NextDay(CivilDate(t)) ELSE CivilDate(t)
             /\ kept => /\ Decision(doc, PrevDay(First(CivilDate(t)))) = "retained"
                        /\ Decision(doc, First(CivilDate(t))) = "eligible"
  <2> DEFINE d == CivilDate(t)
  <2>1. t \in Moments /\ Basis(doc) = {t} /\ doc.family \in {"nfe", "nfse"}
    BY <1>3, <1>4
  <2>2. /\ IsDate(d) /\ d[1] \in Nat
        /\ t.date = IF t.hour < t.behind THEN NextDay(d) ELSE d
    BY <2>1, CivilDateIsDate
  <2>3. First(d) = EligibilityDate(doc.family, d) /\ IsDate(First(d)) /\ First(d)[1] >= 1
    <3>1. CASE doc.family = "nfe"
      BY <2>2, <3>1, ElevenYearsDay
    <3>2. CASE doc.family = "nfse"
      BY <2>2, <3>2, DaysInRange DEF EligibilityDate, IsDate
    <3>3. QED
      BY <2>1, <3>1, <3>2
  <2> HIDE DEF d, First
  <2>4. kept => Decision(doc, PrevDay(First(d))) = "retained" /\ Decision(doc, First(d)) = "eligible"
    BY <1>2, <2>1, <2>3, DecidedByDate DEF d
  <2>5. QED
    BY <2>2, <2>4 DEF d
<1>6. ~kept \/ days = {} => Decision(doc, <<9999, 12, 31>>) = "non_executable"
  BY <1>2, <1>3 DEF Decision, EligibilityDates
<1>7. QED
  BY <1>1, <1>5, <1>6 DEF RetentionExact

----------------------------------------------------------------------------
(* Certificates and policies.                                              *)

LEMMA StatusDays ==
    ASSUME NEW from \in Int, NEW until \in Int, from < until
    PROVE  LET status == CertificateStatus(from, until)
               days == DaysUntilExpiry(until)
           IN  /\ (status = "expired") = (days = 0)
               /\ status = "expiring" => days <= 30
               /\ status = "valid" => days > 30
<1> DEFINE up == (until + Day - 1) \div Day
<1>1. up \in Int /\ (2 * up = until \/ 2 * up = until + 1)
  BY DEF Day
<1>2. DaysUntilExpiry(until) = IF 0 >= up THEN 0 ELSE up
  BY <1>1, MaxOfTwo DEF DaysUntilExpiry
<1> HIDE DEF up
<1>3. QED
  BY <1>1, <1>2 DEF CertificateStatus, Day

LEMMA SpecificityIsNat == \A p \in Policies : Specificity(p) \in 0..2
  BY DEF Policies, Specificity

\* What select_policy returns for two policies.
LEMMA SelectOfTwo ==
    ASSUME NEW p \in Policies, NEW q \in Policies, NEW at \in Nat
    PROVE  /\ InForce(p, at) /\ InForce(q, at) /\ Specificity(p) > Specificity(q)
                => SelectPolicy({p, q}, at) = {p}
           /\ InForce(p, at) /\ ~InForce(q, at) => SelectPolicy({p, q}, at) = {p}
<1>1. Specificity(p) \in Int /\ Specificity(q) \in Int
  BY SpecificityIsNat
<1>2. ASSUME InForce(p, at), InForce(q, at), Specificity(p) > Specificity(q)
      PROVE  SelectPolicy({p, q}, at) = {p}
  <2>1. {x \in {p, q} : InForce(x, at)} = {p, q}
    BY <1>2
  <2>2. {Specificity(x) : x \in {p, q}} = {Specificity(p), Specificity(q)}
    OBVIOUS
  <2>3. Max({Specificity(p), Specificity(q)}) = Specificity(p)
    BY <1>1, <1>2, MaxOfTwo
  <2>4. SelectPolicy({p, q}, at) = {x \in {p, q} : Specificity(x) = Specificity(p)}
    BY <2>1, <2>2, <2>3 DEF SelectPolicy
  <2>5. QED
    BY <1>1, <1>2, <2>4
<1>3. ASSUME InForce(p, at), ~InForce(q, at)
      PROVE  SelectPolicy({p, q}, at) = {p}
  <2>1. {x \in {p, q} : InForce(x, at)} = {p}
    BY <1>3
  <2>2. {Specificity(x) : x \in {p}} = {Specificity(p), Specificity(p)}
    OBVIOUS
  <2>3. Max({Specificity(p), Specificity(p)}) = Specificity(p)
    BY <1>1, MaxOfTwo
  <2>4. SelectPolicy({p, q}, at) = {x \in {p} : Specificity(x) = Specificity(p)}
    BY <2>1, <2>2, <2>3 DEF SelectPolicy
  <2>5. QED
    BY <2>4
<1>4. QED
  BY <1>2, <1>3

\* Of two windows that meet, exactly one is in force until the second ends.
LEMMA WindowsMeet ==
    ASSUME NEW p \in Policies, NEW q \in Policies, NEW at \in Nat,
           p.window[2] = q.window[1], p.window[1] <= at,
           q.window[2] = Never \/ at < q.window[2]
    PROVE  \/ InForce(p, at) /\ ~InForce(q, at)
           \/ InForce(q, at) /\ ~InForce(p, at)
<1>1. /\ p.window[1] \in Nat /\ q.window[1] \in Nat
      /\ p.window[2] \in Int /\ q.window[2] \in Int
  BY RulesAssumption DEF Policies, Windows, Never
<1>2. p.window[2] # Never
  BY <1>1 DEF Never
<1>3. QED
  BY <1>1, <1>2 DEF InForce

LEMMA HandOver ==
    ASSUME NEW p \in Policies, NEW q \in Policies, NEW at \in Nat
    PROVE  LET chosen == SelectPolicy({p, q}, at)
           IN  /\ (/\ p.source = q.source /\ p.flow = q.flow
                   /\ p.window[2] = q.window[1]
                   /\ p.window[1] <= at
                   /\ q.window[2] = Never \/ at < q.window[2])
                     => Cardinality(chosen) = 1
               /\ (InForce(p, at) /\ InForce(q, at) /\ Specificity(p) > Specificity(q))
                     => chosen = {p}
<1>1. ASSUME p.window[2] = q.window[1], p.window[1] <= at,
             q.window[2] = Never \/ at < q.window[2]
      PROVE  Cardinality(SelectPolicy({p, q}, at)) = 1
  <2>1. {p, q} = {q, p}
    OBVIOUS
  <2>2. \E x \in {p, q} : SelectPolicy({p, q}, at) = {x}
    BY <1>1, <2>1, WindowsMeet, SelectOfTwo
  <2>3. QED
    BY <2>2, FS_Singleton
<1>2. QED
  BY <1>1, SelectOfTwo

\* What is asked of the rules.
Asked ==
    \/ question = NoQuestion
    \/ \E doc \in Documents : question = [kind |-> "document", document |-> doc]
    \/ \E from, until \in Int :
          from < until /\ question = [kind |-> "certificate", from |-> from, until |-> until]
    \/ \E p, q \in Policies, at \in Nat :
          question = [kind |-> "policy", policies |-> {p, q}, at |-> at]
    \/ \E v \in CnpjValues : question = [kind |-> "cnpj", value |-> v]

LEMMA AskedAlways == RulesSpec => []Asked
<1>1. RulesInit => Asked
  BY DEF RulesInit, Asked
<1>2. Asked /\ [RulesNext]_question => Asked'
  <2> SUFFICES ASSUME Asked, [RulesNext]_question
               PROVE  Asked'
    OBVIOUS
  <2>1. CASE UNCHANGED question
    BY <2>1 DEF Asked
  <2>2. ASSUME NEW doc \in Documents, AskDocument(doc) PROVE Asked'
    BY <2>2 DEF AskDocument, Asked
  <2>3. ASSUME NEW from \in (-Horizon)..Horizon, NEW until \in (-Horizon)..Horizon,
               AskCertificate(from, until)
        PROVE  Asked'
    <3>1. from \in Int /\ until \in Int
      BY RulesAssumption
    <3>2. QED
      BY <2>3, <3>1 DEF AskCertificate, Asked
  <2>4. ASSUME NEW p \in Policies, NEW q \in Policies, NEW at \in 0..Instants,
               AskPolicy(p, q, at)
        PROVE  Asked'
    <3>1. at \in Nat
      BY RulesAssumption
    <3>2. QED
      BY <2>4, <3>1 DEF AskPolicy, Asked
  <2>5. ASSUME NEW v \in CnpjValues, AskCnpj(v) PROVE Asked'
    BY <2>5 DEF AskCnpj, Asked
  <2>6. QED
    BY <2>1, <2>2, <2>3, <2>4, <2>5 DEF RulesNext
<1>3. QED
  BY <1>1, <1>2, PTL DEF RulesSpec

----------------------------------------------------------------------------
(* The CNPJ validator.                                                     *)

\* The check digit normalize_cnpj computes is the one the CNPJ mandates exactly when
\* the weighted sum is no multiple of 11; then it is 1 in the place of 0.
THEOREM CheckDigitWrongAtEleven ==
    ASSUME NEW sum \in Nat
    PROVE  /\ CheckDigit(sum) = MandatedDigit(sum) <=> sum % 11 # 0
           /\ sum % 11 = 0 => CheckDigit(sum) = 1 /\ MandatedDigit(sum) = 0
<1>1. sum % 11 \in 0..10
  OBVIOUS
<1>2. QED
  BY <1>1 DEF CheckDigit, MandatedDigit

Digit == 0..9

LEMMA NoLetter == \A x \in Digit : x \in 0..9 /\ x # Letter
  BY DEF Digit, Letter

LEMMA ProductIsNatural == \A x, y \in Nat : x * y \in Nat
  OBVIOUS

LEMMA SumIsNatural ==
    ASSUME NEW a \in Nat, NEW b \in Nat, NEW c \in Nat, NEW d \in Nat, NEW e \in Nat,
           NEW f \in Nat, NEW g \in Nat, NEW h \in Nat, NEW i \in Nat, NEW j \in Nat,
           NEW k \in Nat, NEW l \in Nat, NEW m \in Nat
    PROVE  a + b + c + d + e + f + g + h + i + j + k + l + m \in Nat
  OBVIOUS

LEMMA WeightsAreNatural ==
    /\ Len(FirstWeights) = 12 /\ \A i \in 1..12 : FirstWeights[i] \in Nat
    /\ Len(SecondWeights) = 13 /\ \A i \in 1..13 : SecondWeights[i] \in Nat
  BY DEF FirstWeights, SecondWeights

\* A value's weighted sums are natural numbers.
LEMMA SumsAreNatural ==
    ASSUME NEW v, \A i \in 1..13 : v[i] \in Nat
    PROVE  Weighted(v, FirstWeights) \in Nat /\ Weighted(v, SecondWeights) \in Nat
<1>1. ASSUME NEW w, NEW n \in {12, 13}, Len(w) = n, \A i \in 1..n : w[i] \in Nat
      PROVE  Weighted(v, w) \in Nat
  <2> DEFINE p(i) == v[i] * w[i]
  <2>1. \A i \in 1..n : p(i) \in Nat
    <3>1. \A i \in 1..n : i \in 1..13
      BY <1>1
    <3>2. \A i \in 1..n : v[i] \in Nat /\ w[i] \in Nat
      BY <1>1, <3>1
    <3>3. QED
      BY <3>2, ProductIsNatural
  <2> DEFINE last == IF Len(w) = 12 THEN 0 ELSE p(13)
  <2>2. Weighted(v, w) = p(1) + p(2) + p(3) + p(4) + p(5) + p(6) + p(7) + p(8) + p(9) + p(10)
                         + p(11) + p(12) + last
    BY DEF Weighted
  <2> HIDE DEF p
  <2>3. \A i \in 1..12 : p(i) \in Nat
    <3>1. \A i \in 1..12 : i \in 1..n
      BY <1>1
    <3>2. QED
      BY <2>1, <3>1, Zenon
  <2>4. last \in Nat
    BY <1>1, <2>1
  <2>5. /\ p(1) \in Nat /\ p(2) \in Nat /\ p(3) \in Nat /\ p(4) \in Nat /\ p(5) \in Nat
        /\ p(6) \in Nat /\ p(7) \in Nat /\ p(8) \in Nat /\ p(9) \in Nat /\ p(10) \in Nat
        /\ p(11) \in Nat /\ p(12) \in Nat
    BY <2>3
  <2> HIDE DEF last
  <2>6. QED
    BY <2>2, <2>4, <2>5, SumIsNatural
<1>2. QED
  BY <1>1, WeightsAreNatural

\* The second sum is taken over the digits of the value once the first check digit is
\* the value's own.
LEMMA SecondSum ==
    ASSUME NEW v \in Seq(Digit), Len(v) = 14
    PROVE  Weighted(SubSeq(v, 1, 12) \o <<v[13]>>, SecondWeights) = Weighted(v, SecondWeights)
<1> DEFINE u == SubSeq(v, 1, 12) \o <<v[13]>>
<1>1. \A i \in 1..12 : v[i] \in Digit
  BY ElementOfSeq
<1>2. /\ SubSeq(v, 1, 12) \in Seq(Digit)
      /\ Len(SubSeq(v, 1, 12)) = 12
      /\ \A i \in 1..12 : SubSeq(v, 1, 12)[i] = v[1 + i - 1]
  BY <1>1, SubSeqProperties
<1>3. \A i \in 1..13 : u[i] = v[i]
  BY <1>2
<1> HIDE DEF u
<1>4. Weighted(u, SecondWeights) = Weighted(v, SecondWeights)
  BY <1>3 DEF Weighted
<1>5. QED
  BY <1>4 DEF u

\* Apart from letters normalize_cnpj accepts exactly the CNPJs whose sums are no
\* multiples of 11 and, of the values with such sums, nothing that is a CNPJ.
THEOREM ValidatorRightElsewhere ==
    ASSUME NEW v \in Seq(Digit), Len(v) = 14
    PROVE  LET eleven == \E w \in {FirstWeights, SecondWeights} : Weighted(v, w) % 11 = 0
           IN  /\ ~eleven => (NormalizeCnpj(v) <=> IsCnpj(v))
               /\ eleven /\ IsCnpj(v) => ~NormalizeCnpj(v)
<1> DEFINE one == Weighted(v, FirstWeights)
           two == Weighted(v, SecondWeights)
<1>1. DOMAIN v = 1..14
  OBVIOUS
<1>2. \A i \in 1..14 : v[i] \in 0..9 /\ v[i] # Letter
  <2>1. \A i \in 1..14 : v[i] \in Digit
    BY ElementOfSeq
  <2>2. QED
    BY <2>1, NoLetter
<1>3. one \in Nat /\ two \in Nat
  <2>1. \A i \in 1..13 : v[i] \in Nat
    BY <1>2
  <2>2. QED
    BY <2>1, SumsAreNatural
<1>4. /\ CheckDigit(one) = MandatedDigit(one) <=> one % 11 # 0
      /\ CheckDigit(two) = MandatedDigit(two) <=> two % 11 # 0
  BY <1>3, CheckDigitWrongAtEleven
<1>5. v[13] = CheckDigit(one)
        => Weighted(SubSeq(v, 1, 12) \o <<CheckDigit(one)>>, SecondWeights) = two
  BY SecondSum
<1>6. NormalizeCnpj(v) <=> /\ Cardinality({v[i] : i \in DOMAIN v}) > 1
                           /\ v[13] = CheckDigit(one) /\ v[14] = CheckDigit(two)
  BY <1>1, <1>2, <1>5 DEF NormalizeCnpj
<1>7. IsCnpj(v) <=> /\ Cardinality({v[i] : i \in DOMAIN v}) > 1
                    /\ v[13] = MandatedDigit(one) /\ v[14] = MandatedDigit(two)
  BY <1>1, <1>2 DEF IsCnpj
<1> HIDE DEF one, two
<1>8. /\ one % 11 # 0 /\ two % 11 # 0 => (NormalizeCnpj(v) <=> IsCnpj(v))
      /\ (one % 11 = 0 \/ two % 11 = 0) /\ IsCnpj(v) => ~NormalizeCnpj(v)
  BY <1>4, <1>6, <1>7
<1>9. QED
  BY <1>8 DEF one, two

\* What the validator is asked about is 14 digits, or has a letter.
LEMMA AskedDigits ==
    ASSUME NEW v \in CnpjValues, \A i \in DOMAIN v : v[i] # Letter
    PROVE  v \in Seq(Digit) /\ Len(v) = 14
<1>1. PICK a \in 0..10, b \in 0..9, x \in 0..9, y \in 0..9 : v = CnpjValue(a, b, x, y)
  BY DEF CnpjValues
<1>2. a # 10
  <2>1. 1 \in DOMAIN v /\ v[1] = a
    BY <1>1 DEF CnpjValue
  <2>2. QED
    BY <2>1 DEF Letter
<1>3. QED
  BY <1>1, <1>2 DEF CnpjValue, Digit

\* The pure rules decide what they are meant to decide, for every document, every
\* pair of instants of a certificate and every pair of policies (decision_for_document,
\* certificate_status with days_until_expiry, select_policy); normalize_cnpj does except
\* where a sum is a multiple of 11.
THEOREM RulesExactHolds == RulesSpec => []RulesExact
<1>1. ASSUME Asked PROVE RetentionExact
  <2> SUFFICES ASSUME question.kind = "document" PROVE RetentionExact
    BY DEF RetentionExact
  <2>1. PICK doc \in Documents : question = [kind |-> "document", document |-> doc]
    BY <1>1 DEF Asked, NoQuestion
  <2>2. QED
    BY <2>1, DocumentKept
<1>2. ASSUME Asked PROVE StatusAgreesWithDays
  <2> SUFFICES ASSUME question.kind = "certificate" PROVE StatusAgreesWithDays
    BY DEF StatusAgreesWithDays
  <2>1. PICK from, until \in Int :
          from < until /\ question = [kind |-> "certificate", from |-> from, until |-> until]
    BY <1>2 DEF Asked, NoQuestion
  <2>2. question.from = from /\ question.until = until
    BY <2>1
  <2>3. QED
    BY <2>1, <2>2, StatusDays DEF StatusAgreesWithDays
<1>3. ASSUME Asked PROVE PoliciesHandOver
  <2> SUFFICES ASSUME question.kind = "policy", NEW p \in question.policies,
                      NEW q \in question.policies
               PROVE  LET chosen == SelectPolicy(question.policies, question.at)
                      IN  /\ (/\ p.source = q.source /\ p.flow = q.flow
                              /\ p.window[2] = q.window[1]
                              /\ p.window[1] <= question.at
                              /\ q.window[2] = Never \/ question.at < q.window[2])
                                => Cardinality(chosen) = 1
                          /\ (/\ InForce(p, question.at) /\ InForce(q, question.at)
                              /\ Specificity(p) > Specificity(q))
                                => chosen = {p}
    BY DEF PoliciesHandOver
  <2>1. \E r, s \in Policies, at \in Nat :
          question = [kind |-> "policy", policies |-> {r, s}, at |-> at]
    BY <1>3 DEF Asked, NoQuestion
  <2>2. question.at \in Nat /\ p \in Policies /\ q \in Policies
    BY <2>1
  <2>3. CASE p = q
    <3>1. p.window[1] \in Int /\ p.window[2] \in Int /\ (p.window[2] # Never => p.window[1] < p.window[2])
      BY <2>2, RulesAssumption DEF Policies, Windows, Never
    <3>2. p.window[1] # Never /\ Specificity(p) \in Int
      BY <2>2, RulesAssumption, SpecificityIsNat DEF Policies, Windows, Never
    <3>3. p.window[2] # q.window[1] /\ ~(Specificity(p) > Specificity(q))
      BY <2>3, <3>1, <3>2
    <3>4. QED
      BY <3>3
  <2>4. CASE p # q
    <3>1. question.policies = {p, q}
      BY <2>1, <2>4
    <3>2. QED
      BY <2>2, <3>1, HandOver
  <2>5. QED
    BY <2>3, <2>4
<1>4. ASSUME Asked PROVE ValidatorDelimited
  <2> SUFFICES ASSUME question.kind = "cnpj" PROVE ValidatorDelimited
    BY DEF ValidatorDelimited
  <2>1. PICK v \in CnpjValues : question = [kind |-> "cnpj", value |-> v]
    BY <1>4 DEF Asked, NoQuestion
  <2>2. question.value = v
    BY <2>1
  <2>3. CASE \E i \in DOMAIN v : v[i] = Letter
    <3>1. ~IsCnpj(v)
      BY <2>3 DEF IsCnpj, Letter
    <3>2. QED
      BY <2>2, <2>3, <3>1 DEF ValidatorDelimited
  <2>4. CASE \A i \in DOMAIN v : v[i] # Letter
    BY <2>2, <2>4, AskedDigits, ValidatorRightElsewhere DEF ValidatorDelimited
  <2>5. QED
    BY <2>3, <2>4
<1>5. Asked => RulesExact
  BY <1>1, <1>2, <1>3, <1>4 DEF RulesExact
<1>6. QED
  BY <1>5, AskedAlways, PTL

====
