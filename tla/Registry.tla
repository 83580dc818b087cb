------------------------------ MODULE Registry ------------------------------
(***************************************************************************)
(* Companies and their certificates (nfx.companies, nfx.certificates).     *)
(* Every company operation is one transaction under the row lock.  A       *)
(* certificate is added in two transactions with an upload between them,   *)
(* so that uploads race each other, edits of the company and crashes.      *)
(***************************************************************************)
EXTENDS Naturals, FiniteSets

CONSTANTS
    Companies,
    Cnpjs,          \* valid CNPJs
    Uploads,        \* requests that add a certificate
    MaxCertificates,\* bound: certificate rows ever created
    MaxEdits        \* bound: company operations

ASSUME RegistryAssumption == MaxCertificates \in Nat /\ MaxEdits \in Nat

VARIABLES
    company,    \* nfx_company and the state of its flow
    cert,       \* nfx_certificate; pfx is the fingerprint
    initial,    \* InitialCollectionRequest: the certificate of each company's, or 0
    upload,     \* what each add_certificate is doing
    edits

registryVars == <<company, cert, initial, upload, edits>>

Certificates == 1..MaxCertificates
Pfxs == Cnpjs                       \* one for each CNPJ, which may be uploaded again
CnpjOf(pfx) == pfx

Unregistered == [status |-> "none", cnpj |-> "none", flow |-> "enabled"]
NoCert == [state |-> "none", company |-> "none", pfx |-> "none", stored |-> FALSE]
IdleUpload == [pc |-> "idle", company |-> "none", pfx |-> "none", cert |-> 0]

RegistryInit ==
    /\ company = [c \in Companies |-> Unregistered]
    /\ cert = [k \in Certificates |-> NoCert]
    /\ initial = [c \in Companies |-> 0]
    /\ upload = [r \in Uploads |-> IdleUpload]
    /\ edits = 0

----------------------------------------------------------------------------
(* Companies.                                                              *)

Taken(n) == \E c \in Companies : company[c].cnpj = n
Edit == edits < MaxEdits /\ edits' = edits + 1
Current(c) == {k \in Certificates : cert[k].state = "current" /\ cert[k].company = c}

\* create_company, with a flow for each family; the unique constraint decides a race.
CreateCompany(c, n) ==
    /\ company[c].status = "none" /\ ~Taken(n)
    /\ company' = [company EXCEPT ![c] = [@ EXCEPT !.status = "registered", !.cnpj = n]]
    /\ UNCHANGED <<cert, initial, upload, edits>>

\* update_company of the version the client was shown.  The CNPJ is refused once
\* first_collection_at is set, which only mark_first_collection does, and nothing
\* calls it.
UpdateCompany(c, n) ==
    /\ Edit
    /\ company[c].status # "none" /\ ~Taken(n)
    /\ company' = [company EXCEPT ![c].cnpj = n]
    /\ UNCHANGED <<cert, initial, upload>>

\* activate_company and deactivate_company: no state is refused.
SetStatus(c, s) ==
    /\ Edit
    /\ company[c].status # "none"
    /\ company' = [company EXCEPT ![c].status = s]
    /\ UNCHANGED <<cert, initial, upload>>

SetFlow(c, s) ==
    /\ Edit
    /\ company[c].status = "active"
    /\ company' = [company EXCEPT ![c].flow = s]
    /\ UNCHANGED <<cert, initial, upload>>

----------------------------------------------------------------------------
(* add_certificate.                                                        *)

\* Another company uses this certificate.
Assigned(pfx, c) ==
    \E k \in Certificates : cert[k].state = "current" /\ cert[k].pfx = pfx /\ cert[k].company # c

Fail(r) == upload' = [upload EXCEPT ![r] = IdleUpload]

\* parse_pfx and the comparison of the CNPJs, on a company read without a lock.
CheckPfx(r, c, pfx) ==
    /\ upload[r].pc = "idle"
    /\ company[c].status # "none" /\ company[c].cnpj = CnpjOf(pfx)
    /\ upload' = [upload EXCEPT ![r] = [IdleUpload EXCEPT !.pc = "create", !.company = c, !.pfx = pfx]]
    /\ UNCHANGED <<company, cert, initial, edits>>

PendingCert(r) == [state |-> "pending", company |-> upload[r].company, pfx |-> upload[r].pfx,
                   stored |-> FALSE]

\* Mutant: the certificate in use is put aside before the new one is stored.
CreatePending_Replace(r) ==
    LET k == Cardinality({j \in Certificates : cert[j].state # "none"}) + 1
    IN  /\ upload[r].pc = "create"
        /\ k \in Certificates
        /\ cert' = [j \in Certificates |->
                       IF j = k THEN PendingCert(r)
                       ELSE IF j \in Current(upload[r].company) THEN [cert[j] EXCEPT !.state = "replaced"]
                       ELSE cert[j]]
        /\ upload' = [upload EXCEPT ![r] = [@ EXCEPT !.pc = "upload", !.cert = k]]
        /\ UNCHANGED <<company, initial, edits>>

\* The first transaction: the company is locked, the row created with its artifact
\* begun.
CreatePending(r) ==
    LET k == Cardinality({j \in Certificates : cert[j].state # "none"}) + 1
    IN  /\ upload[r].pc = "create"
        /\ k \in Certificates
        /\ IF Assigned(upload[r].pfx, upload[r].company) THEN Fail(r) /\ UNCHANGED cert
           ELSE /\ cert' = [cert EXCEPT ![k] = PendingCert(r)]
                /\ upload' = [upload EXCEPT ![r] = [@ EXCEPT !.pc = "upload", !.cert = k]]
        /\ UNCHANGED <<company, initial, edits>>

\* Mutant: a failed upload is not noticed.
Transmit_Ignored(r, ok) ==
    /\ upload[r].pc = "upload"
    /\ cert' = [cert EXCEPT ![upload[r].cert].stored = ok]
    /\ upload' = [upload EXCEPT ![r].pc = "activate"]
    /\ UNCHANGED <<company, initial, edits>>

\* transmit of the encrypted PFX outside any transaction; a failure marks the row.
Transmit(r, ok) ==
    LET k == upload[r].cert
    IN  /\ upload[r].pc = "upload"
        /\ IF ok THEN /\ cert' = [cert EXCEPT ![k].stored = TRUE]
                      /\ upload' = [upload EXCEPT ![r].pc = "activate"]
           ELSE cert' = [cert EXCEPT ![k].state = "storage_failed"] /\ Fail(r)
        /\ UNCHANGED <<company, initial, edits>>

\* _queue_initial_collection: once for each company.
InitialRequest(c, k) ==
    IF company[c].status = "active" /\ initial[c] = 0 THEN k ELSE initial[c]

\* The new certificate is current, the one it replaces is not.
Activated(k, c) ==
    [j \in Certificates |->
        IF j = k THEN [cert[j] EXCEPT !.state = "current"]
        ELSE IF j \in Current(c) THEN [cert[j] EXCEPT !.state = "replaced"] ELSE cert[j]]

\* The second transaction, under the locks of the certificate and of the company.
Activate(r) ==
    LET k == upload[r].cert
        c == upload[r].company
    IN  /\ upload[r].pc = "activate"
        /\ IF Assigned(upload[r].pfx, c)
           THEN cert' = [cert EXCEPT ![k].state = "storage_failed"] /\ UNCHANGED initial
           ELSE /\ cert' = Activated(k, c)
                /\ initial' = [initial EXCEPT ![c] = InitialRequest(c, k)]
        /\ Fail(r)
        /\ UNCHANGED <<company, edits>>

\* The process dies: a pending row stays behind.
UploadDies(r) ==
    /\ upload[r].pc # "idle"
    /\ Fail(r)
    /\ UNCHANGED <<company, cert, initial, edits>>

----------------------------------------------------------------------------

RegistryNext ==
    \/ \E c \in Companies :
          \/ \E n \in Cnpjs : CreateCompany(c, n) \/ UpdateCompany(c, n)
          \/ \E s \in {"active", "deactivated"} : SetStatus(c, s)
          \/ \E s \in {"enabled", "paused"} : SetFlow(c, s)
    \/ \E r \in Uploads :
          \/ \E c \in Companies, pfx \in Pfxs : CheckPfx(r, c, pfx)
          \/ CreatePending(r) \/ Activate(r) \/ UploadDies(r)
          \/ \E ok \in BOOLEAN : Transmit(r, ok)

RegistrySpec == RegistryInit /\ [][RegistryNext]_registryVars

----------------------------------------------------------------------------
(* Properties.                                                             *)

\* Every variable keeps its type.
RegistryTypeOK ==
    /\ company \in [Companies -> [status : {"none", "registered", "active", "deactivated"},
                                  cnpj : Cnpjs \cup {"none"},
                                  flow : {"enabled", "paused"}]]
    /\ \A k \in Certificates :
          cert[k].state \in {"none", "pending", "current", "replaced", "storage_failed"}
    /\ initial \in [Companies -> 0..MaxCertificates]
    /\ \A r \in Uploads : upload[r].pc \in {"idle", "create", "upload", "activate"}

\* The variables keep their types, and a certificate in use can be decrypted from
\* storage and is used by one company, which uses no other: whatever uploads race,
\* fail or die half way (add_certificate).
RegistryInv ==
    /\ RegistryTypeOK
    /\ \A k \in Certificates : cert[k].state = "current" =>
        /\ cert[k].stored
        /\ Current(cert[k].company) = {k}
        /\ ~Assigned(cert[k].pfx, cert[k].company)

\* A company that has a certificate is never without one, and a replaced one never
\* returns: the old one serves until the transaction that activates the new one.
\* The initial collection of a company is asked for once, with a certificate that was
\* stored and in use.
NeverWithoutCertificate ==
    [][/\ \A c \in Companies : Current(c) # {} => Current(c)' # {}
       /\ \A k \in Certificates : cert[k].state = "replaced" => cert'[k].state = "replaced"
       /\ \A c \in Companies :
          /\ initial[c] # 0 => initial'[c] = initial[c]
          /\ initial'[c] # initial[c] => LET k == initial'[c]
                                         IN  cert'[k].state = "current" /\ cert'[k].stored
                                             /\ cert'[k].company = c]_registryVars

============================================================================
