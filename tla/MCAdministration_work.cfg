SPECIFICATION Spec
CONSTANTS
    Parts = {"changes", "sessions", "reopening", "companies", "rules"}
    Users = {1, 2}
    Roles = {"administrator", "viewer"}
    Requests = {r1, r2}
    NoRequest = nobody
    Tokens = {1, 2}
    MaxEvents = 5
    Companies = {a, b}
    Cnpjs = {n1, n2}
    Uploads = {u1, u2}
    MaxCertificates = 3
    MaxEdits = 2
    Moments <- MCMoments
    Evidence <- MCEvidence
    Horizon = 64
    Instants = 3
INVARIANTS
    AccessInv
    TrailExplainsUsers
    StaleSessionsDead
    RegistryInv
    RulesExact
PROPERTIES
    NeverWithoutCertificate
CHECK_DEADLOCK FALSE
SYMMETRY Symmetry
