--------------------------- MODULE Backup_proofs ---------------------------
(***************************************************************************)
(* Theorems about ArtifactStorage and Backup: for every set of keys,       *)
(* contents and callers, every number of artifacts, backup sets and        *)
(* faults.                                                                 *)
(***************************************************************************)
EXTENDS Backup, FiniteSetTheorems, TLAPS

----------------------------------------------------------------------------
(* The inductive invariant of artifact storage.                            *)

Writing == {"check", "write", "verify", "finalize"}

\* A row that exists has a key, and a finalized one a content of that key.
RowsKeyed ==
    \A a \in Arts :
        /\ row[a].state \notin {"none", "deleted"} => row[a].key \in Keys
        /\ row[a].state = "finalized" => row[a].digest \in ContentOf[row[a].key]

\* The partial unique constraint.
OneOwner == \A a, b \in Finalized : row[a].key = row[b].key => a = b

\* A finalized row describes its object, and only damaged objects are blamed.
ObjectsTrue ==
    /\ \A a \in Finalized \ damaged : object[a] = row[a].digest
    /\ \A a \in Arts : row[a].state \in {"missing", "divergent"} => a \in damaged

\* The metadata of an object describe its bytes, and an object that was altered behind
\* them counts as damaged.
HeadsTrue ==
    \A a \in Arts :
        /\ object[a] \in Contents => sha256[a] = object[a]
        /\ object[a] = Altered => a \in damaged

\* A caller writes a row of its own key; unless the key names its content, the
\* row is not finalized while it writes; past the verification, the object holds
\* its content unless it was damaged.
UploadOK(u) ==
    /\ up[u].pc # "idle" => up[u].key \in Keys /\ up[u].content \in ContentOf[up[u].key]
    /\ up[u].pc \in Writing =>
        /\ up[u].art \in Arts
        /\ row[up[u].art].state # "none"
        /\ row[up[u].art].state # "deleted" => row[up[u].art].key = up[u].key
        /\ up[u].key \in Reused \/ row[up[u].art].state \in {"pending", "deleted"}
    /\ up[u].pc = "finalize" =>
        \/ up[u].art \in damaged
        \/ row[up[u].art].state = "deleted"
        \/ object[up[u].art] = up[u].content

UploadsOK == \A u \in Uploads : UploadOK(u)

\* Two callers write one row only under a key that names its content.
SharedRows ==
    \A u, v \in Uploads :
        u # v /\ up[u].pc \in Writing /\ up[v].pc \in Writing /\ up[u].art = up[v].art
            => row[up[u].art].state = "deleted" \/ up[u].key \in Reused

StorageIInv ==
    /\ StorageTypeOK
    /\ RowsKeyed
    /\ OneOwner
    /\ ObjectsTrue
    /\ HeadsTrue
    /\ UploadsOK
    /\ SharedRows

RowType == [state : RowStates, key : Keys \cup {Nothing}, digest : Contents \cup {Nothing}]
UpType == [pc : {"idle", "begin", "check", "write", "verify", "finalize", "done"},
           key : Keys \cup {Nothing}, content : Contents \cup {Nothing},
           art : 0..MaxArtifacts]

----------------------------------------------------------------------------
(* Facts about the operators.                                              *)

\* The earliest row of a non-empty set is one of them.
LEMMA FirstIsMember ==
    ASSUME NEW S \in SUBSET Arts, S # {}
    PROVE  First(S) \in S
<1> DEFINE R == {ss \in Nat \X Nat : ss[1] < ss[2]}
<1>1. S \subseteq Nat
  BY DEF Arts
<1>2. IsWellFoundedOn(R, Nat)
  BY NatLessThanWellFounded DEF OpToRel
<1>3. PICK x \in S : \A y \in S : ~(<<y, x>> \in R)
  <2> HIDE DEF R
  <2> QED
    BY <1>1, <1>2, WFMin
<1>4. \A y \in S : x <= y
  <2> SUFFICES ASSUME NEW y \in S, ~(x <= y) PROVE FALSE
    OBVIOUS
  <2>1. <<y, x>> \in Nat \X Nat /\ y < x
    BY <1>1
  <2>2. <<y, x>> \in R
    BY <2>1
  <2>3. QED
    BY <2>2, <1>3
<1>5. QED
  BY <1>4 DEF First

\* Contents of a key are contents, and neither nothing nor altered bytes.
LEMMA ContentsOfKeys ==
    ASSUME NEW k \in Keys, NEW c \in ContentOf[k]
    PROVE  c \in Contents /\ c \notin {Nothing, Altered, Truncated}
BY StorageAssumption DEF Contents

\* What the invariant says of one caller and one row.
LEMMA Typed ==
    ASSUME StorageIInv
    PROVE  /\ \A a \in Arts : row[a] \in RowType
           /\ \A u \in Uploads : up[u] \in UpType /\ UploadOK(u)
           /\ row \in [Arts -> RowType] /\ up \in [Uploads -> UpType]
           /\ DOMAIN row = Arts /\ DOMAIN up = Uploads
BY DEF StorageIInv, StorageTypeOK, RowType, UpType, UploadsOK

\* A step in which one caller moves on and nothing else changes.
LEMMA CallerStep ==
    ASSUME StorageIInv, NEW u \in Uploads, UNCHANGED <<row, object, sha256, damaged>>,
           NEW r \in UpType, up' = [up EXCEPT ![u] = r], UploadOK(u)',
           r.pc \in Writing =>
               r.key \in Reused \/ (up[u].pc \in Writing /\ r.art = up[u].art /\ r.key = up[u].key)
    PROVE  StorageIInv'
<1>1. up'[u] = r /\ \A v \in Uploads \ {u} : up'[v] = up[v]
  BY Typed
<1>2. StorageTypeOK'
  BY DEF StorageIInv, StorageTypeOK, UpType
<1>3. RowsKeyed' /\ OneOwner' /\ ObjectsTrue' /\ HeadsTrue'
  BY DEF StorageIInv, RowsKeyed, OneOwner, ObjectsTrue, HeadsTrue, Finalized
<1>4. UploadsOK'
  BY <1>1, Typed DEF UploadsOK, UploadOK
<1>5. SharedRows'
  <2> SUFFICES ASSUME NEW x \in Uploads, NEW y \in Uploads, x # y,
                      up'[x].pc \in Writing, up'[y].pc \in Writing, up'[x].art = up'[y].art,
                      row[up'[x].art].state # "deleted"
               PROVE  up'[x].key \in Reused
    BY DEF SharedRows
  <2>1. row[up'[x].art].key = up'[x].key /\ row[up'[x].art].key = up'[y].key
    BY <1>4 DEF UploadsOK, UploadOK
  <2>2. CASE x # u /\ y # u
    BY <1>1, <2>2 DEF StorageIInv, SharedRows
  <2>3. CASE x = u \/ y = u
    <3>1. CASE r.key \in Reused
      BY <1>1, <2>1, <2>3, <3>1
    <3>2. CASE up[u].pc \in Writing /\ r.art = up[u].art /\ r.key = up[u].key
      BY <1>1, <2>1, <2>3, <3>2 DEF StorageIInv, SharedRows
    <3>3. QED
      BY <1>1, <2>3, <3>1, <3>2
  <2>4. QED
    BY <2>2, <2>3
<1>6. QED
  BY <1>2, <1>3, <1>4, <1>5 DEF StorageIInv

\* A caller that keeps nothing.
LEMMA IdleTyped == IdleUp \in UpType /\ IdleUp.pc = "idle" /\ IdleUp.pc \notin Writing
BY StorageAssumption DEF IdleUp, UpType, Writing

\* A caller that ends, or has its artifact, asks nothing of the tables.
LEMMA CallerEnds ==
    ASSUME StorageIInv, NEW u \in Uploads, UNCHANGED <<row, object, sha256, damaged>>,
           \/ up' = [up EXCEPT ![u] = IdleUp]
           \/ \E a \in 0..MaxArtifacts : up[u].pc # "idle"
                 /\ up' = [up EXCEPT ![u] = [up[u] EXCEPT !.pc = "done", !.art = a]]
    PROVE  StorageIInv'
<1>1. CASE up' = [up EXCEPT ![u] = IdleUp]
  <2>2. up'[u].pc = "idle"
    BY <1>1, Typed DEF IdleUp
  <2>3. UploadOK(u)'
    BY <2>2 DEF UploadOK, Writing
  <2>4. QED
    BY <1>1, <2>3, IdleTyped, CallerStep
<1>2. ASSUME NEW a \in 0..MaxArtifacts, up[u].pc # "idle",
             up' = [up EXCEPT ![u] = [up[u] EXCEPT !.pc = "done", !.art = a]]
      PROVE  StorageIInv'
  <2>1. PICK r \in UpType : r = [up[u] EXCEPT !.pc = "done", !.art = a]
    BY <1>2, Typed DEF UpType
  <2>2. up' = [up EXCEPT ![u] = r] /\ up'[u] = r
    BY <1>2, <2>1, Typed
  <2>3. r.pc = "done" /\ r.key = up[u].key /\ r.content = up[u].content
    BY <2>1, Typed DEF UpType
  <2>4. UploadOK(u)
    BY Typed
  <2>5. UploadOK(u)'
    BY <1>2, <2>2, <2>3, <2>4 DEF UploadOK, Writing
  <2>6. r.pc \notin Writing
    BY <2>3 DEF Writing
  <2>7. QED
    BY <2>2, <2>5, <2>6, CallerStep
<1>3. QED
  BY <1>1, <1>2

\* A caller that moves on along transmit keeps its key, content and row.
LEMMA CallerGoes ==
    ASSUME StorageIInv, NEW u \in Uploads, UNCHANGED <<row, object, sha256, damaged>>,
           up[u].pc \in Writing, NEW n \in {"write", "finalize"}, Goto(u, n),
           n = "finalize" => up[u].art \in damaged \/ object[up[u].art] = up[u].content
    PROVE  StorageIInv'
<1>1. PICK r \in UpType : r = [up[u] EXCEPT !.pc = n]
  BY Typed DEF UpType
<1>2. up' = [up EXCEPT ![u] = r] /\ up'[u] = r
  BY <1>1, Typed DEF Goto
<1>3. r.pc = n /\ r.key = up[u].key /\ r.content = up[u].content /\ r.art = up[u].art
  BY <1>1, Typed DEF UpType
<1>4. UploadOK(u)
  BY Typed
<1>5. UploadOK(u)'
  BY <1>2, <1>3, <1>4 DEF UploadOK, Writing
<1>6. QED
  BY <1>2, <1>3, <1>5, CallerStep

----------------------------------------------------------------------------
(* Each step of artifact storage keeps its invariant.                      *)

\* A caller looks for a row of its key before it begins one.
LEMMA LookupKeeps ==
    ASSUME StorageIInv, NEW u \in Uploads, NEW k \in Keys, NEW c \in ContentOf[k], Lookup(u, k, c)
    PROVE  StorageIInv'
<1>1. UNCHANGED <<row, object, sha256, damaged>> /\ up[u].pc = "idle"
  BY DEF Lookup
<1>2. c \in Contents
  BY ContentsOfKeys
<1>3. CASE k \in Reused /\ Existing(k) # {}
  <2>1. PICK a \in Arts : a = First(Existing(k)) /\ row[a].key = k /\ row[a].state \notin {"none", "deleted"}
    BY <1>3, FirstIsMember DEF Existing
  <2>2. PICK n \in {"done", "check"} :
            up' = [up EXCEPT ![u] = [pc |-> n, key |-> k, content |-> c, art |-> a]]
    BY <1>3, <2>1 DEF Lookup
  <2>3. a \in 0..MaxArtifacts
    BY DEF Arts
  <2>4. PICK r \in UpType : r = [pc |-> n, key |-> k, content |-> c, art |-> a]
    BY <1>2, <2>3 DEF UpType
  <2>5. r.pc = n /\ r.key = k /\ r.content = c /\ r.art = a
    BY <2>4
  <2>6. up' = [up EXCEPT ![u] = r] /\ up'[u] = r
    BY <2>2, <2>4, Typed
  <2>7. UploadOK(u)'
    BY <1>1, <1>3, <2>1, <2>5, <2>6 DEF UploadOK
  <2>8. QED
    BY <1>1, <1>3, <2>5, <2>6, <2>7, CallerStep
<1>4. CASE ~(k \in Reused /\ Existing(k) # {})
  <2>1. up' = [up EXCEPT ![u] = [pc |-> "begin", key |-> k, content |-> c, art |-> 0]]
    BY <1>4 DEF Lookup
  <2>2. 0 \in 0..MaxArtifacts
    BY StorageAssumption
  <2>3. PICK r \in UpType : r = [pc |-> "begin", key |-> k, content |-> c, art |-> 0]
    BY <1>2, <2>2 DEF UpType
  <2>4. up' = [up EXCEPT ![u] = r] /\ up'[u] = r
    BY <2>1, <2>3, Typed
  <2>5. r.pc = "begin" /\ r.key = k /\ r.content = c
    BY <2>3
  <2>6. UploadOK(u)'
    BY <2>4, <2>5 DEF UploadOK, Writing
  <2>7. QED
    BY <1>1, <2>4, <2>5, <2>6, CallerStep DEF Writing
<1>5. QED
  BY <1>3, <1>4

\* begin inserts a row nobody else writes.
LEMMA BeginKeeps ==
    ASSUME StorageIInv, NEW u \in Uploads, BeginArtifact(u)
    PROVE  StorageIInv'
<1>1. up[u].pc = "begin" /\ UNCHANGED <<object, sha256, damaged>>
  BY DEF BeginArtifact
<1>2. PICK a \in Arts : a = First(Unused) /\ row[a].state = "none"
  BY FirstIsMember DEF BeginArtifact, Unused
<1>3. PICK k \in Keys : k = up[u].key /\ up[u].content \in ContentOf[k]
  BY <1>1, Typed DEF UploadOK
<1>4. /\ row' = [row EXCEPT ![a] = [state |-> "pending", key |-> k, digest |-> Nothing]]
      /\ up' = [up EXCEPT ![u].pc = "check", ![u].art = a]
  BY <1>2, <1>3 DEF BeginArtifact
<1>5. /\ row'[a] = [state |-> "pending", key |-> k, digest |-> Nothing]
      /\ \A b \in Arts \ {a} : row'[b] = row[b]
  BY <1>4, Typed
<1>6. row'[a] \in RowType /\ row'[a].state = "pending" /\ row'[a].key = k
  BY <1>5 DEF RowType, RowStates
<1>7. /\ up'[u] = [up[u] EXCEPT !.pc = "check", !.art = a]
      /\ \A v \in Uploads \ {u} : up'[v] = up[v]
  BY <1>4, Typed
<1>8. /\ up'[u] \in UpType
      /\ up'[u].pc = "check" /\ up'[u].art = a
      /\ up'[u].key = k /\ up'[u].content = up[u].content
  <2>1. a \in 0..MaxArtifacts
    BY DEF Arts
  <2>2. QED
    BY <1>3, <1>7, <2>1, Typed DEF UpType
<1>9. StorageTypeOK'
  <2>1. row' \in [Arts -> RowType]
    BY <1>4, <1>6, Typed
  <2>2. up' \in [Uploads -> UpType]
    BY <1>4, <1>8, Typed
  <2>3. QED
    BY <1>1, <2>1, <2>2 DEF StorageIInv, StorageTypeOK, RowType, UpType
<1>10. RowsKeyed'
  BY <1>5, <1>6 DEF StorageIInv, RowsKeyed
<1>11. Finalized' = Finalized
  BY <1>2, <1>5, <1>6 DEF Finalized
<1>12. OneOwner'
  BY <1>5, <1>6, <1>11 DEF StorageIInv, OneOwner, Finalized
<1>13. ObjectsTrue' /\ HeadsTrue'
  BY <1>1, <1>5, <1>6, <1>11 DEF StorageIInv, ObjectsTrue, HeadsTrue, Finalized
<1>14. \A v \in Uploads \ {u} : up[v].pc \in Writing => up[v].art \in Arts \ {a}
  BY <1>2, Typed DEF UploadOK
<1>15. UploadsOK'
  <2> SUFFICES ASSUME NEW v \in Uploads PROVE UploadOK(v)'
    BY DEF UploadsOK
  <2>1. CASE v = u
    BY <1>3, <1>6, <1>8, <2>1 DEF UploadOK, Writing
  <2>2. CASE v # u
    <3>1. up'[v] = up[v] /\ (up[v].pc \in Writing => row'[up[v].art] = row[up[v].art])
      BY <1>5, <1>7, <1>14, <2>2
    <3>2. UploadOK(v)
      BY Typed
    <3>3. QED
      BY <1>1, <3>1, <3>2 DEF UploadOK, Writing
  <2>3. QED
    BY <2>1, <2>2
<1>16. SharedRows'
  <2> SUFFICES ASSUME NEW x \in Uploads, NEW y \in Uploads, x # y,
                      up'[x].pc \in Writing, up'[y].pc \in Writing, up'[x].art = up'[y].art
               PROVE  row'[up'[x].art].state = "deleted" \/ up'[x].key \in Reused
    BY DEF SharedRows
  <2>1. x # u /\ y # u
    BY <1>7, <1>8, <1>14
  <2>2. up'[x] = up[x] /\ up'[y] = up[y] /\ row'[up[x].art] = row[up[x].art]
    BY <1>5, <1>7, <1>14, <2>1
  <2>3. QED
    BY <2>2 DEF StorageIInv, SharedRows
<1>17. QED
  BY <1>9, <1>10, <1>12, <1>13, <1>15, <1>16 DEF StorageIInv

\* Two callers of one living row write the same content.
LEMMA SameContent ==
    ASSUME StorageIInv, NEW u \in Uploads, up[u].pc \in Writing, row[up[u].art].state # "deleted"
    PROVE  /\ row[up[u].art].state = "finalized" => row[up[u].art].digest = up[u].content
           /\ \A v \in Uploads : up[v].pc \in Writing /\ up[v].art = up[u].art
                                    => up[v].content = up[u].content
<1>1. UploadOK(u) /\ \A v \in Uploads : UploadOK(v)
  BY Typed
<1>2. row[up[u].art].key = up[u].key /\ up[u].art \in Arts
      /\ up[u].key \in Keys /\ up[u].content \in ContentOf[up[u].key]
  BY <1>1 DEF UploadOK, Writing
<1>3. ASSUME up[u].key \in Reused, NEW c \in ContentOf[up[u].key]
      PROVE  c = up[u].content
  BY <1>2, <1>3, StorageAssumption
<1>4. row[up[u].art].state = "finalized" => row[up[u].art].digest = up[u].content
  <2> SUFFICES ASSUME row[up[u].art].state = "finalized" PROVE row[up[u].art].digest = up[u].content
    OBVIOUS
  <2>1. up[u].key \in Reused
    BY <1>1 DEF UploadOK
  <2>2. row[up[u].art].digest \in ContentOf[up[u].key]
    BY <1>2 DEF StorageIInv, RowsKeyed
  <2>3. QED
    BY <1>3, <2>1, <2>2
<1>5. ASSUME NEW v \in Uploads, up[v].pc \in Writing, up[v].art = up[u].art
      PROVE  up[v].content = up[u].content
  <2>1. CASE v = u
    BY <2>1
  <2>2. CASE v # u
    <3>1. up[u].key \in Reused
      BY <1>5, <2>2 DEF StorageIInv, SharedRows
    <3>2. up[v].content \in ContentOf[up[u].key]
      BY <1>1, <1>2, <1>5 DEF UploadOK, Writing
    <3>3. QED
      BY <1>3, <3>1, <3>2
  <2>3. QED
    BY <2>1, <2>2
<1>6. QED
  BY <1>4, <1>5

\* transmit writes the content under the row's object key.
LEMMA WriteKeeps ==
    ASSUME StorageIInv, NEW u \in Uploads, WriteObject(u)
    PROVE  StorageIInv'
<1>1. /\ up[u].pc = "write" /\ up[u].pc \in Writing
      /\ UNCHANGED row
      /\ Goto(u, "verify")
  BY DEF WriteObject, Writing
<1>2. PICK a \in Arts : a = up[u].art
  BY <1>1, Typed DEF UploadOK
<1>3. PICK c \in Contents : c = up[u].content /\ c # Altered
  BY <1>1, Typed, ContentsOfKeys DEF UploadOK
<1>4. /\ object' = [object EXCEPT ![a] = c]
      /\ object'[a] = c
      /\ \A b \in Arts \ {a} : object'[b] = object[b]
  BY <1>2, <1>3 DEF WriteObject, StorageIInv, StorageTypeOK
<1>5. PICK r \in UpType : r = [up[u] EXCEPT !.pc = "verify"]
  BY Typed DEF UpType
<1>6. up' = [up EXCEPT ![u] = r] /\ up'[u] = r /\ \A v \in Uploads \ {u} : up'[v] = up[v]
  BY <1>1, <1>5, Typed DEF Goto
<1>7. r.pc = "verify" /\ r.key = up[u].key /\ r.content = up[u].content /\ r.art = up[u].art
  BY <1>5, Typed DEF UpType
<1>8. /\ sha256' = [sha256 EXCEPT ![a] = c]
      /\ sha256'[a] = c
      /\ \A b \in Arts \ {a} : sha256'[b] = sha256[b]
  BY <1>2, <1>3 DEF WriteObject, StorageIInv, StorageTypeOK
<1>9. /\ damaged' \subseteq damaged
      /\ \A b \in damaged : b # a \/ row[a].state # "pending" => b \in damaged'
  BY <1>2 DEF WriteObject
<1>10. StorageTypeOK'
  <2>1. up' \in [Uploads -> UpType]
    BY <1>6, Typed
  <2>2. object' \in [Arts -> Contents \cup {Nothing, Altered, Truncated}]
    BY <1>4 DEF StorageIInv, StorageTypeOK
  <2>3. sha256' \in [Arts -> Contents \cup {Nothing}]
    BY <1>8 DEF StorageIInv, StorageTypeOK
  <2>4. QED
    BY <1>1, <1>9, <2>1, <2>2, <2>3 DEF StorageIInv, StorageTypeOK, UpType
<1>11. RowsKeyed' /\ OneOwner'
  BY <1>1 DEF StorageIInv, RowsKeyed, OneOwner, Finalized
<1>12. ObjectsTrue'
  <2>1. row[a].state = "finalized" => row[a].digest = c
    BY <1>1, <1>2, <1>3, SameContent
  <2>2. QED
    BY <1>1, <1>4, <1>9, <2>1 DEF StorageIInv, ObjectsTrue, Finalized
<1>13. HeadsTrue'
  BY <1>3, <1>4, <1>8, <1>9 DEF StorageIInv, HeadsTrue
<1>14. UploadsOK'
  <2> SUFFICES ASSUME NEW v \in Uploads PROVE UploadOK(v)'
    BY DEF UploadsOK
  <2>1. UploadOK(v) /\ UploadOK(u)
    BY Typed
  <2>2. CASE v = u
    BY <1>1, <1>6, <1>7, <2>1, <2>2 DEF UploadOK, Writing
  <2>3. CASE v # u
    <3>1. up[v].pc = "finalize" /\ up[v].art = a /\ row[a].state # "deleted" => up[v].content = c
      BY <1>1, <1>2, <1>3, SameContent DEF Writing
    <3>2. up[v].pc = "finalize" => up[v].art \in Arts
      BY <2>1 DEF UploadOK, Writing
    <3>3. up'[v] = up[v]
      BY <1>6, <2>3
    <3>4. QED
      BY <1>1, <1>4, <1>9, <2>1, <3>1, <3>2, <3>3 DEF UploadOK
  <2>4. QED
    BY <2>2, <2>3
<1>15. SharedRows'
  BY <1>1, <1>6, <1>7 DEF StorageIInv, SharedRows
<1>16. QED
  BY <1>10, <1>11, <1>12, <1>13, <1>14, <1>15 DEF StorageIInv

\* _finalize makes a pending row the owner of a key nobody owns.
LEMMA OwnKeeps ==
    ASSUME StorageIInv, NEW u \in Uploads, up[u].pc = "finalize",
           NEW a \in Arts, a = up[u].art, NEW c \in Contents, c = up[u].content,
           row[a].state = "pending", Owners(row[a].key) = {},
           NEW s \in RowType, row' = [row EXCEPT ![a] = s],
           s.state = "finalized", s.digest = c, s.key = row[a].key,
           Goto(u, "done"), UNCHANGED <<object, sha256, damaged>>
    PROVE  StorageIInv'
<1>1. UploadOK(u) /\ up[u].pc \in Writing
  BY Typed DEF Writing
<1>2. PICK k \in Keys : k = up[u].key /\ row[a].key = k /\ c \in ContentOf[k]
  BY <1>1 DEF UploadOK, Writing
<1>3. row'[a] = s /\ \A b \in Arts \ {a} : row'[b] = row[b]
  BY Typed
<1>4. row'[a] \in RowType /\ row'[a].state = "finalized" /\ row'[a].key = k /\ row'[a].digest = c
  BY <1>2, <1>3
<1>5. PICK r \in UpType : r = [up[u] EXCEPT !.pc = "done"]
  BY Typed DEF UpType
<1>6. up' = [up EXCEPT ![u] = r] /\ up'[u] = r /\ \A v \in Uploads \ {u} : up'[v] = up[v]
  BY <1>5, Typed DEF Goto
<1>7. r.pc = "done" /\ r.key = up[u].key /\ r.content = up[u].content /\ r.art = up[u].art
  BY <1>5, Typed DEF UpType
<1>8. StorageTypeOK'
  <2>1. up' \in [Uploads -> UpType]
    BY <1>6, Typed
  <2>2. row' \in [Arts -> RowType]
    <3>1. \A b \in Arts : row'[b] \in RowType
      BY <1>3, <1>4, Typed
    <3>2. row' = [b \in Arts |-> row'[b]]
      BY Typed
    <3>3. QED
      BY <3>1, <3>2
  <2>3. QED
    BY <2>1, <2>2 DEF StorageIInv, StorageTypeOK, RowType, UpType
<1>9. RowsKeyed'
  BY <1>2, <1>3, <1>4 DEF StorageIInv, RowsKeyed
<1>10. Finalized' = Finalized \cup {a}
  BY <1>3, <1>4 DEF Finalized
<1>11. OneOwner'
  <2>1. \A b \in Finalized : row[b].key # k
    BY <1>2 DEF Owners
  <2>2. \A b \in Finalized : b # a /\ row'[b] = row[b]
    BY <1>3 DEF Finalized
  <2>3. QED
    <3> SUFFICES ASSUME NEW x \in Finalized \cup {a}, NEW y \in Finalized \cup {a}, row'[x].key = row'[y].key
                 PROVE  x = y
      BY <1>10 DEF OneOwner
    <3>1. CASE x = a \/ y = a
      BY <1>4, <2>1, <2>2, <3>1
    <3>2. CASE x # a /\ y # a
      BY <2>2, <3>2 DEF StorageIInv, OneOwner
    <3>3. QED
      BY <3>1, <3>2
<1>12. ObjectsTrue' /\ HeadsTrue'
  <2>1. a \in damaged \/ object[a] = c
    BY <1>1 DEF UploadOK
  <2>2. QED
    BY <1>3, <1>4, <2>1 DEF StorageIInv, ObjectsTrue, HeadsTrue, Finalized
<1>13. \A v \in Uploads \ {u} : up[v].pc \in Writing /\ up[v].art = a => up[v].key \in Reused
  BY <1>1 DEF StorageIInv, SharedRows
<1>14. UploadsOK'
  <2> SUFFICES ASSUME NEW v \in Uploads PROVE UploadOK(v)'
    BY DEF UploadsOK
  <2>1. CASE v = u
    BY <1>1, <1>6, <1>7, <2>1 DEF UploadOK, Writing
  <2>2. CASE v # u
    <3>1. up'[v] = up[v] /\ UploadOK(v)
      BY <1>6, <2>2, Typed
    <3>2. CASE up[v].art = a /\ up[v].pc \in Writing
      <4>1. up[v].key \in Reused /\ up[v].key = k
        BY <1>2, <1>13, <2>2, <3>1, <3>2 DEF UploadOK
      <4>2. QED
        BY <1>4, <3>1, <3>2, <4>1 DEF UploadOK, Writing
    <3>3. CASE ~(up[v].art = a /\ up[v].pc \in Writing)
      <4>1. up[v].pc \in Writing => row'[up[v].art] = row[up[v].art]
        BY <1>3, <3>1, <3>3 DEF UploadOK
      <4>2. QED
        BY <3>1, <4>1 DEF UploadOK, Writing
    <3>4. QED
      BY <3>2, <3>3
  <2>3. QED
    BY <2>1, <2>2
<1>15. SharedRows'
  <2> SUFFICES ASSUME NEW x \in Uploads, NEW y \in Uploads, x # y,
                      up'[x].pc \in Writing, up'[y].pc \in Writing, up'[x].art = up'[y].art
               PROVE  row'[up'[x].art].state = "deleted" \/ up'[x].key \in Reused
    BY DEF SharedRows
  <2>1. x # u /\ y # u
    BY <1>6, <1>7 DEF Writing
  <2>2. up'[x] = up[x] /\ up'[y] = up[y] /\ up[x].art \in Arts
    BY <1>6, <2>1, Typed DEF UploadOK
  <2>3. row[up[x].art].state = "deleted" \/ up[x].key \in Reused
    BY <2>2 DEF StorageIInv, SharedRows
  <2>4. QED
    BY <1>3, <2>2, <2>3
<1>16. QED
  BY <1>8, <1>9, <1>11, <1>12, <1>14, <1>15 DEF StorageIInv

\* _finalize in all its branches.
LEMMA FinalizeKeeps ==
    ASSUME StorageIInv, NEW u \in Uploads, FinalizeArtifact(u)
    PROVE  StorageIInv'
<1>1. up[u].pc = "finalize" /\ UNCHANGED <<object, sha256, damaged>>
  BY DEF FinalizeArtifact
<1>2. up[u].art \in 0..MaxArtifacts /\ up[u] \in UpType
  BY Typed DEF UpType
<1>3. ASSUME Goto(u, "idle") \/ Goto(u, "done"), UNCHANGED row
      PROVE  StorageIInv'
  <2>1. CASE Goto(u, "idle")
    BY <1>1, <1>3, <2>1, CallerEnds DEF Goto
  <2>2. CASE Goto(u, "done")
    <3>1. [up[u] EXCEPT !.pc = "done"] = [up[u] EXCEPT !.pc = "done", !.art = up[u].art]
      BY <1>2 DEF UpType
    <3>2. up' = [up EXCEPT ![u] = [up[u] EXCEPT !.pc = "done", !.art = up[u].art]]
      BY <2>2, <3>1 DEF Goto
    <3>3. QED
      BY <1>1, <1>2, <1>3, <3>2, CallerEnds
  <2>3. QED
    BY <1>3, <2>1, <2>2
<1>4. ASSUME NEW b \in Owners(row[up[u].art].key), UNCHANGED row,
             up' = [up EXCEPT ![u] = IF row[b].digest = up[u].content
                                     THEN [@ EXCEPT !.pc = "done", !.art = b] ELSE IdleUp]
      PROVE  StorageIInv'
  <2>1. b \in 0..MaxArtifacts
    BY DEF Owners, Finalized, Arts
  <2>2. \/ up' = [up EXCEPT ![u] = IdleUp]
        \/ up' = [up EXCEPT ![u] = [up[u] EXCEPT !.pc = "done", !.art = b]]
    BY <1>4
  <2>3. QED
    BY <1>1, <1>4, <2>1, <2>2, CallerEnds
<1>5. ASSUME row[up[u].art].state = "pending", Owners(row[up[u].art].key) = {},
             row' = [row EXCEPT ![up[u].art].state = "finalized", ![up[u].art].digest = up[u].content],
             Goto(u, "done")
      PROVE  StorageIInv'
  <2>1. UploadOK(u)
    BY Typed
  <2>2. PICK a \in Arts : a = up[u].art
    BY <1>1, <2>1 DEF UploadOK, Writing
  <2>3. PICK c \in Contents : c = up[u].content
    BY <1>1, <2>1, ContentsOfKeys DEF UploadOK
  <2>4. row[a].state = "pending" /\ Owners(row[a].key) = {}
        /\ row' = [row EXCEPT ![a].state = "finalized", ![a].digest = c]
    BY <1>5, <2>2, <2>3
  <2>5. row' = [row EXCEPT ![a] = [row[a] EXCEPT !.state = "finalized", !.digest = c]]
    BY <2>4, Typed
  <2>6. PICK s \in RowType : s = [row[a] EXCEPT !.state = "finalized", !.digest = c]
    BY Typed DEF RowType, RowStates
  <2>7. s.state = "finalized" /\ s.digest = c /\ s.key = row[a].key
    BY <2>6, Typed DEF RowType
  <2>8. row' = [row EXCEPT ![a] = s]
    BY <2>5, <2>6
  <2>9. row[a].state = "pending" /\ Owners(row[a].key) = {} /\ Goto(u, "done")
    BY <1>5, <2>4
  <2>10. QED
    BY <1>1, <2>2, <2>3, <2>7, <2>8, <2>9, OwnKeeps
<1>6. QED
  BY <1>3, <1>4, <1>5 DEF FinalizeArtifact

\* Steps that take a row away from its readers: it is blamed, or deleted.
LEMMA RowEnds ==
    ASSUME StorageIInv, NEW a \in Arts, row[a].state # "none",
           NEW r \in RowType, row' = [row EXCEPT ![a] = r], UNCHANGED <<sha256, up, damaged>>,
           object' \in [Arts -> Contents \cup {Nothing, Altered, Truncated}],
           \A b \in Arts \ {a} : object'[b] = object[b], object'[a] \in {object[a], Nothing},
           \/ r.state = "deleted"
           \/ /\ r.state \in {"missing", "divergent"} /\ r.key = row[a].key
              /\ a \in damaged /\ row[a].state = "finalized" /\ object'[a] = object[a]
    PROVE  StorageIInv'
<1>1. row'[a] = r /\ \A b \in Arts \ {a} : row'[b] = row[b]
  BY Typed
<1>2. StorageTypeOK'
  BY DEF StorageIInv, StorageTypeOK, RowType
<1>3. Finalized' = Finalized \ {a}
  BY <1>1 DEF Finalized
<1>4. RowsKeyed'
  BY <1>1 DEF StorageIInv, RowsKeyed
<1>5. OneOwner'
  BY <1>1, <1>3 DEF StorageIInv, OneOwner, Finalized
<1>6. ObjectsTrue' /\ HeadsTrue'
  BY <1>1, <1>3, StorageAssumption DEF StorageIInv, ObjectsTrue, HeadsTrue, Finalized
<1>7. UploadsOK'
  <2> SUFFICES ASSUME NEW v \in Uploads PROVE UploadOK(v)'
    BY DEF UploadsOK
  <2>1. UploadOK(v)
    BY Typed
  <2>2. CASE up[v].art = a
    BY <1>1, <2>1, <2>2 DEF UploadOK, Writing
  <2>3. CASE up[v].art # a
    BY <1>1, <2>1, <2>3 DEF UploadOK, Writing
  <2>4. QED
    BY <2>2, <2>3
<1>8. SharedRows'
  <2> SUFFICES ASSUME NEW x \in Uploads, NEW y \in Uploads, x # y,
                      up[x].pc \in Writing, up[y].pc \in Writing, up[x].art = up[y].art
               PROVE  row'[up[x].art].state = "deleted" \/ up[x].key \in Reused
    BY DEF SharedRows
  <2>1. row[up[x].art].state = "deleted" \/ up[x].key \in Reused
    BY DEF StorageIInv, SharedRows
  <2>2. up[x].art \in Arts
    BY Typed DEF UploadOK
  <2>3. QED
    BY <1>1, <2>1, <2>2
<1>9. QED
  BY <1>2, <1>4, <1>5, <1>6, <1>7, <1>8 DEF StorageIInv

\* Steps that change bytes behind the rows.
LEMMA BytesChange ==
    ASSUME StorageIInv, NEW a \in Arts, UNCHANGED <<row, sha256, up>>,
           NEW x \in {Nothing, Altered, Truncated}, object' = [object EXCEPT ![a] = x],
           damaged' \in {damaged, damaged \cup {a}},
           x = Altered => a \in damaged',
           \/ a \in damaged'
           \/ row[a].state # "finalized" /\ \A u \in Uploads : ~(up[u].pc = "finalize" /\ up[u].art = a)
    PROVE  StorageIInv'
<1>1. object'[a] = x /\ \A b \in Arts \ {a} : object'[b] = object[b]
  BY DEF StorageIInv, StorageTypeOK
<1>2. StorageTypeOK'
  BY DEF StorageIInv, StorageTypeOK
<1>3. RowsKeyed' /\ OneOwner' /\ SharedRows'
  BY DEF StorageIInv, RowsKeyed, OneOwner, SharedRows, Finalized
<1>4. ObjectsTrue' /\ HeadsTrue'
  BY <1>1, StorageAssumption DEF StorageIInv, ObjectsTrue, HeadsTrue, Finalized
<1>5. UploadsOK'
  <2> SUFFICES ASSUME NEW v \in Uploads PROVE UploadOK(v)'
    BY DEF UploadsOK
  <2>1. UploadOK(v)
    BY Typed
  <2>2. up[v].pc = "finalize" => up[v].art \in Arts
    BY <2>1 DEF UploadOK, Writing
  <2>3. QED
    BY <1>1, <2>1, <2>2 DEF UploadOK
<1>6. QED
  BY <1>2, <1>3, <1>4, <1>5 DEF StorageIInv

\* The other steps of callers.
LEMMA CallersKeep ==
    ASSUME StorageIInv, NEW u \in Uploads,
           CheckPending(u) \/ VerifyObject(u) \/ Return(u) \/ UploadFails(u)
    PROVE  StorageIInv'
<1>1. UNCHANGED <<row, object, sha256, damaged>>
  BY DEF CheckPending, VerifyObject, Return, UploadFails
<1>2. CASE CheckPending(u)
  <2>1. up[u].pc \in Writing /\ (Goto(u, "write") \/ Goto(u, "idle"))
    BY <1>2 DEF CheckPending, Writing
  <2>2. CASE Goto(u, "write")
    BY <1>1, <2>1, <2>2, CallerGoes
  <2>3. CASE Goto(u, "idle")
    BY <1>1, <2>3, CallerEnds DEF Goto
  <2>4. QED
    BY <2>1, <2>2, <2>3
<1>3. CASE VerifyObject(u)
  <2>1. CASE HeadMatches(up[u].art, up[u].content)
    <3>1. up[u].pc \in Writing /\ Goto(u, "finalize")
      BY <1>3, <2>1 DEF VerifyObject, Writing
    <3>2. up[u].art \in Arts
      BY <3>1, Typed DEF UploadOK
    <3>3. up[u].art \in damaged \/ object[up[u].art] = up[u].content
      BY <2>1, <3>2 DEF HeadMatches, StorageIInv, StorageTypeOK, HeadsTrue
    <3>4. QED
      BY <1>1, <3>1, <3>3, CallerGoes
  <2>2. CASE ~HeadMatches(up[u].art, up[u].content)
    BY <1>1, <1>3, <2>2, CallerEnds DEF VerifyObject, Goto
  <2>3. QED
    BY <2>1, <2>2
<1>4. CASE Return(u) \/ UploadFails(u)
  BY <1>1, <1>4, CallerEnds DEF Return, UploadFails
<1>5. QED
  BY <1>2, <1>3, <1>4

\* open_verified and reconcile blame damaged objects only: bytes that are as the row
\* says pass both.
LEMMA MarkKeeps ==
    ASSUME StorageIInv, NEW a \in Arts, OpenVerified(a) \/ Reconcile(a)
    PROVE  StorageIInv'
<1>0. MarkProblem(a) /\ row[a].state = "finalized"
  BY DEF OpenVerified, Reconcile, MarkProblem
<1>1. /\ row[a].state = "finalized" /\ object[a] # row[a].digest
      /\ UNCHANGED <<object, sha256, up, damaged>>
  <2>1. row[a].digest \in Contents /\ row[a].digest \notin {Nothing, Truncated}
    BY <1>0, ContentsOfKeys DEF StorageIInv, RowsKeyed
  <2>2. QED
    BY <1>0, <2>1 DEF OpenVerified, Reconcile, MarkProblem, HeadMatches, StorageIInv, HeadsTrue
<1>2. PICK n \in {"missing", "divergent"} : row' = [row EXCEPT ![a].state = n]
  BY <1>0 DEF MarkProblem
<1>3. a \in damaged
  BY <1>1 DEF StorageIInv, ObjectsTrue, Finalized
<1>4. PICK r \in RowType : r = [row[a] EXCEPT !.state = n]
  BY Typed DEF RowType, RowStates
<1>5. r.state = n /\ r.key = row[a].key
  BY <1>4, Typed DEF RowType
<1>6. row' = [row EXCEPT ![a] = r]
  BY <1>2, <1>4, Typed
<1>7. object' \in [Arts -> Contents \cup {Nothing, Altered, Truncated}]
  BY <1>1 DEF StorageIInv, StorageTypeOK
<1>8. QED
  BY <1>1, <1>3, <1>5, <1>6, <1>7, RowEnds

\* delete_temporary and the saga's removal of a row.
LEMMA DeletedRowTyped ==
    [NoRow EXCEPT !.state = "deleted"] \in RowType
    /\ [NoRow EXCEPT !.state = "deleted"].state = "deleted"
BY DEF NoRow, RowType, RowStates

\* Removing bytes and rows keeps the archive in order.
LEMMA RemovalsKeep ==
    ASSUME StorageIInv, NEW a \in Arts,
           DeleteTemporary(a) \/ RemoveRow(a) \/ DeleteForDeletion(a)
    PROVE  StorageIInv'
<1>1. row[a].state # "none" /\ up' = up /\ sha256' = sha256
  BY DEF DeleteTemporary, RemoveRow, DeleteForDeletion
<1>2. PICK d \in RowType : d = [NoRow EXCEPT !.state = "deleted"] /\ d.state = "deleted"
  BY DeletedRowTyped
<1>3. object' = object \/ object' = [object EXCEPT ![a] = Nothing]
  BY DEF DeleteTemporary, RemoveRow, DeleteForDeletion
<1>4. /\ object' \in [Arts -> Contents \cup {Nothing, Altered, Truncated}]
      /\ \A b \in Arts \ {a} : object'[b] = object[b]
      /\ object'[a] \in {object[a], Nothing}
  BY <1>3 DEF StorageIInv, StorageTypeOK
<1>5. CASE row' = [row EXCEPT ![a] = d] /\ damaged' = damaged
  BY <1>1, <1>2, <1>4, <1>5, RowEnds
<1>6. CASE row' = row /\ object' = [object EXCEPT ![a] = Nothing] /\ damaged' = damaged \cup {a}
  BY <1>1, <1>6, BytesChange, StorageAssumption
<1>7. QED
  BY <1>2, <1>5, <1>6 DEF DeleteTemporary, RemoveRow, DeleteForDeletion

\* Object storage loses, truncates or alters an object.
LEMMA DamageKeeps ==
    ASSUME StorageIInv, NEW a \in Arts, Damage(a)
    PROVE  StorageIInv'
<1>1. UNCHANGED <<row, sha256, up>>
  BY DEF Damage
<1>2. PICK x \in {Nothing, Truncated, Altered} :
          /\ object' = [object EXCEPT ![a] = x]
          /\ damaged' = IF \/ x = Altered
                           \/ row[a].state = "finalized"
                           \/ \E u \in Uploads : up[u].pc = "finalize" /\ up[u].art = a
                        THEN damaged \cup {a} ELSE damaged
  BY DEF Damage
<1>3. /\ damaged' \in {damaged, damaged \cup {a}}
      /\ x = Altered => a \in damaged'
      /\ \/ a \in damaged'
         \/ row[a].state # "finalized" /\ \A u \in Uploads : ~(up[u].pc = "finalize" /\ up[u].art = a)
  BY <1>2
<1>4. QED
  BY <1>1, <1>2, <1>3, BytesChange

\* Every step of the archive keeps it in order.
LEMMA StorageKeeps ==
    ASSUME StorageIInv, StorageNext \/ UNCHANGED <<row, object, sha256, up, damaged>>
    PROVE  StorageIInv'
<1>1. CASE \E u \in Uploads, k \in Keys : \E c \in ContentOf[k] : Lookup(u, k, c)
  BY <1>1, LookupKeeps
<1>2. CASE \E u \in Uploads :
        \/ BeginArtifact(u) \/ CheckPending(u) \/ WriteObject(u) \/ VerifyObject(u)
        \/ FinalizeArtifact(u) \/ Return(u) \/ UploadFails(u)
  BY <1>2, BeginKeeps, CallersKeep, WriteKeeps, FinalizeKeeps
<1>3. CASE \E a \in Arts :
        \/ OpenVerified(a) \/ Reconcile(a) \/ DeleteTemporary(a) \/ DeleteForDeletion(a)
        \/ RemoveRow(a) \/ Damage(a)
  BY <1>3, MarkKeeps, RemovalsKeep, DamageKeeps
<1>4. CASE UNCHANGED <<row, object, sha256, up, damaged>>
  BY <1>4 DEF StorageIInv, StorageTypeOK, RowsKeyed, OneOwner, ObjectsTrue, HeadsTrue, UploadsOK,
              UploadOK, SharedRows, Finalized
<1>5. QED
  BY <1>1, <1>2, <1>3, <1>4 DEF StorageNext

\* The empty archive is in order.
LEMMA StorageInitHolds == StorageInit => StorageIInv
<1> SUFFICES ASSUME StorageInit PROVE StorageIInv
  OBVIOUS
<1>1. NoRow \in RowType /\ NoRow.state = "none"
  BY DEF NoRow, RowType, RowStates
<1>2. StorageTypeOK
  BY <1>1, IdleTyped DEF StorageInit, StorageTypeOK, RowType, UpType
<1>3. RowsKeyed /\ OneOwner /\ ObjectsTrue /\ HeadsTrue
  BY <1>1, StorageAssumption DEF StorageInit, RowsKeyed, OneOwner, ObjectsTrue, HeadsTrue, Finalized
<1>4. UploadsOK /\ SharedRows
  BY IdleTyped DEF StorageInit, UploadsOK, UploadOK, SharedRows, Writing
<1>5. QED
  BY <1>2, <1>3, <1>4 DEF StorageIInv

----------------------------------------------------------------------------
(* The inductive invariant of backup.                                      *)

BackupType == [state : {"none", "running", "complete", "failed", "expired"},
               pc : {"none", "list", "capture"}, dump : SUBSET Arts,
               listed : [Arts -> Contents \cup {Nothing}],
               entries : [Arts -> Contents \cup {Nothing}],
               files : {"none", "whole", "removed", "corrupt"}]

\* What the dump holds was finalized, and listed as its row still says unless it was
\* taken away; an object is in the set with the digest it was listed with, or not yet.
Capturing(b) ==
    /\ backup[b].pc # "none" =>
        /\ backup[b].state = "running"
        /\ \A a \in backup[b].dump : row[a].state \notin {"none", "pending"}
    /\ backup[b].state = "none" \/ backup[b].pc = "list" => backup[b].entries = Blank
    /\ backup[b].pc = "capture" =>
        /\ \A a \in backup[b].dump \cap Finalized : backup[b].listed[a] = row[a].digest
        /\ \A a \in Arts : backup[b].entries[a] \in {Nothing, backup[b].listed[a]}

\* A complete set has its files, unless an expiry failed half-way, which a newer
\* complete set justified.
Sealed(b) ==
    backup[b].state = "complete" =>
        /\ backup[b].files # "none"
        /\ backup[b].files = "removed" => \E c \in Sets : c > b /\ backup[c].state = "complete"

IInv ==
    /\ StorageIInv
    /\ backup \in [Sets -> BackupType]
    /\ \A b \in Sets : Capturing(b) /\ Sealed(b)

\* A row that was finalized once never becomes pending or finalized again, and keeps
\* its digest while it is finalized.
LEMMA RowsAge ==
    ASSUME StorageIInv, StorageNext, NEW a \in Arts, row[a].state \notin {"none", "pending"}
    PROVE  /\ row'[a].state \notin {"none", "pending"}
           /\ row'[a].state = "finalized" =>
                row[a].state = "finalized" /\ row'[a].digest = row[a].digest
<1>1. CASE row' = row
  BY <1>1
<1>2. ASSUME NEW u \in Uploads, BeginArtifact(u)
      PROVE  row'[a] = row[a]
  <2>1. PICK b \in Arts : b = First(Unused) /\ row[b].state = "none"
    BY <1>2, FirstIsMember DEF BeginArtifact, Unused
  <2>2. PICK r : row' = [row EXCEPT ![b] = r]
    BY <1>2, <2>1 DEF BeginArtifact
  <2>3. QED
    BY <2>1, <2>2, Typed
<1>3. ASSUME NEW u \in Uploads, FinalizeArtifact(u), row' # row
      PROVE  row'[a] = row[a]
  <2>1. PICK b : b = up[u].art /\ row[b].state = "pending"
                 /\ row' = [row EXCEPT ![b].state = "finalized", ![b].digest = up[u].content]
    BY <1>3 DEF FinalizeArtifact
  <2>2. a # b
    BY <2>1
  <2>3. QED
    BY <2>1, <2>2, Typed
<1>4. ASSUME NEW b \in Arts, OpenVerified(b) \/ Reconcile(b)
      PROVE  row'[a] = row[a] \/ row'[a].state \in {"missing", "divergent"}
  <2>1. PICK n \in {"missing", "divergent"} : row' = [row EXCEPT ![b].state = n]
    BY <1>4 DEF OpenVerified, Reconcile, MarkProblem
  <2>2. QED
    BY <2>1, Typed DEF RowType
<1>5. ASSUME NEW b \in Arts, DeleteTemporary(b) \/ RemoveRow(b), row' # row
      PROVE  row'[a] = row[a] \/ row'[a].state = "deleted"
  <2>1. PICK d \in RowType : d = [NoRow EXCEPT !.state = "deleted"] /\ d.state = "deleted"
    BY DeletedRowTyped
  <2>2. row' = [row EXCEPT ![b] = d]
    BY <1>5, <2>1 DEF DeleteTemporary, RemoveRow
  <2>3. QED
    BY <2>1, <2>2, Typed
<1>6. QED
  BY <1>1, <1>2, <1>3, <1>4, <1>5 DEF StorageNext, Lookup, CheckPending, WriteObject, VerifyObject,
     Return, UploadFails, DeleteForDeletion, Damage

\* Callers, readers and deletions do not disturb the backups under way.
LEMMA ArchiveMovesOn ==
    ASSUME IInv, StorageNext, UNCHANGED backup
    PROVE  IInv'
<1>1. StorageIInv'
  BY StorageKeeps DEF IInv
<1>2. ASSUME NEW b \in Sets
      PROVE  Capturing(b)' /\ Sealed(b)'
  <2>1. Capturing(b) /\ Sealed(b) /\ backup[b] \in BackupType
    BY DEF IInv
  <2>2. \A a \in backup[b].dump : a \in Arts
    BY <2>1 DEF BackupType
  <2>3. \A a \in backup[b].dump : row[a].state \notin {"none", "pending"} =>
            /\ row'[a].state \notin {"none", "pending"}
            /\ row'[a].state = "finalized" =>
                row[a].state = "finalized" /\ row'[a].digest = row[a].digest
    BY <2>2, RowsAge DEF IInv
  <2>4. Capturing(b)'
    BY <2>1, <2>2, <2>3 DEF Capturing, Finalized
  <2>5. Sealed(b)'
    BY <2>1 DEF Sealed
  <2>6. QED
    BY <2>4, <2>5
<1>3. QED
  BY <1>1, <1>2 DEF IInv

\* A step of one backup: complete sets stay complete, but for one that a newer
\* complete set makes surplus.
LEMMA BackupStep ==
    ASSUME IInv, NEW b \in Sets, UNCHANGED <<row, object, sha256, up, damaged>>,
           NEW r \in BackupType, backup' = [backup EXCEPT ![b] = r],
           Capturing(b)',
           backup[b].state = "complete" /\ r.state # "complete"
                => \E c \in Sets : c > b /\ backup[c].state = "complete",
           r.state = "complete" =>
                /\ r.files # "none"
                /\ r.files = "removed" => \E c \in Sets : c > b /\ backup[c].state = "complete"
    PROVE  IInv'
<1>1. StorageIInv'
  BY StorageKeeps DEF IInv
<1>2. backup'[b] = r /\ \A c \in Sets \ {b} : backup'[c] = backup[c]
  BY DEF IInv
<1>3. backup' \in [Sets -> BackupType]
  BY DEF IInv
<1>4. \A c \in Sets : Capturing(c)'
  BY <1>2 DEF IInv, Capturing, Finalized
<1>5. ASSUME NEW c \in Sets
      PROVE  Sealed(c)'
  <2> SUFFICES ASSUME backup'[c].state = "complete"
               PROVE  /\ backup'[c].files # "none"
                      /\ backup'[c].files = "removed" => \E d \in Sets : d > c /\ backup'[d].state = "complete"
    BY DEF Sealed
  <2>1. /\ backup'[c].files # "none"
        /\ backup'[c].files = "removed" => \E d \in Sets : d > c /\ backup[d].state = "complete"
    BY <1>2 DEF IInv, Sealed
  <2>2. ASSUME NEW d \in Sets, d > c, backup[d].state = "complete"
        PROVE  \E x \in Sets : x > c /\ backup'[x].state = "complete"
    <3>1. CASE backup'[d].state = "complete"
      BY <2>2, <3>1
    <3>2. CASE backup'[d].state # "complete"
      <4>1. d = b /\ \E x \in Sets : x > b /\ backup[x].state = "complete"
        BY <1>2, <2>2, <3>2
      <4>2. PICK x \in Sets : x > d /\ backup[x].state = "complete"
        BY <4>1
      <4>3. x # b /\ x > c
        BY <2>2, <4>1, <4>2 DEF Sets
      <4>4. QED
        BY <1>2, <4>2, <4>3
    <3>3. QED
      BY <3>1, <3>2
  <2>3. QED
    BY <2>1, <2>2
<1>6. QED
  BY <1>1, <1>3, <1>4, <1>5 DEF IInv

\* The fields of a backup have their types.
LEMMA BackupTypes ==
    /\ NoBackup \in BackupType /\ NoBackup.pc = "none"
    /\ \A b : Failed(b) \in BackupType /\ Failed(b).state = "failed" /\ Failed(b).pc = "none"
    /\ [NoBackup EXCEPT !.state = "complete", !.files = "whole"] \in BackupType
    /\ [NoBackup EXCEPT !.state = "complete", !.files = "whole"].pc = "none"
    /\ [NoBackup EXCEPT !.state = "complete", !.files = "whole"].state = "complete"
    /\ [NoBackup EXCEPT !.state = "complete", !.files = "whole"].files = "whole"
    /\ [NoBackup EXCEPT !.state = "expired"] \in BackupType
    /\ [NoBackup EXCEPT !.state = "expired"].pc = "none"
    /\ [NoBackup EXCEPT !.state = "expired"].state = "expired"
<1>1. Blank \in [Arts -> Contents \cup {Nothing}]
  BY DEF Blank
<1>2. QED
  BY <1>1 DEF NoBackup, Failed, BackupType

\* create_backup dumps, then lists.
LEMMA CreateKeeps ==
    ASSUME IInv, NEW b \in Sets, CreateBackup(b) \/ ListArtifacts(b)
    PROVE  IInv'
<1>1. UNCHANGED <<row, object, sha256, up, damaged>>
  BY DEF CreateBackup, ListArtifacts, storageVars
<1>2. backup[b] \in BackupType /\ Capturing(b) /\ Finalized \in SUBSET Arts
  BY DEF IInv, Finalized
<1>3. CASE CreateBackup(b)
  <2>1. backup[b].state = "none"
        /\ backup' = [backup EXCEPT ![b].state = "running", ![b].pc = "list", ![b].dump = Finalized]
    BY <1>3 DEF CreateBackup
  <2>2. PICK r \in BackupType : r = [backup[b] EXCEPT !.state = "running", !.pc = "list", !.dump = Finalized]
    BY <1>2 DEF BackupType
  <2>3. r.state = "running" /\ r.pc = "list" /\ r.dump = Finalized /\ r.entries = backup[b].entries
    BY <1>2, <2>2 DEF BackupType
  <2>4. backup' = [backup EXCEPT ![b] = r] /\ backup'[b] = r
    BY <2>1, <2>2 DEF IInv
  <2>5. Capturing(b)'
    BY <1>1, <1>2, <2>1, <2>3, <2>4 DEF Capturing, Finalized
  <2>6. backup[b].state # "complete" /\ r.state # "complete"
    BY <2>1, <2>3
  <2>7. QED
    BY <1>1, <2>4, <2>5, <2>6, BackupStep
<1>4. CASE ListArtifacts(b)
  <2> DEFINE l == [a \in Arts |-> IF a \in Finalized THEN row[a].digest ELSE Nothing]
  <2>1. backup[b].pc = "list" /\ backup' = [backup EXCEPT ![b].pc = "capture", ![b].listed = l]
    BY <1>4 DEF ListArtifacts
  <2>2. l \in [Arts -> Contents \cup {Nothing}] /\ \A a \in Finalized : l[a] = row[a].digest
    BY Typed DEF IInv, RowType, Finalized
  <2> HIDE DEF l
  <2>3. PICK r \in BackupType : r = [backup[b] EXCEPT !.pc = "capture", !.listed = l]
    BY <1>2, <2>2 DEF BackupType
  <2>4. /\ r.state = backup[b].state /\ r.pc = "capture" /\ r.dump = backup[b].dump
        /\ r.listed = l /\ r.entries = backup[b].entries
    BY <1>2, <2>3 DEF BackupType
  <2>5. backup' = [backup EXCEPT ![b] = r] /\ backup'[b] = r
    BY <2>1, <2>3 DEF IInv
  <2>6. \A a \in Arts : r.entries[a] = Nothing
    BY <1>2, <2>1, <2>4 DEF Capturing, Blank
  <2>7. Finalized' = Finalized
    BY <1>1 DEF Finalized
  <2>8. Capturing(b)'
    BY <1>1, <1>2, <2>1, <2>2, <2>4, <2>5, <2>6, <2>7 DEF Capturing
  <2>9. backup[b].state # "complete" /\ r.state # "complete"
    BY <1>2, <2>1, <2>4 DEF Capturing
  <2>10. QED
    BY <1>1, <2>5, <2>8, <2>9, BackupStep
<1>5. QED
  BY <1>3, <1>4

\* A set fails, and is not looked at again.
LEMMA FailKeeps ==
    ASSUME IInv, NEW b \in Sets, UNCHANGED <<row, object, sha256, up, damaged>>,
           backup[b].pc # "none", backup' = [backup EXCEPT ![b] = Failed(b)]
    PROVE  IInv'
<1>1. PICK r \in BackupType : r = Failed(b) /\ r.state = "failed" /\ r.pc = "none"
  BY BackupTypes
<1>2. backup' = [backup EXCEPT ![b] = r] /\ backup'[b] = r
  BY <1>1 DEF IInv
<1>3. Capturing(b)'
  BY <1>1, <1>2 DEF Capturing
<1>4. backup[b].state # "complete" /\ r.state # "complete"
  BY <1>1 DEF IInv, Capturing
<1>5. QED
  BY <1>2, <1>3, <1>4, BackupStep

\* _object_bytes: an object is captured or fails the set.
LEMMA CaptureKeeps ==
    ASSUME IInv, NEW b \in Sets, CaptureObject(b)
    PROVE  IInv'
<1>1. UNCHANGED <<row, object, sha256, up, damaged>> /\ backup[b].pc = "capture"
  BY DEF CaptureObject, storageVars
<1>2. backup[b] \in BackupType /\ Capturing(b)
  BY DEF IInv
<1>3. PICK a \in Arts : backup' = IF object[a] = backup[b].listed[a]
                                 THEN [backup EXCEPT ![b].entries[a] = object[a]]
                                 ELSE [backup EXCEPT ![b] = Failed(b)]
  BY DEF CaptureObject, Todo
<1>4. CASE object[a] # backup[b].listed[a]
  BY <1>1, <1>3, <1>4, FailKeeps
<1>5. CASE object[a] = backup[b].listed[a]
  <2>1. PICK e \in [Arts -> Contents \cup {Nothing}] : e = [backup[b].entries EXCEPT ![a] = object[a]]
    BY <1>2, <1>5 DEF BackupType
  <2>2. e[a] = backup[b].listed[a] /\ \A x \in Arts \ {a} : e[x] = backup[b].entries[x]
    BY <1>2, <1>5, <2>1 DEF BackupType
  <2>3. PICK r \in BackupType : r = [backup[b] EXCEPT !.entries = e]
    BY <1>2 DEF BackupType
  <2>4. r.state = backup[b].state /\ r.pc = "capture" /\ r.dump = backup[b].dump
        /\ r.listed = backup[b].listed /\ r.entries = e
    BY <1>1, <1>2, <2>3 DEF BackupType
  <2>5. backup' = [backup EXCEPT ![b].entries = e]
    BY <1>3, <1>5, <2>1 DEF IInv
  <2>6. backup' = [backup EXCEPT ![b] = r] /\ backup'[b] = r
    BY <2>3, <2>5 DEF IInv
  <2>7. \A x \in Arts : e[x] \in {Nothing, backup[b].listed[x]}
    BY <1>1, <1>2, <2>2 DEF Capturing
  <2>8. Capturing(b)'
    BY <1>1, <1>2, <2>4, <2>6, <2>7 DEF Capturing, Finalized
  <2>9. backup[b].state # "complete" /\ r.state # "complete"
    BY <1>1, <1>2, <2>4 DEF Capturing
  <2>10. QED
    BY <1>1, <2>6, <2>8, <2>9, BackupStep
<1>6. QED
  BY <1>4, <1>5

\* The set is sealed.
LEMMA SealKeeps ==
    ASSUME IInv, NEW b \in Sets, SealBackup(b)
    PROVE  IInv'
<1>1. UNCHANGED <<row, object, sha256, up, damaged>>
      /\ backup' = [backup EXCEPT ![b] = [NoBackup EXCEPT !.state = "complete", !.files = "whole"]]
  BY DEF SealBackup, storageVars
<1>2. PICK r \in BackupType : r = [NoBackup EXCEPT !.state = "complete", !.files = "whole"]
                              /\ r.pc = "none" /\ r.state = "complete" /\ r.files = "whole"
  BY BackupTypes
<1>3. backup' = [backup EXCEPT ![b] = r] /\ backup'[b] = r
  BY <1>1, <1>2 DEF IInv
<1>4. Capturing(b)'
  BY <1>2, <1>3 DEF Capturing
<1>5. QED
  BY <1>1, <1>2, <1>3, <1>4, BackupStep

\* select_retention: a surplus set has a newer complete one.
LEMMA SurplusHasNewer ==
    ASSUME NEW b \in Surplus
    PROVE  /\ b \in Sets /\ backup[b].state = "complete"
           /\ \E c \in Sets : c > b /\ backup[c].state = "complete"
<1>1. Cardinality({c \in Sets : c > b /\ backup[c].state = "complete"}) >= Keep
  BY DEF Surplus
<1>2. {c \in Sets : c > b /\ backup[c].state = "complete"} # {}
  <2> SUFFICES ASSUME {c \in Sets : c > b /\ backup[c].state = "complete"} = {} PROVE FALSE
    OBVIOUS
  <2>1. Cardinality({c \in Sets : c > b /\ backup[c].state = "complete"}) = 0
    BY FS_EmptySet
  <2>2. Keep \in Nat /\ Keep >= 1
    BY BackupAssumption
  <2>3. QED
    BY <1>1, <2>1, <2>2
<1>3. QED
  BY <1>2 DEF Surplus

\* expire, also when it fails half-way, and the disk.
LEMMA ExpireKeeps ==
    ASSUME IInv, NEW b \in Sets, Expire(b) \/ CorruptArchive(b)
    PROVE  IInv'
<1>1. UNCHANGED <<row, object, sha256, up, damaged>>
  BY DEF Expire, CorruptArchive
<1>2. backup[b] \in BackupType /\ Capturing(b) /\ Sealed(b)
  BY DEF IInv
<1>3. ASSUME b \in Surplus, backup' = [backup EXCEPT ![b] = [NoBackup EXCEPT !.state = "expired"]]
      PROVE  IInv'
  <2>1. PICK r \in BackupType : r = [NoBackup EXCEPT !.state = "expired"] /\ r.pc = "none" /\ r.state = "expired"
    BY BackupTypes
  <2>2. backup' = [backup EXCEPT ![b] = r] /\ backup'[b] = r
    BY <1>3, <2>1 DEF IInv
  <2>3. Capturing(b)'
    BY <2>1, <2>2 DEF Capturing
  <2>4. QED
    BY <1>1, <1>3, <2>1, <2>2, <2>3, SurplusHasNewer, BackupStep
<1>4. ASSUME NEW f \in {"removed", "corrupt"}, backup' = [backup EXCEPT ![b].files = f],
             f = "removed" => b \in Surplus
      PROVE  IInv'
  <2>1. PICK r \in BackupType : r = [backup[b] EXCEPT !.files = f]
    BY <1>2 DEF BackupType
  <2>2. r.files = f /\ r.state = backup[b].state /\ r.pc = backup[b].pc /\ r.dump = backup[b].dump
        /\ r.listed = backup[b].listed /\ r.entries = backup[b].entries
    BY <1>2, <2>1 DEF BackupType
  <2>3. backup' = [backup EXCEPT ![b] = r] /\ backup'[b] = r
    BY <1>4, <2>1 DEF IInv
  <2>4. Capturing(b)'
    BY <1>1, <1>2, <2>2, <2>3 DEF Capturing, Finalized
  <2>5. r.files = "removed" => \E c \in Sets : c > b /\ backup[c].state = "complete"
    BY <1>4, <2>2, SurplusHasNewer
  <2>6. QED
    BY <1>1, <2>2, <2>3, <2>4, <2>5, BackupStep
<1>5. QED
  BY <1>3, <1>4 DEF Expire, CorruptArchive

\* Every step, of the archive or of a backup, keeps the invariant.
LEMMA NextKeeps ==
    ASSUME IInv, [Next]_vars
    PROVE  IInv'
<1>1. CASE StorageNext /\ UNCHANGED backup
  BY <1>1, ArchiveMovesOn
<1>2. CASE BackupNext
  <2>1. ASSUME NEW b \in Sets, BackupFails(b)
        PROVE  IInv'
    BY <2>1, FailKeeps DEF BackupFails
  <2>2. QED
    BY <1>2, <2>1, CreateKeeps, CaptureKeeps, SealKeeps, ExpireKeeps DEF BackupNext
<1>3. CASE UNCHANGED vars
  <2>1. /\ UNCHANGED <<row, object, sha256, up, damaged>> /\ UNCHANGED backup
    BY <1>3 DEF vars, storageVars
  <2>2. QED
    BY <2>1, StorageKeeps DEF IInv, Capturing, Sealed, Finalized
<1>4. QED
  BY <1>1, <1>2, <1>3 DEF Next

\* Nothing is archived and nothing captured at first.
LEMMA InitHolds == Init => IInv
<1> SUFFICES ASSUME Init PROVE IInv
  OBVIOUS
<1>1. StorageIInv
  BY StorageInitHolds DEF Init
<1>2. NoBackup.state = "none" /\ NoBackup.pc = "none" /\ NoBackup \in BackupType
      /\ NoBackup.entries = Blank
  BY BackupTypes DEF NoBackup
<1>3. QED
  BY <1>1, <1>2 DEF Init, IInv, Capturing, Sealed

\* The invariant holds however uploads, deletions, backups, expiry and restores
\* interleave and fail (nfx.artifacts.services, nfx.backup.services).
THEOREM InvariantHolds == Spec => []IInv
<1>1. Init => IInv
  BY InitHolds
<1>2. IInv /\ [Next]_vars => IInv'
  BY NextKeeps
<1>3. QED
  BY <1>1, <1>2, PTL DEF Spec

----------------------------------------------------------------------------
(* What follows from it.                                                   *)

\* A finalized row never describes other bytes than its object holds, unless the
\* object was damaged, and only damaged objects are blamed (_finalize, transmit,
\* open_verified, reconcile).
THEOREM StorageInvHolds == Spec => []StorageInv
<1>1. IInv => StorageInv
  BY DEF IInv, StorageIInv, ObjectsTrue, StorageInv
<1>2. QED
  BY <1>1, InvariantHolds, PTL

\* expire: the newest complete set restores, unless the disk spoiled it.
THEOREM NewestRestorableHolds == Spec => []NewestRestorable
<1>1. IInv => NewestRestorable
  <2> SUFFICES ASSUME IInv PROVE NewestRestorable
    OBVIOUS
  <2>1. TypeOK
    BY DEF IInv, StorageIInv, TypeOK, BackupType
  <2>2. ASSUME NEW b \in Sets, backup[b].state = "complete",
               \A c \in Sets : c > b => backup[c].state # "complete"
        PROVE  RestoreOutcome(b) = "success" \/ backup[b].files = "corrupt"
    <3>1. backup[b].files \notin {"none", "removed"} /\ backup[b] \in BackupType
      BY <2>2 DEF IInv, Sealed
    <3>2. QED
      BY <2>2, <3>1 DEF RestoreOutcome, BackupType
  <2>3. QED
    BY <2>1, <2>2 DEF NewestRestorable
<1>2. QED
  BY <1>1, InvariantHolds, PTL

\* create_backup: the dump is taken before the list, and every listed object is
\* captured as it was listed, so a sealed set holds the bytes of whatever was in the
\* archive and still is.
THEOREM BackupCoversArchiveHolds == Spec => BackupCoversArchive
<1>1. ASSUME IInv, [Next]_vars, NEW b \in Sets,
             backup[b].state # "complete", backup'[b].state = "complete"
      PROVE  /\ \A a \in backup[b].dump \cap Finalized : backup[b].entries[a] = row[a].digest
             /\ backup[b].entries = backup[b].listed
  <2>1. backup' # backup
    BY <1>1
  <2>2. PICK c \in Sets : \/ CreateBackup(c) \/ ListArtifacts(c) \/ CaptureObject(c)
                          \/ SealBackup(c) \/ BackupFails(c) \/ Expire(c) \/ CorruptArchive(c)
    BY <1>1, <2>1 DEF Next, BackupNext, vars
  <2>3. ASSUME c # b
        PROVE  FALSE
    <3>1. backup'[b] = backup[b]
      <4>1. CASE CaptureObject(c)
        BY <1>1, <2>3, <4>1 DEF IInv, CaptureObject
      <4>2. CASE CreateBackup(c) \/ ListArtifacts(c)
        BY <1>1, <2>3, <4>2 DEF IInv, CreateBackup, ListArtifacts
      <4>3. CASE SealBackup(c) \/ BackupFails(c) \/ Expire(c) \/ CorruptArchive(c)
        BY <1>1, <2>3, <4>3 DEF IInv, SealBackup, BackupFails, Expire, CorruptArchive
      <4>4. QED
        BY <2>2, <4>1, <4>2, <4>3
    <3>2. QED
      BY <1>1, <3>1
  <2>4. ASSUME ~SealBackup(b)
        PROVE  backup'[b].state \in {backup[b].state, "running", "failed", "expired"}
    <3>1. backup[b] \in BackupType
      BY <1>1 DEF IInv
    <3>2. CASE CreateBackup(b) \/ ListArtifacts(b)
      BY <1>1, <3>1, <3>2 DEF IInv, CreateBackup, ListArtifacts, BackupType
    <3>3. CASE BackupFails(b)
      BY <1>1, <3>3 DEF IInv, BackupFails, NoBackup, Failed
    <3>4. CASE CaptureObject(b)
      BY <1>1, <3>1, <3>4 DEF IInv, CaptureObject, NoBackup, Failed, BackupType
    <3>5. CASE Expire(b)
      <4>1. \/ backup'[b] = [NoBackup EXCEPT !.state = "expired"]
            \/ backup'[b] = [backup[b] EXCEPT !.files = "removed"]
        BY <1>1, <3>5 DEF IInv, Expire
      <4>2. QED
        BY <3>1, <4>1, BackupTypes DEF BackupType
    <3>6. CASE CorruptArchive(b)
      BY <1>1, <3>1, <3>6 DEF IInv, CorruptArchive, BackupType
    <3>7. QED
      BY <2>2, <2>3, <2>4, <3>2, <3>3, <3>4, <3>5, <3>6
  <2>5. backup[b].pc = "capture" /\ Todo(b) = {}
    BY <1>1, <2>4 DEF SealBackup
  <2>6. backup[b] \in BackupType /\ Capturing(b)
    BY <1>1 DEF IInv
  <2>7. \A a \in Arts : backup[b].entries[a] = backup[b].listed[a]
    BY <2>5, <2>6 DEF Capturing, Todo
  <2>8. backup[b].entries = backup[b].listed
    BY <2>6, <2>7 DEF BackupType
  <2>9. QED
    BY <2>5, <2>6, <2>8 DEF Capturing
<1>2. IInv /\ [Next]_vars =>
        [\A b \in Sets :
           backup[b].state # "complete" /\ backup'[b].state = "complete" =>
               /\ \A a \in backup[b].dump \cap Finalized : backup[b].entries[a] = row[a].digest
               /\ backup[b].entries = backup[b].listed]_vars
  BY <1>1
<1>3. QED
  BY <1>2, InvariantHolds, PTL DEF Spec, BackupCoversArchive

\* A caller is told that its upload succeeded in two ways only: it found a
\* finalized row, or _finalize gave it one.
LEMMA ToldOnce ==
    ASSUME IInv, [Next]_vars, NEW u \in Uploads, up[u].pc # "done", up'[u].pc = "done"
    PROVE  (\E k \in Keys : \E c \in ContentOf[k] : Lookup(u, k, c)) \/ FinalizeArtifact(u)
<1>1. up' # up
  OBVIOUS
<1>2. StorageIInv
  BY DEF IInv
<1>3. \E v \in Uploads : \/ \E k \in Keys : \E c \in ContentOf[k] : Lookup(v, k, c)
                         \/ BeginArtifact(v) \/ CheckPending(v) \/ WriteObject(v) \/ VerifyObject(v)
                         \/ FinalizeArtifact(v) \/ Return(v) \/ UploadFails(v)
  BY <1>1 DEF Next, StorageNext, BackupNext, vars, storageVars, CreateBackup, ListArtifacts,
     CaptureObject, SealBackup, BackupFails, Expire, CorruptArchive, OpenVerified, Reconcile, MarkProblem,
     DeleteTemporary, DeleteForDeletion, RemoveRow, Damage
<1>4. PICK v \in Uploads : \/ \E k \in Keys : \E c \in ContentOf[k] : Lookup(v, k, c)
                           \/ BeginArtifact(v) \/ CheckPending(v) \/ WriteObject(v) \/ VerifyObject(v)
                           \/ FinalizeArtifact(v) \/ Return(v) \/ UploadFails(v)
  BY <1>3
<1>5. v = u
  <2> SUFFICES ASSUME v # u PROVE FALSE
    OBVIOUS
  <2>1. up'[u] = up[u]
    <3>1. CASE \E k \in Keys : \E c \in ContentOf[k] : Lookup(v, k, c)
      BY <1>2, <3>1, Typed DEF Lookup
    <3>2. CASE BeginArtifact(v)
      BY <1>2, <3>2, Typed DEF BeginArtifact
    <3>3. CASE CheckPending(v) \/ WriteObject(v) \/ VerifyObject(v)
      BY <1>2, <3>3, Typed DEF CheckPending, WriteObject, VerifyObject, Goto
    <3>4. CASE FinalizeArtifact(v)
      BY <1>2, <3>4, Typed DEF FinalizeArtifact, Goto
    <3>5. CASE Return(v) \/ UploadFails(v)
      BY <1>2, <3>5, Typed DEF Return, UploadFails
    <3>6. QED
      BY <1>4, <3>1, <3>2, <3>3, <3>4, <3>5
  <2>2. QED
    BY <2>1
<1>6. ASSUME NEW n, Goto(u, n), n # "done"
      PROVE  FALSE
  <2>1. up'[u] = IF n = "idle" THEN IdleUp ELSE [up[u] EXCEPT !.pc = n]
    BY <1>2, <1>6, Typed DEF Goto
  <2>2. up[u] \in UpType
    BY <1>2, Typed
  <2>3. up'[u].pc \in {"idle", n}
    BY <2>1, <2>2, IdleTyped DEF UpType
  <2>4. QED
    BY <1>6, <2>3
<1>7. ~CheckPending(u) /\ ~WriteObject(u) /\ ~VerifyObject(u)
  BY <1>6 DEF CheckPending, WriteObject, VerifyObject
<1>8. ~BeginArtifact(u)
  BY <1>2, Typed DEF BeginArtifact, UpType
<1>9. ~Return(u) /\ ~UploadFails(u)
  BY <1>2, Typed, IdleTyped DEF Return, UploadFails
<1>10. QED
  BY <1>4, <1>5, <1>7, <1>8, <1>9

\* What Lookup gives: under a reused key the first row has the caller's content.
LEMMA LookupHonest ==
    ASSUME StorageIInv, NEW u \in Uploads, NEW k \in Keys, NEW c \in ContentOf[k], Lookup(u, k, c),
           up'[u].pc = "done"
    PROVE  /\ row'[up'[u].art].state = "finalized"
           /\ row'[up'[u].art].digest = up'[u].content
           /\ row'[up'[u].art].key = up'[u].key
           /\ up'[u].art \in Arts
<1>1. k \in Reused /\ Existing(k) # {}
  BY Typed DEF Lookup
<1>2. PICK a \in Arts : a = First(Existing(k)) /\ row[a].key = k
  BY <1>1, FirstIsMember DEF Existing
<1>3. PICK n : n = IF row[a].state = "finalized" THEN "done" ELSE "check"
  OBVIOUS
<1>4. up'[u] = [pc |-> n, key |-> k, content |-> c, art |-> a] /\ row' = row
  BY <1>1, <1>2, <1>3, Typed DEF Lookup
<1>5. row[a].state = "finalized"
  BY <1>3, <1>4
<1>6. row[a].digest = c
  BY <1>1, <1>2, <1>5, StorageAssumption DEF StorageIInv, RowsKeyed
<1>7. QED
  BY <1>2, <1>4, <1>5, <1>6

\* What _finalize gives: the caller's own row, or the owner with the same content.
LEMMA FinalizeHonest ==
    ASSUME StorageIInv, NEW u \in Uploads, FinalizeArtifact(u), up'[u].pc = "done"
    PROVE  /\ row'[up'[u].art].state = "finalized"
           /\ row'[up'[u].art].digest = up'[u].content
           /\ row'[up'[u].art].key = up'[u].key
           /\ up'[u].art \in Arts
<1>1. up[u].pc = "finalize" /\ UploadOK(u) /\ up[u] \in UpType
  BY Typed DEF FinalizeArtifact
<1>2. PICK a \in Arts : a = up[u].art /\ (row[a].state # "deleted" => row[a].key = up[u].key)
  BY <1>1 DEF UploadOK, Writing
<1>3. PICK c \in Contents : c = up[u].content
  BY <1>1, ContentsOfKeys DEF UploadOK
<1>4. ASSUME Goto(u, "idle")
      PROVE  FALSE
  BY <1>4, Typed, IdleTyped DEF Goto
<1>5. ASSUME Goto(u, "done")
      PROVE  up'[u].art = a /\ up'[u].content = c /\ up'[u].key = up[u].key
  <2>1. up'[u] = [up[u] EXCEPT !.pc = "done"]
    BY <1>5, Typed DEF Goto
  <2>2. QED
    BY <1>1, <1>2, <1>3, <2>1 DEF UpType
<1>6. CASE row[a].state = "finalized" /\ row' = row
            /\ Goto(u, IF row[a].digest = c THEN "done" ELSE "idle")
  BY <1>2, <1>4, <1>5, <1>6
<1>7. ASSUME row[a].state = "pending", row' = row, NEW b \in Owners(row[a].key),
             up' = [up EXCEPT ![u] = IF row[b].digest = c
                                     THEN [@ EXCEPT !.pc = "done", !.art = b] ELSE IdleUp]
      PROVE  /\ row'[up'[u].art].state = "finalized"
             /\ row'[up'[u].art].digest = up'[u].content
             /\ row'[up'[u].art].key = up'[u].key
             /\ up'[u].art \in Arts
  <2>1. b \in Arts /\ row[b].state = "finalized" /\ row[b].key = row[a].key
    BY DEF Owners, Finalized
  <2>2. up'[u] = IF row[b].digest = c THEN [up[u] EXCEPT !.pc = "done", !.art = b] ELSE IdleUp
    BY <1>7, Typed
  <2>3. row[b].digest = c
    BY <2>2, IdleTyped
  <2>4. up'[u].art = b /\ up'[u].content = c /\ up'[u].key = up[u].key
    BY <1>1, <1>3, <2>2, <2>3 DEF UpType
  <2>5. QED
    BY <1>2, <1>7, <2>1, <2>3, <2>4
<1>8. ASSUME row[a].state = "pending", Goto(u, "done"),
             row' = [row EXCEPT ![a].state = "finalized", ![a].digest = c]
      PROVE  /\ row'[up'[u].art].state = "finalized"
             /\ row'[up'[u].art].digest = up'[u].content
             /\ row'[up'[u].art].key = up'[u].key
             /\ up'[u].art \in Arts
  <2>1. row'[a] = [row[a] EXCEPT !.state = "finalized", !.digest = c]
    BY <1>8, Typed
  <2>2. row[a] \in RowType
    BY Typed
  <2>3. row'[a].state = "finalized" /\ row'[a].digest = c /\ row'[a].key = row[a].key
    BY <2>1, <2>2 DEF RowType
  <2>4. QED
    BY <1>2, <1>5, <1>8, <2>3
<1>9. QED
  BY <1>2, <1>3, <1>4, <1>6, <1>7, <1>8 DEF FinalizeArtifact

\* Whoever is told that its upload succeeded was given its own content, finalized and
\* alone under its key (_ensure_artifact, _finalize and the partial unique constraint).
THEOREM UploadIsHonestHolds == Spec => UploadIsHonest
<1>1. ASSUME IInv, [Next]_vars, NEW u \in Uploads, up[u].pc # "done", up'[u].pc = "done"
      PROVE  Given(u)'
  <2>1. /\ row'[up'[u].art].state = "finalized"
        /\ row'[up'[u].art].digest = up'[u].content
        /\ row'[up'[u].art].key = up'[u].key
        /\ up'[u].art \in Arts
    BY <1>1, ToldOnce, LookupHonest, FinalizeHonest DEF IInv
  <2>2. OneOwner'
    BY <1>1, NextKeeps DEF IInv, StorageIInv
  <2>3. Owners(up[u].key)' = {up'[u].art}
    BY <2>1, <2>2 DEF OneOwner, Owners, Finalized
  <2>4. QED
    BY <2>1, <2>3 DEF Given
<1>2. IInv /\ [Next]_vars =>
        [\A u \in Uploads : up[u].pc # "done" /\ up'[u].pc = "done" => Given(u)']_storageVars
  BY <1>1
<1>3. QED
  BY <1>2, InvariantHolds, PTL DEF Spec, UploadIsHonest

----------------------------------------------------------------------------
(* Artifact storage implements the write-once store.                       *)

\* A key holds the digest of its only owner, and nothing without one.
LEMMA HeldByOwner ==
    ASSUME StorageIInv, NEW k \in Keys
    PROVE  /\ Owners(k) = {} => Held[k] = Nothing
           /\ \A a \in Owners(k) : Owners(k) = {a} /\ Held[k] = row[a].digest
<1>1. Owners(k) = {} => Held[k] = Nothing
  BY DEF Held
<1>2. ASSUME NEW a \in Owners(k)
      PROVE  Owners(k) = {a} /\ Held[k] = row[a].digest
  <2>1. \A b \in Owners(k) : b = a
    BY DEF Owners, StorageIInv, OneOwner
  <2>2. (CHOOSE b \in Owners(k) : TRUE) = a
    BY <2>1
  <2>3. QED
    BY <2>1, <2>2 DEF Held
<1>3. QED
  BY <1>1, <1>2

\* What a key holds changes only with its owners.
LEMMA HeldStays ==
    ASSUME StorageIInv, StorageIInv', NEW k \in Keys,
           Owners(k)' = Owners(k), \A a \in Owners(k) : row'[a] = row[a]
    PROVE  Held'[k] = Held[k]
<1>1. CASE Owners(k) = {}
  <2>1. Held[k] = Nothing
    BY <1>1 DEF Held
  <2>2. Held'[k] = Nothing
    BY <1>1 DEF Held
  <2>3. QED
    BY <2>1, <2>2
<1>2. CASE Owners(k) # {}
  <2>1. PICK a \in Owners(k) : TRUE
    BY <1>2
  <2>2. Owners(k) = {a} /\ Held[k] = row[a].digest
    BY HeldByOwner
  <2>3. Owners(k)' = {a}
    BY <2>2
  <2>4. Held'[k] = row'[CHOOSE b \in Owners(k)' : TRUE].digest
    BY <2>3 DEF Held
  <2>5. (CHOOSE b \in Owners(k)' : TRUE) = a
    BY <2>3
  <2>6. QED
    BY <2>2, <2>4, <2>5
<1>3. QED
  BY <1>1, <1>2

\* _finalize puts a content under a key that holds none.
LEMMA PutStep ==
    ASSUME StorageIInv, StorageIInv', NEW a \in Arts, row[a].state = "pending",
           NEW k \in Keys, k = row[a].key, Owners(k) = {},
           NEW c \in Contents,
           row'[a].state = "finalized", row'[a].key = k, row'[a].digest = c,
           \A b \in Arts \ {a} : row'[b] = row[b]
    PROVE  Store!Put(k, c)
<1>1. Held[k] = Nothing
  BY HeldByOwner
<1>2. \A j \in Keys \ {k} : Owners(j)' = Owners(j) /\ \A b \in Owners(j) : row'[b] = row[b]
  BY DEF Owners, Finalized
<1>3. \A j \in Keys \ {k} : Held'[j] = Held[j]
  BY <1>2, HeldStays
<1>4. Owners(k)' = {a}
  BY DEF Owners, Finalized
<1>5. Held'[k] = c
  <2>1. Held'[k] = row'[CHOOSE b \in Owners(k)' : TRUE].digest
    BY <1>4 DEF Held
  <2>2. (CHOOSE b \in Owners(k)' : TRUE) = a
    BY <1>4
  <2>3. QED
    BY <2>1, <2>2
<1>6. Held' = [Held EXCEPT ![k] = c]
  BY <1>3, <1>5 DEF Held
<1>7. QED
  BY <1>1, <1>6 DEF Store!Put

\* Blaming or deleting an owner withdraws what its key holds.
LEMMA WithdrawStep ==
    ASSUME StorageIInv, StorageIInv', NEW a \in Arts,
           row'[a].state # "finalized", \A b \in Arts \ {a} : row'[b] = row[b]
    PROVE  Held' = Held \/ \E k \in Keys : Store!Withdraw(k)
<1>1. CASE row[a].state # "finalized"
  <2>1. \A j \in Keys : Owners(j)' = Owners(j) /\ \A b \in Owners(j) : row'[b] = row[b]
    BY <1>1 DEF Owners, Finalized
  <2>2. \A j \in Keys : Held'[j] = Held[j]
    BY <2>1, HeldStays
  <2>3. QED
    BY <2>2 DEF Held
<1>2. CASE row[a].state = "finalized"
  <2>1. PICK k \in Keys : k = row[a].key /\ row[a].digest \in ContentOf[k]
    BY <1>2 DEF StorageIInv, RowsKeyed
  <2>2. a \in Owners(k)
    BY <1>2, <2>1 DEF Owners, Finalized
  <2>3. Held[k] # Nothing /\ Owners(k) = {a}
    BY <2>1, <2>2, HeldByOwner, ContentsOfKeys
  <2>4. \A j \in Keys \ {k} : Owners(j)' = Owners(j) /\ \A b \in Owners(j) : row'[b] = row[b]
    BY <2>1 DEF Owners, Finalized
  <2>5. \A j \in Keys \ {k} : Held'[j] = Held[j]
    BY <2>4, HeldStays
  <2>6. Owners(k)' = {}
    BY <2>3 DEF Owners, Finalized
  <2>7. Held'[k] = Nothing
    BY <2>6 DEF Held
  <2>8. Held' = [Held EXCEPT ![k] = Nothing]
    <3>1. Held = [j \in Keys |-> Held[j]] /\ Held' = [j \in Keys |-> Held'[j]]
      BY DEF Held
    <3>2. QED
      BY <2>5, <2>7, <3>1
  <2>9. QED
    BY <2>3, <2>8 DEF Store!Withdraw
<1>3. QED
  BY <1>1, <1>2

\* Every step of the system is a step of the store or changes nothing it holds.
LEMMA RefineNext ==
    ASSUME IInv, IInv', [Next]_vars
    PROVE  [Store!StoreNext]_Held
<1>0. StorageIInv /\ StorageIInv'
  BY DEF IInv
<1>1. CASE row' = row
  BY <1>1 DEF Held, Owners, Finalized
<1>2. ASSUME NEW u \in Uploads, BeginArtifact(u)
      PROVE  Held' = Held
  <2>1. PICK b \in Arts : b = First(Unused) /\ row[b].state = "none"
    BY <1>2, FirstIsMember DEF BeginArtifact, Unused
  <2>2. PICK r : r = [state |-> "pending", key |-> up[u].key, digest |-> Nothing]
                 /\ row' = [row EXCEPT ![b] = r]
    BY <1>2, <2>1 DEF BeginArtifact
  <2>3. row'[b].state = "pending" /\ \A a \in Arts \ {b} : row'[a] = row[a]
    BY <1>0, <2>2, Typed
  <2>4. \A j \in Keys : Owners(j)' = Owners(j) /\ \A a \in Owners(j) : row'[a] = row[a]
    BY <2>1, <2>3 DEF Owners, Finalized
  <2>5. \A j \in Keys : Held'[j] = Held[j]
    BY <1>0, <2>4, HeldStays
  <2>6. QED
    BY <2>5 DEF Held
<1>3. ASSUME NEW u \in Uploads, FinalizeArtifact(u), row' # row
      PROVE  Store!StoreNext
  <2>1. PICK a : a = up[u].art /\ row[a].state = "pending" /\ Owners(row[a].key) = {}
                 /\ row' = [row EXCEPT ![a].state = "finalized", ![a].digest = up[u].content]
    BY <1>3 DEF FinalizeArtifact
  <2>2. up[u].pc = "finalize" /\ UploadOK(u)
    BY <1>0, <1>3, Typed DEF FinalizeArtifact
  <2>3. PICK c \in Contents : c = up[u].content
    BY <2>2, ContentsOfKeys DEF UploadOK
  <2>4. a \in Arts /\ row[a].key \in Keys
    BY <2>1, <2>2 DEF UploadOK, Writing
  <2>5. row' = [row EXCEPT ![a].state = "finalized", ![a].digest = c]
    BY <2>1, <2>3
  <2>6. row'[a] = [row[a] EXCEPT !.state = "finalized", !.digest = c]
        /\ \A b \in Arts \ {a} : row'[b] = row[b]
    BY <1>0, <2>4, <2>5, Typed
  <2>7. row[a] \in RowType
    BY <1>0, <2>4, Typed
  <2>8. row'[a].state = "finalized" /\ row'[a].digest = c /\ row'[a].key = row[a].key
    BY <2>6, <2>7 DEF RowType
  <2>9. row[a].state = "pending" /\ Owners(row[a].key) = {} /\ \A b \in Arts \ {a} : row'[b] = row[b]
    BY <2>1, <2>6
  <2>10. Store!Put(row[a].key, c)
    BY <1>0, <2>4, <2>8, <2>9, PutStep
  <2>11. QED
    BY <2>4, <2>10 DEF Store!StoreNext
<1>4. ASSUME NEW a \in Arts, OpenVerified(a) \/ Reconcile(a) \/ DeleteTemporary(a) \/ RemoveRow(a), row' # row
      PROVE  Store!StoreNext \/ Held' = Held
  <2>1. row'[a].state # "finalized" /\ \A b \in Arts \ {a} : row'[b] = row[b]
    <3>1. CASE OpenVerified(a) \/ Reconcile(a)
      <4>1. PICK n \in {"missing", "divergent"} : row' = [row EXCEPT ![a].state = n]
        BY <3>1 DEF OpenVerified, Reconcile, MarkProblem
      <4>2. QED
        BY <1>0, <4>1, Typed DEF RowType
    <3>2. CASE DeleteTemporary(a) \/ RemoveRow(a)
      <4>1. PICK d \in RowType : d = [NoRow EXCEPT !.state = "deleted"] /\ d.state = "deleted"
        BY DeletedRowTyped
      <4>2. row' = [row EXCEPT ![a] = d]
        BY <1>4, <3>2, <4>1 DEF DeleteTemporary, RemoveRow
      <4>3. QED
        BY <1>0, <4>1, <4>2, Typed
    <3>3. QED
      BY <1>4, <3>1, <3>2
  <2>2. QED
    BY <1>0, <2>1, WithdrawStep DEF Store!StoreNext
<1>5. \/ row' = row
      \/ \E u \in Uploads : BeginArtifact(u) \/ FinalizeArtifact(u)
      \/ \E a \in Arts : OpenVerified(a) \/ Reconcile(a) \/ DeleteTemporary(a) \/ RemoveRow(a)
  BY DEF Next, StorageNext, BackupNext, vars, storageVars, CreateBackup, ListArtifacts,
     CaptureObject, SealBackup, BackupFails, Expire, CorruptArchive, DeleteForDeletion, Damage,
     Lookup, CheckPending, WriteObject, VerifyObject, Return, UploadFails
<1>6. QED
  BY <1>1, <1>2, <1>3, <1>4, <1>5

\* The empty archive is the empty store.
LEMMA RefineInit == Init => Store!StoreInit
BY DEF Init, StorageInit, Store!StoreInit, Held, Owners, Finalized, NoRow

\* The partial unique constraint and _finalize: under a key there is at most one
\* finalized content, never replaced in place.
THEOREM WriteOnceHolds == Spec => WriteOnce
<1>1. IInv /\ IInv' /\ [Next]_vars => [Store!StoreNext]_Held
  BY RefineNext
<1>2. QED
  BY <1>1, RefineInit, InvariantHolds, PTL DEF Spec, WriteOnce, Store!StoreSpec
============================================================================
