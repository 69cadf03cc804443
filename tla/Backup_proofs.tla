----------------------------- MODULE Backup_proofs -----------------------------
(***************************************************************************)
(* For any number of installations, master keys and export passwords, any  *)
(* number of servers, and files that have moved any number of times.       *)
(***************************************************************************)
EXTENDS Backup, SequenceTheorems, TLAPS

USE KeysAssumption, RowsAssumption

Keys == {MasterKey[s] : s \in Sites}

(* The layers of encryption over a secret that is stored, and over one that *)
(* is in a file.                                                            *)
StoredUnder(s, m) ==
  IF m = "gsocket" THEN {<<>>} \cup {<<k>> : k \in Keys} ELSE {<<MasterKey[s]>>}

FileUnder(m) ==
  {<<>>} \cup {<<p>> : p \in Passwords}
    \cup (IF m = "gsocket" THEN {<<p, k>> : p \in Passwords, k \in Keys} ELSE {})

Stored(s, r) == r \in Row /\ r.secret.under \in StoredUnder(s, r.mode)

Entry == [name : Names, mode : Modes, plainGs : BOOLEAN, secret : Value]

Carried(e) ==
  /\ e \in Entry
  /\ e.secret.under \in FileUnder(e.mode)
  /\ e.plainGs => e.mode = "gsocket" /\ e.secret.under = <<>>

RowsStored ==
  /\ servers \in [Sites -> Seq(Row)]
  /\ \A s \in Sites : Len(servers[s]) <= MaxRows
  /\ \A s \in Sites : \A i \in DOMAIN servers[s] : Stored(s, servers[s][i])

FileCarried ==
  file.entries \in Seq(Entry) /\ \A i \in DOMAIN file.entries : Carried(file.entries[i])

Import == [site : Sites, entries : Seq(Entry), done : Nat, withKeys : BOOLEAN, password : Passwords,
           from : Nat, failed : SUBSET Nat]

JobCarried ==
  \/ job = NoImport
  \/ /\ job \in Import /\ job.done <= Len(job.entries)
     /\ \A i \in DOMAIN job.entries : Carried(job.entries[i])

Inv == RowsStored /\ FileCarried /\ JobCarried

(***************************************************************************)
(* Values and their layers.                                                *)
(***************************************************************************)
LEMMA Layers ==
  ASSUME NEW k, NEW j
  PROVE  /\ <<k>> \o <<>> = <<k>> /\ <<k>> \o <<j>> = <<k, j>>
         /\ Tail(<<k>>) = <<>> /\ Tail(<<k, j>>) = <<j>>
         /\ Head(<<k>>) = k /\ Head(<<k, j>>) = k
         /\ <<k>> # <<>> /\ <<k, j>> # <<>>
<1>1. <<k>> \o <<>> = <<k>> /\ Tail(<<k>>) = <<>> /\ Head(<<k>>) = k /\ <<k>> # <<>>
  OBVIOUS
<1>2. <<k>> \o <<j>> = <<k, j>>
  <2>1. <<k>> \in Seq({k, j}) /\ <<k, j>> \in Seq({k, j}) /\ <<j>> \in Seq({k, j})
    OBVIOUS
  <2>2. /\ <<k>> \o <<j>> \in Seq({k, j}) /\ Len(<<k>> \o <<j>>) = 2
        /\ (<<k>> \o <<j>>)[1] = k /\ (<<k>> \o <<j>>)[2] = j
    BY <2>1
  <2>3. Len(<<k, j>>) = 2 /\ <<k, j>>[1] = k /\ <<k, j>>[2] = j
    OBVIOUS
  <2>4. /\ Len(<<k>> \o <<j>>) = Len(<<k, j>>)
        /\ \A i \in 1 .. Len(<<k>> \o <<j>>) : (<<k>> \o <<j>>)[i] = <<k, j>>[i]
    BY <2>2, <2>3
  <2> QED
    BY <2>1, <2>2, <2>4, SeqEqual
<1>3. Tail(<<k, j>>) = <<j>>
  OBVIOUS
<1>4. Head(<<k, j>>) = k /\ <<k, j>> # <<>>
  OBVIOUS
<1> QED
  BY <1>1, <1>2, <1>3, <1>4

(* No layer, one and two layers of encryption are sequences of layers.       *)
LEMMA LayersAreValues ==
  /\ <<>> \in Seq(Passwords \cup Keys)
  /\ \A k \in Passwords \cup Keys : <<k>> \in Seq(Passwords \cup Keys)
  /\ \A p, k \in Passwords \cup Keys : <<p, k>> \in Seq(Passwords \cup Keys)
OBVIOUS

(* Value, written out.                                                       *)
LEMMA ValueIs == Value = [of : Names \cup {"new"}, under : Seq(Passwords \cup Keys)]
BY DEF Value, Keys

(* Plain secrets, and none, are values without a layer.                      *)
LEMMA PlainValues ==
  /\ \A n \in Names \cup {"new"} : Plain(n) \in Value /\ Plain(n).under = <<>>
  /\ Absent \in Value /\ Absent.under = <<>>
BY ValueIs, LayersAreValues DEF Plain, Absent

(* A value with other layers.                                                *)
LEMMA WithUnder ==
  ASSUME NEW v \in Value, NEW u
  PROVE  [v EXCEPT !.under = u] = [of |-> v.of, under |-> u]
BY DEF Value

(* Encrypting adds a layer outside.                                          *)
LEMMA Encrypted ==
  ASSUME NEW k, NEW v \in Value
  PROVE  Encrypt(k, v) = [of |-> v.of, under |-> <<k>> \o v.under]
BY WithUnder DEF Encrypt

(* Decrypting takes the outer layer off.                                     *)
LEMMA Decrypted ==
  ASSUME NEW k, NEW v \in Value
  PROVE  Decrypt(k, v) = [of |-> v.of, under |-> Tail(v.under)]
BY WithUnder DEF Decrypt

(* CreateServer, and an import without keys, store a secret under the       *)
(* MASTER_KEY.                                                              *)
LEMMA OwnSecretIsStored ==
  ASSUME NEW s \in Sites, NEW n \in Names, NEW m \in Modes, NEW o \in Names \cup {"new"}
  PROVE  Stored(s, [name |-> n, mode |-> m, secret |-> Encrypt(MasterKey[s], Plain(o))])
<1>1. Encrypt(MasterKey[s], Plain(o)) = [of |-> o, under |-> <<MasterKey[s]>>]
  BY PlainValues, Encrypted, Layers DEF Plain
<1>2. MasterKey[s] \in Keys
  BY DEF Keys
<1>3. [of |-> o, under |-> <<MasterKey[s]>>] \in Value
  BY <1>2, ValueIs, LayersAreValues
<1> QED
  BY <1>1, <1>2, <1>3 DEF Stored, Row, StoredUnder

(* What an export with keys writes.                                         *)
LEMMA ExportIsCarried ==
  ASSUME NEW s \in Sites, NEW pw \in Passwords, NEW r, Stored(s, r)
  PROVE  /\ ExportedSecret(s, r, pw) \in Value
         /\ ExportedSecret(s, r, pw).under \in FileUnder(r.mode)
<1>1. r.mode \in Modes /\ r.secret \in Value /\ r.secret.under \in StoredUnder(s, r.mode)
  BY DEF Stored, Row
<1>2. CASE r.mode = "gsocket"
  <2>1. ExportedSecret(s, r, pw) = [of |-> r.secret.of, under |-> <<pw>> \o r.secret.under]
    BY <1>1, <1>2, Encrypted DEF ExportedSecret
  <2>2. r.secret.under = <<>> \/ \E k \in Keys : r.secret.under = <<k>>
    BY <1>1, <1>2 DEF StoredUnder
  <2>3. \/ <<pw>> \o r.secret.under = <<pw>>
        \/ \E k \in Keys : <<pw>> \o r.secret.under = <<pw, k>>
    <3>1. CASE r.secret.under = <<>>
      BY <3>1, Layers
    <3>2. ASSUME NEW k \in Keys, r.secret.under = <<k>>
          PROVE  <<pw>> \o r.secret.under = <<pw, k>>
      BY <3>2, Layers
    <3> QED
      BY <2>2, <3>1, <3>2
  <2>4. r.secret.of \in Names \cup {"new"}
    BY <1>1, ValueIs
  <2> QED
    <3>1. <<pw>> \o r.secret.under \in FileUnder("gsocket")
      BY <2>3 DEF FileUnder
    <3>2. <<pw>> \o r.secret.under \in Seq(Passwords \cup Keys)
      BY <2>3, LayersAreValues
    <3> QED
      BY <1>2, <2>1, <2>4, <3>1, <3>2, ValueIs
<1>3. CASE r.mode = "direct"
  <2>1. r.secret.under = <<MasterKey[s]>>
    BY <1>1, <1>3 DEF StoredUnder
  <2>2. CanDecrypt(MasterKey[s], r.secret)
    BY <2>1, Layers DEF CanDecrypt
  <2>3. Decrypt(MasterKey[s], r.secret) = [of |-> r.secret.of, under |-> <<>>]
    <3>1. Tail(r.secret.under) = <<>>
      BY <2>1, Layers
    <3> QED
      BY <1>1, <3>1, Decrypted
  <2>4. r.secret.of \in Names \cup {"new"}
    BY <1>1, ValueIs
  <2>5. Encrypt(pw, Decrypt(MasterKey[s], r.secret)) = [of |-> r.secret.of, under |-> <<pw>>]
    <3>1. [of |-> r.secret.of, under |-> <<>>] \in Value
      BY <2>4, ValueIs, LayersAreValues
    <3> QED
      BY <2>3, <3>1, Encrypted, Layers
  <2> QED
    BY <1>3, <2>2, <2>4, <2>5, ValueIs, LayersAreValues DEF ExportedSecret, FileUnder
<1> QED
  BY <1>1, <1>2, <1>3 DEF Modes

(* What an import takes out of an entry it may store.                       *)
LEMMA TakenIsStored ==
  ASSUME JobCarried, job # NoImport, NEW e, Carried(e), NEW v \in Taken(e)
  PROVE  Stored(job.site, [name |-> e.name, mode |-> e.mode, secret |-> v])
<1>1. job.site \in Sites /\ MasterKey[job.site] \in Keys
  BY DEF JobCarried, Import, Keys
<1>2. /\ e.name \in Names /\ e.mode \in Modes /\ e.secret \in Value
      /\ e.secret.under \in FileUnder(e.mode)
  BY DEF Carried, Entry
<1>3. e.secret.of \in Names \cup {"new"}
  BY <1>2, ValueIs
<1>4. Opened(e) = [of |-> e.secret.of, under |-> Tail(e.secret.under)]
  BY <1>2, Decrypted DEF Opened
<1>5. CASE e.mode = "gsocket"
  <2>1. v \in GsSecret(e)
    BY <1>5 DEF Taken
  <2>2. CASE v = Opened(e) /\ Opens(e)
    <3>1. e.secret.under # <<>>
      BY <2>2 DEF Opens, CanDecrypt
    <3>2. (\E q \in Passwords : e.secret.under = <<q>>)
          \/ (\E q \in Passwords, k \in Keys : e.secret.under = <<q, k>>)
      BY <1>2, <1>5, <3>1 DEF FileUnder
    <3>3. Tail(e.secret.under) = <<>> \/ \E k \in Keys : Tail(e.secret.under) = <<k>>
      <4>1. ASSUME NEW q, e.secret.under = <<q>>
            PROVE  Tail(e.secret.under) = <<>>
        BY <4>1, Layers
      <4>2. ASSUME NEW q, NEW k \in Keys, e.secret.under = <<q, k>>
            PROVE  Tail(e.secret.under) = <<k>>
        BY <4>2, Layers
      <4> QED
        BY <3>2, <4>1, <4>2
    <3>4. Tail(e.secret.under) \in StoredUnder(job.site, "gsocket")
      BY <3>3 DEF StoredUnder
    <3>5. v \in Value
      <4>1. Tail(e.secret.under) \in Seq(Passwords \cup Keys)
        BY <3>3, LayersAreValues
      <4> QED
        BY <1>3, <1>4, <2>2, <4>1, ValueIs
    <3>6. v.under \in StoredUnder(job.site, e.mode)
      BY <1>4, <1>5, <2>2, <3>4
    <3>7. [name |-> e.name, mode |-> e.mode, secret |-> v] \in Row
      BY <1>2, <3>5 DEF Row
    <3> QED
      BY <3>6, <3>7 DEF Stored
  <2>3. CASE v = e.secret /\ e.plainGs
    BY <1>2, <1>5, <2>3 DEF Stored, Row, StoredUnder, Carried
  <2> QED
    BY <2>1, <2>2, <2>3 DEF GsSecret
<1>6. CASE e.mode = "direct"
  <2>1. v \in SshKey(e)
    BY <1>6 DEF Taken
  <2>2. CASE v = Own(Opened(e)) /\ Opens(e)
    <3>1. \E q \in Passwords : e.secret.under = <<q>>
      BY <1>2, <1>6, <2>2 DEF FileUnder, Opens, CanDecrypt
    <3>2. Tail(e.secret.under) = <<>>
      BY <3>1, Layers
    <3>3. Opened(e) = Plain(e.secret.of)
      BY <1>4, <3>2 DEF Plain
    <3> QED
      BY <1>1, <1>2, <1>3, <2>2, <3>3, OwnSecretIsStored DEF Own
  <2>3. CASE v = Own(Plain("new"))
    BY <1>1, <1>2, <2>3, OwnSecretIsStored DEF Own
  <2> QED
    BY <2>1, <2>2, <2>3 DEF SshKey
<1> QED
  BY <1>2, <1>5, <1>6 DEF Modes

(***************************************************************************)
(* The invariant.                                                          *)
(***************************************************************************)
LEMMA AddedRowIsStored ==
  ASSUME RowsStored, NEW s \in Sites, NEW r, Stored(s, r), AddRow(s, r)
  PROVE  RowsStored'
<1>1. /\ servers' = [servers EXCEPT ![s] = Append(@, r)] /\ Len(servers[s]) < MaxRows
      /\ r \in Row
  BY DEF AddRow, Stored
<1>2. servers[s] \in Seq(Row) /\ servers \in [Sites -> Seq(Row)]
  BY DEF RowsStored
<1>3. servers'[s] = Append(servers[s], r) /\ \A t \in Sites \ {s} : servers'[t] = servers[t]
  BY <1>1, <1>2
<1>4. servers' \in [Sites -> Seq(Row)]
  BY <1>1, <1>2
<1>5. \A t \in Sites : Len(servers'[t]) <= MaxRows
  BY <1>1, <1>2, <1>3 DEF RowsStored
<1>6. \A i \in DOMAIN servers'[s] : Stored(s, servers'[s][i])
  <2>1. \A i \in DOMAIN servers'[s] :
          (i \in DOMAIN servers[s] /\ servers'[s][i] = servers[s][i]) \/ servers'[s][i] = r
    BY <1>2, <1>3
  <2> QED
    BY <2>1 DEF RowsStored
<1>7. \A t \in Sites : \A i \in DOMAIN servers'[t] : Stored(t, servers'[t][i])
  BY <1>3, <1>6 DEF RowsStored
<1> QED
  BY <1>4, <1>5, <1>7, Zenon DEF RowsStored

(* The invariant holds at the beginning.                                     *)
LEMMA InvInit == Init => Inv
<1> SUFFICES ASSUME Init PROVE Inv
  OBVIOUS
<1>1. <<>> \in Seq(Row) /\ <<>> \in Seq(Entry) /\ Len(<<>>) = 0 /\ DOMAIN <<>> = {}
  OBVIOUS
<1>2. RowsStored
  BY <1>1 DEF Init, RowsStored
<1> QED
  BY <1>1, <1>2 DEF Init, Inv, FileCarried, JobCarried, NoFile

(* The invariant is inductive.                                               *)
LEMMA InvStep == Inv /\ [Next]_vars => Inv'
<1> SUFFICES ASSUME Inv, [Next]_vars PROVE Inv'
  OBVIOUS
<1>1. RowsStored /\ FileCarried /\ JobCarried
  BY DEF Inv
<1>2. ASSUME NEW s \in Sites, CreateServer(s) PROVE Inv'
  <2>1. RowsStored'
    <3>1. PICK n \in Names, m \in Modes :
            AddRow(s, [name |-> n, mode |-> m, secret |-> Encrypt(MasterKey[s], Plain(n))])
      BY <1>2 DEF CreateServer
    <3> QED
      BY <1>1, <3>1, OwnSecretIsStored, AddedRowIsStored
  <2> QED
    BY <1>1, <1>2, <2>1 DEF CreateServer, Inv, FileCarried, JobCarried
<1>3. ASSUME NEW s \in Sites, NEW k \in BOOLEAN, NEW pw \in Passwords, ExportConfig(s, k, pw)
      PROVE  Inv'
  <2> DEFINE entryOf(i) == [name |-> servers[s][i].name, mode |-> servers[s][i].mode,
                            plainGs |-> FALSE,
                            secret |-> IF k THEN ExportedSecret(s, servers[s][i], pw) ELSE Absent]
  <2>1. file'.entries = [i \in DOMAIN servers[s] |-> entryOf(i)] /\ UNCHANGED <<servers, job>>
    BY <1>3 DEF ExportConfig
  <2>2. \A i \in DOMAIN servers[s] : Carried(entryOf(i))
    <3> SUFFICES ASSUME NEW i \in DOMAIN servers[s] PROVE Carried(entryOf(i))
      OBVIOUS
    <3>1. Stored(s, servers[s][i])
      BY <1>1 DEF RowsStored
    <3>2. servers[s][i].name \in Names /\ servers[s][i].mode \in Modes
      BY <3>1 DEF Stored, Row
    <3>3. entryOf(i).secret \in Value /\ entryOf(i).secret.under \in FileUnder(servers[s][i].mode)
      BY <3>1, ExportIsCarried, PlainValues DEF FileUnder
    <3> QED
      BY <3>2, <3>3 DEF Carried, Entry
  <2>3. DOMAIN servers[s] = 1 .. Len(servers[s]) /\ Len(servers[s]) \in Nat
    BY <1>1 DEF RowsStored
  <2>4. file'.entries \in Seq(Entry)
    <3>1. \A i \in DOMAIN servers[s] : entryOf(i) \in Entry
      BY <2>2 DEF Carried
    <3> HIDE DEF entryOf
    <3>2. file'.entries \in [1 .. Len(servers[s]) -> Entry]
      BY <2>1, <2>3, <3>1
    <3> QED
      BY <2>3, <3>2, SeqDef
  <2>5. \A i \in DOMAIN file'.entries : Carried(file'.entries[i])
    <3> HIDE DEF entryOf
    <3> QED
      BY <2>1, <2>2
  <2> QED
    BY <1>1, <2>1, <2>4, <2>5 DEF Inv, FileCarried, RowsStored, JobCarried
<1>4. CASE WriteByHand
  <2>1. PICK n \in Names, m \in Modes :
          file'.entries = <<[name |-> n, mode |-> m, plainGs |-> m = "gsocket",
                             secret |-> IF m = "gsocket" THEN Plain(n) ELSE Absent]>>
    BY <1>4 DEF WriteByHand
  <2> DEFINE e == [name |-> n, mode |-> m, plainGs |-> m = "gsocket",
                   secret |-> IF m = "gsocket" THEN Plain(n) ELSE Absent]
  <2>2. Carried(e)
    <3> DEFINE v == IF m = "gsocket" THEN Plain(n) ELSE Absent
    <3>1. v \in Value /\ v.under = <<>>
      BY PlainValues
    <3> HIDE DEF v
    <3>2. e = [name |-> n, mode |-> m, plainGs |-> m = "gsocket", secret |-> v]
      BY DEF v
    <3>3. (m = "gsocket") \in BOOLEAN
      OBVIOUS
    <3>4. e \in Entry
      BY <3>1, <3>2, <3>3 DEF Entry
    <3>5. e.plainGs => e.mode = "gsocket"
      BY <3>2, Zenon
    <3>6. e.secret.under = <<>>
      BY <3>1, <3>2
    <3>7. e.secret.under \in FileUnder(e.mode)
      BY <3>6 DEF FileUnder
    <3> HIDE DEF e
    <3> QED
      BY <3>4, <3>5, <3>6, <3>7, Zenon DEF Carried
  <2>3. file'.entries = <<e>> /\ e \in Entry
    BY <2>1, <2>2 DEF Carried
  <2> HIDE DEF e
  <2>4. FileCarried'
    BY <2>2, <2>3 DEF FileCarried
  <2> QED
    BY <1>1, <1>4, <2>4 DEF WriteByHand, Inv, RowsStored, JobCarried
<1>5. ASSUME NEW s \in Sites, NEW k \in BOOLEAN, NEW pw \in Passwords, ImportConfig(s, k, pw)
      PROVE  Inv'
  <2>0. Len(servers[s]) \in Nat
    BY <1>1 DEF RowsStored
  <2>1. job' \in Import /\ job'.entries = file.entries /\ job'.done = 0 /\ UNCHANGED <<servers, file>>
    BY <1>1, <1>5, <2>0 DEF ImportConfig, Import, FileCarried
  <2>2. JobCarried'
    BY <1>1, <2>1 DEF JobCarried, FileCarried
  <2> QED
    BY <1>1, <2>1, <2>2 DEF Inv, RowsStored, FileCarried
<1>6. CASE ImportEntry
  <2>1. job # NoImport /\ job.done < Len(job.entries)
    BY <1>6 DEF ImportEntry, NoImport
  <2>2. /\ job \in Import /\ job.done + 1 \in DOMAIN job.entries
        /\ Carried(job.entries[job.done + 1])
    BY <1>1, <2>1 DEF JobCarried, Import
  <2> DEFINE e == job.entries[job.done + 1]
  <2>3. RowsStored'
    <3>1. CASE UNCHANGED servers
      BY <1>1, <3>1 DEF RowsStored
    <3>2. ASSUME NEW v \in Taken(e),
                 AddRow(job.site, [name |-> e.name, mode |-> e.mode, secret |-> v])
          PROVE  RowsStored'
      <4>1. Stored(job.site, [name |-> e.name, mode |-> e.mode, secret |-> v])
        BY <1>1, <2>1, <2>2, TakenIsStored
      <4> QED
        BY <1>1, <2>2, <3>2, <4>1, AddedRowIsStored DEF Import
    <3> QED
      BY <1>6, <3>1, <3>2 DEF ImportEntry
  <2>4. JobCarried'
    <3>1. \/ job' = [job EXCEPT !.done = job.done + 1]
          \/ job' = [job EXCEPT !.done = job.done + 1, !.failed = @ \cup {job.done + 1}]
      BY <1>6 DEF ImportEntry
    <3>2. job' \in Import /\ job'.entries = job.entries /\ job'.done = job.done + 1
      <4>1. CASE job' = [job EXCEPT !.done = job.done + 1]
        BY <2>2, <4>1 DEF Import
      <4>2. CASE job' = [job EXCEPT !.done = job.done + 1, !.failed = @ \cup {job.done + 1}]
        <5>1. job.done + 1 \in Nat /\ job.failed \cup {job.done + 1} \in SUBSET Nat
          BY <2>2 DEF Import
        <5> QED
          BY <2>2, <4>2, <5>1 DEF Import
      <4> QED
        BY <3>1, <4>1, <4>2
    <3>3. job'.done <= Len(job'.entries)
      BY <2>1, <2>2, <3>2 DEF Import
    <3> QED
      BY <1>1, <2>1, <3>2, <3>3 DEF JobCarried
  <2> QED
    BY <1>1, <1>6, <2>3, <2>4 DEF ImportEntry, Inv, FileCarried
<1>7. CASE ImportEnd \/ ImportCut
  BY <1>1, <1>7 DEF ImportEnd, ImportCut, Inv, RowsStored, FileCarried, JobCarried
<1>8. CASE UNCHANGED vars
  BY <1>1, <1>8 DEF vars, Inv, RowsStored, FileCarried, JobCarried
<1> QED
  BY <1>2, <1>3, <1>4, <1>5, <1>6, <1>7, <1>8 DEF Next

(* Rows, files and the import under way keep their types.                   *)
THEOREM BackupTypeCorrect == Spec => []TypeOK
<1>1. Inv => TypeOK
  <2> SUFFICES ASSUME Inv PROVE TypeOK
    OBVIOUS
  <2>1. \A s \in Sites : /\ Len(servers[s]) <= MaxRows
                         /\ \A i \in DOMAIN servers[s] : servers[s][i] \in Row
    BY DEF Inv, RowsStored, Stored
  <2>2. CASE job = NoImport
    BY <2>1, <2>2 DEF TypeOK, NoImport
  <2>3. CASE job # NoImport
    BY <2>1, <2>3 DEF TypeOK, Inv, JobCarried, Import
  <2> QED
    BY <2>2, <2>3
<1> QED
  BY <1>1, InvInit, InvStep, PTL DEF Spec

(* A secret under the key of its installation alone can be used there.       *)
LEMMA OneLayerIsUsable ==
  ASSUME NEW s \in Sites, NEW r \in Row, r.secret.under = <<MasterKey[s]>>
  PROVE  Usable(s, r)
<1>1. r.secret \in Value
  BY DEF Row
<1>2. CanDecrypt(MasterKey[s], r.secret) /\ Tail(r.secret.under) = <<>>
  BY Layers DEF CanDecrypt
<1> QED
  <2>1. Decrypt(MasterKey[s], r.secret) = [of |-> r.secret.of, under |-> <<>>]
    BY <1>1, <1>2, Decrypted
  <2> QED
    BY <1>2, <2>1 DEF Usable

(* The rows of one mode are stored rows of that mode.                        *)
LEMMA RowsAreStored ==
  ASSUME Inv, NEW s \in Sites, NEW m, NEW r \in Rows(s, m)
  PROVE  Stored(s, r) /\ r.mode = m
BY DEF Inv, RowsStored, Rows

(* The SSH key of a direct server is under the MASTER_KEY of the            *)
(* installation that stores it, and nothing else.                           *)
THEOREM SshKeysStayUsable == Spec => []SshKeysUsable
<1>1. Inv => SshKeysUsable
  <2> SUFFICES ASSUME Inv, NEW s \in Sites, NEW r \in Rows(s, "direct") PROVE Usable(s, r)
    BY DEF SshKeysUsable
  <2>1. r \in Row /\ r.secret.under = <<MasterKey[s]>>
    BY RowsAreStored DEF Stored, StoredUnder
  <2> QED
    BY <2>1, OneLayerIsUsable
<1> QED
  BY <1>1, InvInit, InvStep, PTL DEF Spec

(***************************************************************************)
(* What an import has restored.                                            *)
(***************************************************************************)
Restored ==
  job # NoImport /\ job.withKeys =>
    job.from <= Len(servers[job.site]) /\ RowOfEach(job.done)

(* No step takes a row away, or changes one.                                *)
LEMMA RowsStay ==
  ASSUME Inv, [Next]_vars, NEW s \in Sites
  PROVE  /\ Len(servers[s]) <= Len(servers'[s])
         /\ \A k \in DOMAIN servers[s] : k \in DOMAIN servers'[s] /\ servers'[s][k] = servers[s][k]
<1>1. servers \in [Sites -> Seq(Row)]
  BY DEF Inv, RowsStored
<1>2. UNCHANGED servers \/ \E t \in Sites : \E r : servers' = [servers EXCEPT ![t] = Append(@, r)]
  <2>1. CASE ImportEntry
    <3>1. job.site \in Sites
      BY <2>1 DEF ImportEntry, Inv, JobCarried, Import, NoImport
    <3> QED
      BY <2>1, <3>1 DEF ImportEntry, AddRow
  <2>2. CASE \E t \in Sites : CreateServer(t)
    BY <2>2 DEF CreateServer, AddRow
  <2> QED
    BY <2>1, <2>2 DEF Next, ExportConfig, ImportConfig, WriteByHand, ImportEnd, ImportCut, vars
<1>3. servers[s] \in Seq(Row) /\ (servers'[s] = servers[s] \/ \E r : servers'[s] = Append(servers[s], r))
  BY <1>1, <1>2
<1> QED
  BY <1>3

(* The rows of the entries so far stay theirs when the import does not move. *)
LEMMA RestoredStands ==
  ASSUME Inv, Restored, [Next]_vars, UNCHANGED job
  PROVE  Restored'
<1> SUFFICES ASSUME job # NoImport, job.withKeys
             PROVE  job.from <= Len(servers'[job.site]) /\ RowOfEach(job.done)'
  BY DEF Restored
<1>1. job \in Import /\ job.site \in Sites /\ Len(servers[job.site]) \in Nat
  BY DEF Inv, JobCarried, Import, RowsStored
<1>2. PICK rowOf \in [Good(job.done) -> DOMAIN servers[job.site]] :
        IsInjective(rowOf) /\ \A i \in Good(job.done) : Holds(rowOf[i], i)
  BY DEF Restored, RowOfEach
<1>3. Good(job.done)' = Good(job.done)
  BY DEF Good, Opens, HasEncrypted
<1>4. /\ Len(servers[job.site]) <= Len(servers'[job.site])
      /\ \A k \in DOMAIN servers[job.site] :
           k \in DOMAIN servers'[job.site] /\ servers'[job.site][k] = servers[job.site][k]
  BY <1>1, RowsStay
<1>5. rowOf \in [Good(job.done) -> DOMAIN servers'[job.site]]
  BY <1>2, <1>4
<1>6. \A i \in Good(job.done) : Holds(rowOf[i], i)'
  BY <1>2, <1>4 DEF Holds
<1>7. RowOfEach(job.done)'
  BY <1>2, <1>3, <1>5, <1>6 DEF RowOfEach
<1>8. job.from <= Len(servers'[job.site])
  <2>1. servers' \in [Sites -> Seq(Row)]
    BY InvStep DEF Inv, RowsStored
  <2>2. Len(servers'[job.site]) \in Nat /\ job.from \in Nat
    BY <1>1, <2>1 DEF Import
  <2> QED
    BY <1>1, <1>4, <2>2 DEF Restored
<1> QED
  BY <1>7, <1>8

(* An entry that opens is taken with its own secret.                         *)
LEMMA OpenedIsTaken ==
  ASSUME NEW e, Carried(e), Opens(e), job.withKeys
  PROVE  Taken(e) # {} /\ \A v \in Taken(e) : v.of = e.secret.of
<1>1. HasEncrypted(e) /\ e.secret \in Value
  BY DEF Opens, Carried, Entry
<1>2. Opened(e) = [of |-> e.secret.of, under |-> Tail(e.secret.under)]
  BY <1>1, Decrypted DEF Opened
<1>3. Taken(e) = {Opened(e)} \/ Taken(e) = {Own(Opened(e))}
  BY <1>1 DEF Taken, GsSecret, SshKey
<1>4. Own(Opened(e)).of = e.secret.of /\ Opened(e).of = e.secret.of
  BY <1>2 DEF Own, Encrypt
<1> QED
  BY <1>3, <1>4

(* An entry that is dealt with has its row, or failed, or did not open.      *)
LEMMA RestoredEntry ==
  ASSUME Inv, Restored, ImportEntry
  PROVE  Restored'
<1>1. job # NoImport /\ job.done < Len(job.entries)
  BY DEF ImportEntry, NoImport
<1>n. PICK n, s, e : n = job.done /\ s = job.site /\ e = job.entries[n + 1]
  OBVIOUS
<1>2. /\ job \in Import /\ n \in Nat /\ n + 1 \in DOMAIN job.entries /\ Carried(e)
      /\ s \in Sites /\ servers[s] \in Seq(Row)
      /\ servers \in [Sites -> Seq(Row)] /\ job.from \in Nat
  BY <1>1, <1>n DEF Inv, JobCarried, Import, RowsStored
<1>3. /\ job'.site = s /\ job'.entries = job.entries /\ job'.done = n + 1
      /\ job'.withKeys = job.withKeys /\ job'.password = job.password /\ job'.from = job.from
      /\ job'.failed = job.failed \/ job'.failed = job.failed \cup {n + 1}
  <2>1. \/ job' = [job EXCEPT !.done = n + 1]
        \/ job' = [job EXCEPT !.done = n + 1, !.failed = @ \cup {n + 1}]
    BY <1>n DEF ImportEntry
  <2> QED
    BY <1>2, <1>n, <2>1 DEF Import
<1> SUFFICES ASSUME job.withKeys
             PROVE  job.from <= Len(servers'[s]) /\ RowOfEach(n + 1)'
  BY <1>3, <1>n DEF Restored
<1>4. PICK rowOf \in [Good(n) -> DOMAIN servers[s]] :
        IsInjective(rowOf) /\ \A i \in Good(n) : Holds(rowOf[i], i)
  BY <1>1, <1>n DEF Restored, RowOfEach
<1>5. \A i : Opens(job.entries[i])' <=> Opens(job.entries[i])
  BY <1>3 DEF Opens, HasEncrypted
<1>6. /\ \A i \in Good(n + 1)' : i \in Good(n) \/ i = n + 1
      /\ n + 1 \in Good(n + 1)' => Opens(e) /\ n + 1 \notin job'.failed
  BY <1>2, <1>3, <1>5, <1>n DEF Good
<1>8. job.from <= Len(servers[s]) /\ Len(servers[s]) \in Nat
  BY <1>1, <1>2, <1>n DEF Restored
<1>9. CASE UNCHANGED servers /\ n + 1 \notin Good(n + 1)'
  <2>0. PICK f : f = [i \in Good(n + 1)' |-> rowOf[i]]
    OBVIOUS
  <2>1. \A i \in Good(n + 1)' : i \in Good(n)
    BY <1>6, <1>9
  <2>2. f \in [Good(n + 1)' -> DOMAIN servers'[s]] /\ \A i \in Good(n + 1)' : f[i] = rowOf[i]
    BY <1>4, <1>9, <2>0, <2>1
  <2>3. IsInjective(f)
    BY <1>4, <2>1, <2>2 DEF IsInjective
  <2>4. \A i \in Good(n + 1)' : Holds(f[i], i)'
    BY <1>3, <1>4, <1>9, <1>n, <2>1, <2>2 DEF Holds
  <2>5. RowOfEach(n + 1)'
    BY <1>3, <2>2, <2>3, <2>4 DEF RowOfEach
  <2> QED
    BY <1>8, <1>9, <2>5
<1>10. ASSUME NEW v \in Taken(e), AddRow(s, [name |-> e.name, mode |-> e.mode, secret |-> v])
       PROVE  job.from <= Len(servers'[s]) /\ RowOfEach(n + 1)'
  <2> DEFINE r == [name |-> e.name, mode |-> e.mode, secret |-> v]
             last == Len(servers[s]) + 1
  <2>0. PICK f : f = [i \in Good(n + 1)' |-> IF i = n + 1 THEN last ELSE rowOf[i]]
    OBVIOUS
  <2>1. servers'[s] = Append(servers[s], r)
    BY <1>2, <1>10 DEF AddRow
  <2>2. /\ Len(servers'[s]) = last /\ last \in DOMAIN servers'[s] /\ servers'[s][last] = r
        /\ \A k \in DOMAIN servers[s] :
             k \in DOMAIN servers'[s] /\ servers'[s][k] = servers[s][k] /\ k # last
    <3> HIDE DEF r
    <3> QED
      BY <1>2, <2>1
  <2>3. \A i \in Good(n + 1)' :
          /\ i = n + 1 => f[i] = last
          /\ i # n + 1 => i \in Good(n) /\ f[i] = rowOf[i] /\ rowOf[i] \in DOMAIN servers[s]
    BY <1>4, <1>6, <2>0
  <2>4. DOMAIN f = Good(n + 1)' /\ f = [i \in Good(n + 1)' |-> f[i]]
    BY <2>0
  <2>5. n + 1 \in Good(n + 1)' => v.of = e.secret.of
    BY <1>2, <1>6, OpenedIsTaken
  <2>6. r.name = e.name /\ r.mode = e.mode /\ r.secret = v
    OBVIOUS
  <2> HIDE DEF r, last
  <2>7. f \in [Good(n + 1)' -> DOMAIN servers'[s]]
    BY <2>2, <2>3, <2>4
  <2>8. IsInjective(f)
    <3> SUFFICES ASSUME NEW a \in Good(n + 1)', NEW b \in Good(n + 1)', f[a] = f[b]
                 PROVE  a = b
      BY <2>4 DEF IsInjective
    <3>1. CASE a = n + 1 \/ b = n + 1
      BY <2>2, <2>3, <3>1
    <3>2. CASE a # n + 1 /\ b # n + 1
      BY <1>4, <2>3, <3>2 DEF IsInjective
    <3> QED
      BY <3>1, <3>2
  <2>9. \A i \in Good(n + 1)' : Holds(f[i], i)'
    <3> SUFFICES ASSUME NEW i \in Good(n + 1)' PROVE Holds(f[i], i)'
      OBVIOUS
    <3>1. CASE i = n + 1
      <4>1. f[i] = last /\ job'.entries[i] = e /\ last > job.from
        BY <1>2, <1>3, <1>8, <1>n, <2>3, <3>1 DEF last
      <4> QED
        BY <1>3, <2>2, <2>5, <2>6, <3>1, <4>1 DEF Holds
    <3>2. CASE i # n + 1
      BY <1>3, <1>4, <1>n, <2>2, <2>3, <3>2 DEF Holds
    <3> QED
      BY <3>1, <3>2
  <2>10. RowOfEach(n + 1)'
    BY <1>3, <2>7, <2>8, <2>9 DEF RowOfEach
  <2> QED
    BY <1>2, <1>8, <2>2, <2>10 DEF last
<1>11. \/ UNCHANGED servers /\ n + 1 \notin Good(n + 1)'
       \/ \E v \in Taken(e) : AddRow(s, [name |-> e.name, mode |-> e.mode, secret |-> v])
  <2>1. CASE Taken(e) = {} /\ UNCHANGED servers
    BY <1>2, <1>6, <2>1, OpenedIsTaken
  <2>2. CASE job' = [job EXCEPT !.done = n + 1, !.failed = @ \cup {n + 1}] /\ UNCHANGED servers
    <3>1. n + 1 \in job'.failed
      BY <1>2, <2>2 DEF Import
    <3> QED
      BY <1>6, <2>2, <3>1
  <2> QED
    BY <1>n, <2>1, <2>2 DEF ImportEntry
<1> QED
  BY <1>9, <1>10, <1>11

(* Restored is inductive: what the import under way has passed is there.     *)
LEMMA RestoredStep == Inv /\ Restored /\ [Next]_vars => Restored'
<1> SUFFICES ASSUME Inv, Restored, [Next]_vars PROVE Restored'
  OBVIOUS
<1>1. CASE UNCHANGED job
  BY <1>1, RestoredStands
<1>2. CASE ImportEntry
  BY <1>2, RestoredEntry
<1>3. ASSUME NEW s \in Sites, NEW k \in BOOLEAN, NEW pw \in Passwords, ImportConfig(s, k, pw)
      PROVE  Restored'
  <2>1. /\ job'.site = s /\ job'.done = 0 /\ job'.from = Len(servers[s])
        /\ servers' = servers /\ Len(servers[s]) \in Nat
    BY <1>3 DEF ImportConfig, Inv, RowsStored
  <2>2. Good(0)' = {}
    BY DEF Good
  <2>3. RowOfEach(0)'
    <3> DEFINE f == [i \in {} |-> 0]
    <3>1. f \in [{} -> DOMAIN servers'[s]] /\ IsInjective(f)
      BY DEF IsInjective
    <3> QED
      BY <2>1, <2>2, <3>1 DEF RowOfEach
  <2> QED
    BY <2>1, <2>3 DEF Restored
<1>4. CASE ImportEnd \/ ImportCut
  BY <1>4 DEF ImportEnd, ImportCut, Restored
<1> QED
  BY <1>1, <1>2, <1>3, <1>4 DEF Next, CreateServer, ExportConfig, WriteByHand, vars

(* When an import with keys ends, every server the password opens and whose *)
(* INSERT did not fail has a row of its own, made since the import began.    *)
THEOREM ImportsRestore == Spec => ImportRestores
<1>1. Init => Inv /\ Restored
  BY InvInit DEF Init, Restored
<1>2. Inv /\ Restored /\ [Next]_vars => (Inv /\ Restored)'
  BY InvStep, RestoredStep
<1>3. Inv /\ Restored => (ImportEnd /\ job.withKeys => RowOfEach(Len(job.entries)))
  BY DEF Restored, ImportEnd
<1> QED
  BY <1>1, <1>2, <1>3, PTL DEF Spec, ImportRestores
=============================================================================
