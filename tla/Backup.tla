--------------------------------- MODULE Backup ---------------------------------
(***************************************************************************)
(* Export and import of server configurations between installations of     *)
(* SynCent, and the layers of encryption a secret passes through: each     *)
(* installation keeps its secrets under its own MASTER_KEY, a backup with  *)
(* keys carries them under an export password.  ImportConfig inserts the   *)
(* servers one by one, outside any transaction.                            *)
(*                                                                         *)
(* A secret is the SSH key of a direct server or the gs-netcat secret of a *)
(* gsocket server.  A value that is stored or written to a file is a       *)
(* secret under a sequence of keys, the outermost first.                   *)
(***************************************************************************)
EXTENDS SequencesExt, Naturals

CONSTANTS
  Sites,       \* installations
  MasterKey,   \* [Sites -> keys]: MASTER_KEY
  Passwords,   \* export passwords users type
  Names,       \* names of servers
  ByHand,      \* TRUE: files may be written from the sample configuration
  MaxRows      \* bound: servers per installation; at it, no row is added

ASSUME KeysAssumption == Passwords \cap {MasterKey[s] : s \in Sites} = {}
ASSUME RowsAssumption == MaxRows \in Nat /\ ByHand \in BOOLEAN

VARIABLES
  servers,  \* [Sites -> Seq(Row)]: the table servers
  file,     \* the backup at hand
  job       \* the ImportConfig that is running; history: the rows there were
            \* when it began (from), the entries whose INSERT failed (failed)

vars == <<servers, file, job>>

Modes == {"direct", "gsocket"}
Value == [of : Names \cup {"new"}, under : Seq(Passwords \cup {MasterKey[s] : s \in Sites})]
Row   == [name : Names, mode : Modes, secret : Value]

Plain(n)        == [of |-> n, under |-> <<>>]
Encrypt(k, v)   == [v EXCEPT !.under = <<k>> \o @]
CanDecrypt(k, v) == v.under # <<>> /\ Head(v.under) = k
Decrypt(k, v)   == [v EXCEPT !.under = Tail(@)]

(* A field that is not in the file, and the password of a file without keys. *)
Absent   == [of |-> "new", under |-> <<>>]
NoFile   == [entries |-> <<>>, password |-> "none"]
NoImport == [site |-> "none", entries |-> <<>>, done |-> 0, withKeys |-> FALSE, password |-> "none",
             from |-> 0, failed |-> {}]

Init ==
  /\ servers = [s \in Sites |-> <<>>]
  /\ file = NoFile
  /\ job = NoImport

AddRow(s, r) ==
  /\ Len(servers[s]) < MaxRows
  /\ servers' = [servers EXCEPT ![s] = Append(@, r)]

(* CreateServer makes a new key, or takes the secret the user types.        *)
CreateServer(s) ==
  /\ \E n \in Names, m \in Modes :
       AddRow(s, [name |-> n, mode |-> m, secret |-> Encrypt(MasterKey[s], Plain(n))])
  /\ UNCHANGED <<file, job>>

-----------------------------------------------------------------------------
(* What an export with keys writes for a row: the SSH key is decrypted with *)
(* MASTER_KEY first, the gs-netcat secret is not.                           *)
ExportedSecret(s, r, pw) ==
  IF r.mode = "gsocket" THEN Encrypt(pw, r.secret)
  ELSE IF CanDecrypt(MasterKey[s], r.secret)
  THEN Encrypt(pw, Decrypt(MasterKey[s], r.secret)) ELSE Absent

ExportConfig(s, withKeys, pw) ==
  /\ servers[s] # <<>>
  /\ file' = [password |-> IF withKeys THEN pw ELSE "none",
              entries  |-> [i \in DOMAIN servers[s] |->
                LET r == servers[s][i]
                IN [name |-> r.name, mode |-> r.mode, plainGs |-> FALSE,
                    secret |-> IF withKeys THEN ExportedSecret(s, r, pw) ELSE Absent]]]
  /\ UNCHANGED <<servers, job>>

(* The sample file, filled in: gsocket_secret stands there as it is.        *)
WriteByHand ==
  /\ ByHand
  /\ \E n \in Names, m \in Modes :
       file' = [password |-> "none",
                entries |-> <<[name |-> n, mode |-> m, plainGs |-> m = "gsocket",
                               secret |-> IF m = "gsocket" THEN Plain(n) ELSE Absent]>>]
  /\ UNCHANGED <<servers, job>>

-----------------------------------------------------------------------------
ImportConfig(s, withKeys, pw) ==
  /\ job = NoImport
  /\ file.entries # <<>>
  /\ Len(servers[s]) + Len(file.entries) <= MaxRows
  /\ job' = [site |-> s, entries |-> file.entries, done |-> 0,
             withKeys |-> withKeys, password |-> pw, from |-> Len(servers[s]), failed |-> {}]
  /\ UNCHANGED <<servers, file>>

Own(v)          == Encrypt(MasterKey[job.site], v)
HasEncrypted(e) == e.secret # Absent /\ ~e.plainGs
Opens(e)        == HasEncrypted(e) /\ CanDecrypt(job.password, e.secret)
Opened(e)       == Decrypt(job.password, e.secret)

(* What is stored for a gsocket server: the secret as it comes out of the   *)
(* file.  Nothing (the entry is passed over) when it does not open.         *)
GsSecret(e) ==
  IF job.withKeys /\ HasEncrypted(e) THEN (IF Opens(e) THEN {Opened(e)} ELSE {})
  ELSE {v \in {e.secret} : e.plainGs}

(* Mutant: the opened key is stored without MASTER_KEY.                     *)
SshKeyAsIs(e) ==
  IF job.withKeys THEN (IF Opens(e) THEN {Opened(e)} ELSE {})
  ELSE {Own(Plain("new"))}

(* For a direct server: its key, encrypted anew; without keys a new one.    *)
SshKey(e) ==
  IF job.withKeys THEN (IF Opens(e) THEN {Own(Opened(e))} ELSE {})
  ELSE {Own(Plain("new"))}

(* Mutant: with keys, only encrypted_key is looked at.                      *)
TakenKeysFirst(e) ==
  IF job.withKeys THEN {v \in SshKey(e) : e.mode = "direct"}
  ELSE IF e.mode = "gsocket" THEN GsSecret(e) ELSE SshKey(e)

Taken(e) == IF e.mode = "gsocket" THEN GsSecret(e) ELSE SshKey(e)

(* An entry without a secret is passed over.  So is one whose INSERT fails: *)
(* the loop goes on, and neither imported nor skippedKeys counts it.        *)
ImportEntry ==
  /\ job.done < Len(job.entries)
  /\ LET i == job.done + 1
         e == job.entries[i]
     IN \/ /\ Taken(e) = {}
           /\ job' = [job EXCEPT !.done = i]
           /\ UNCHANGED servers
        \/ /\ \E v \in Taken(e) : AddRow(job.site, [name |-> e.name, mode |-> e.mode, secret |-> v])
           /\ job' = [job EXCEPT !.done = i]
        \/ /\ Taken(e) # {}
           /\ job' = [job EXCEPT !.done = i, !.failed = @ \cup {i}]
           /\ UNCHANGED servers
  /\ UNCHANGED file

(* The answer: the request is over.                                         *)
ImportEnd ==
  /\ job # NoImport /\ job.done = Len(job.entries)
  /\ job' = NoImport
  /\ UNCHANGED <<servers, file>>

(* The request is cancelled or the process ends: what is inserted stays.    *)
ImportCut ==
  /\ job # NoImport /\ job.done < Len(job.entries)
  /\ job' = NoImport
  /\ UNCHANGED <<servers, file>>

Next ==
  \/ \E s \in Sites : CreateServer(s)
  \/ \E s \in Sites, k \in BOOLEAN, pw \in Passwords :
       ExportConfig(s, k, pw) \/ ImportConfig(s, k, pw)
  \/ WriteByHand \/ ImportEntry \/ ImportEnd \/ ImportCut

Spec == Init /\ [][Next]_vars
-----------------------------------------------------------------------------
TypeOK ==
  /\ \A s \in Sites : Len(servers[s]) <= MaxRows /\ \A i \in DOMAIN servers[s] : servers[s][i] \in Row
  /\ job.site \in Sites \cup {"none"} /\ job.done \in 0 .. Len(job.entries)

Usable(s, r) == CanDecrypt(MasterKey[s], r.secret) /\ Decrypt(MasterKey[s], r.secret).under = <<>>

Rows(s, m) == {servers[s][i] : i \in {j \in DOMAIN servers[s] : servers[s][j].mode = m}}

(* Whatever passwords are typed and however often a key moves between        *)
(* installations with different MASTER_KEYs, the SSH key stored with a       *)
(* direct server can be used by the installation that stores it.             *)
SshKeysUsable == \A s \in Sites : \A r \in Rows(s, "direct") : Usable(s, r)

(* The entries of the import that its password opens and whose INSERT did   *)
(* not fail, among the first n.                                             *)
Good(n) == {i \in 1 .. n : i \in DOMAIN job.entries /\ Opens(job.entries[i]) /\ i \notin job.failed}

(* Row k is one this import can have added, and it holds entry i.           *)
Holds(k, i) ==
  LET r == servers[job.site][k]
      e == job.entries[i]
  IN k > job.from /\ r.name = e.name /\ r.mode = e.mode /\ r.secret.of = e.secret.of

RowOfEach(n) ==
  \E rowOf \in [Good(n) -> DOMAIN servers[job.site]] :
    /\ IsInjective(rowOf)
    /\ \A i \in Good(n) : Holds(rowOf[i], i)

(* An import with keys that runs to its end, whatever else is added beside   *)
(* it, has made a row of its own, with its own secret, of every server of    *)
(* the file that the password opens, except those whose INSERT failed.  Rows *)
(* from before the import do not count, nor does one row for two entries.    *)
ImportRestores ==
  [][ImportEnd /\ job.withKeys => RowOfEach(Len(job.entries))]_vars
=============================================================================
