---------------------------- MODULE Credentials ----------------------------
(***************************************************************************)
(* ~/.docker/config.json while it is shared: CredentialStore::save of      *)
(* ocirender-cli/src/registry/credentials.rs, run by `ocirender login`,    *)
(* beside other logins and other tools.  save reads the whole document,    *)
(* sets one entry of it and writes it over the file: nothing is locked,    *)
(* and the file is emptied before it is written.                           *)
(***************************************************************************)
EXTENDS CredentialStore, Integers, FiniteSets

CONSTANTS
  Files,       \* what the file may be at first: Absent or documents
  Logins,      \* processes, each of which saves once
  LoginTo,     \* the registry each of them logs in to
  EditHosts,   \* the entries other tools set
  MaxWriters   \* bound on the logins and the changes by other tools

ASSUME LoginAssumption ==
  /\ MaxWriters \in Nat
  /\ Files \subseteq {Absent} \cup {Document(a, 0) : a \in Entries}
  /\ EditHosts \subseteq Hosts
  /\ LoginTo \in [Logins -> Hosts \ {Legacy}]

VARIABLES
  file,        \* config.json: Absent, Empty, Garbled or a Document
  login,       \* per login: where it is, its host and account, its document
  edits,       \* what other tools have done
  expected,    \* history: the document if every save were one step
  disturbed    \* history: writers overlapped, or one was stopped in its write

fileVars == <<file, login, edits, expected, disturbed>>

Waiting == [step |-> "waiting", account |-> NoAccount, document |-> EmptyDocument,
            open |-> FALSE]

FileInit ==
  /\ file \in Files
  /\ login = [p \in Logins |-> Waiting]
  /\ edits = 0
  /\ expected = IF file = Absent THEN EmptyDocument ELSE file
  /\ disturbed = FALSE

InStep(p, step) == login[p].step = step
Step(p, state) == login' = [login EXCEPT ![p] = state]
Writers == edits + Cardinality({p \in Logins : ~InStep(p, "waiting")})
Busy == {p \in Logins : login[p].step \in {"read", "writing"}}

----------------------------------------------------------------------------
(* save. *)

Readable == file.kind \in {"absent", "document"}

(* The file is read and parsed. *)
Read(p, account) ==
  /\ InStep(p, "waiting") /\ Writers < MaxWriters
  /\ Readable
  /\ Step(p, [Waiting EXCEPT !.step = "read", !.account = account,
       !.document = IF file.kind = "document" THEN file ELSE EmptyDocument])
  /\ disturbed' = (disturbed \/ Busy # {})
  /\ UNCHANGED <<file, edits, expected>>

(* What is not a document is an error: the file is left as it is. *)
ReadFails(p) ==
  /\ InStep(p, "waiting") /\ Writers < MaxWriters
  /\ ~Readable
  /\ Step(p, [Waiting EXCEPT !.step = "failed"])
  /\ UNCHANGED <<file, edits, expected, disturbed>>

(* Mutant: the document is made of the new entry alone. *)
OnlyEntry(p) ==
  Document([EmptyStore EXCEPT ![LoginTo[p]] = login[p].account], 0)

Saved(p) == [login[p].document EXCEPT !.auths[LoginTo[p]] = login[p].account]

(* fs::write opens the file and empties it. *)
Truncate(p) ==
  /\ InStep(p, "read")
  /\ file' = Empty
  /\ Step(p, [login[p] EXCEPT !.step = "writing", !.open = TRUE])
  /\ UNCHANGED <<edits, expected, disturbed>>

(* The whole document is written from the start of the open file: over     *)
(* another login's, whose tail stays if it is longer, or into a file that  *)
(* another tool has replaced since.                                        *)
WriteOut(p) ==
  /\ InStep(p, "writing")
  /\ file' \in IF ~login[p].open THEN {file}
               ELSE {Saved(p)} \cup IF file = Empty THEN {} ELSE {Garbled}
  /\ Step(p, [login[p] EXCEPT !.step = "saved"])
  /\ expected' = [expected EXCEPT !.auths[LoginTo[p]] = login[p].account]
  /\ UNCHANGED <<edits, disturbed>>

(* The disk is full, or the process is killed: after all or a part or      *)
(* nothing of the document.  One killed before it writes only stops.       *)
Stopped(p) ==
  /\ InStep(p, "writing")
  /\ file' \in {file} \cup IF login[p].open THEN {Garbled} ELSE {}
  /\ Step(p, [login[p] EXCEPT !.step = "stopped"])
  /\ disturbed' = TRUE
  /\ UNCHANGED <<edits, expected>>

(* Another tool that has read a document puts a changed one in its place:  *)
(* an entry, under its own key for Docker Hub perhaps, and other fields.   *)
Edit ==
  /\ Writers < MaxWriters /\ file.kind = "document"
  /\ edits' = edits + 1
  /\ \E h \in EditHosts : \E a \in AccountsOf[h] :
       file' = [file EXCEPT !.auths[h] = a, !.rest = edits']
  /\ login' = [p \in Logins |-> [login[p] EXCEPT !.open = FALSE]]
  /\ expected' = file'
  /\ disturbed' = (disturbed \/ Busy # {})

Save(p) == Truncate(p) \/ WriteOut(p)

FileNext ==
  \/ Edit
  \/ \E p \in Logins :
       \/ \E a \in AccountsOf[LoginTo[p]] : Read(p, a)
       \/ ReadFails(p) \/ Save(p) \/ Stopped(p)

----------------------------------------------------------------------------
(* Properties. *)

(* Every variable has its type. *)
Documents == [kind : {"document"}, auths : Entries, rest : 0..MaxWriters]

FileTypeOK ==
  /\ file \in {Absent, Empty, Garbled} \cup Documents
  /\ \A p \in Logins :
       /\ login[p].step \in {"waiting", "read", "writing", "saved", "failed", "stopped"}
       /\ login[p].account \in Accounts \cup {NoAccount}
       /\ login[p].document \in Documents
       /\ login[p].open \in BOOLEAN
  /\ edits \in 0..MaxWriters
  /\ expected \in Documents
  /\ disturbed \in BOOLEAN

(* While no two writers overlap and none is stopped in the middle of its   *)
(* write, the file holds all that was put into it between two writes:      *)
(* every login that returned, what other tools added, and the fields and   *)
(* entries ocirender does not read.                                        *)
SavesKept ==
  ~disturbed /\ (\A p \in Logins : ~InStep(p, "writing"))
    => file = expected \/ (file = Absent /\ expected = EmptyDocument)

----------------------------------------------------------------------------
(* A statement of the source that some schedule contradicts. *)

(* Fields of config.json that ocirender does not know are preserved when   *)
(* it writes, so that what other tools keep there is not disturbed.        *)
RestPreserved ==
  [][\A p \in Logins : login'[p].step = "saved" /\ file'.kind = "document"
       => file'.rest = expected.rest]_fileVars
=============================================================================
