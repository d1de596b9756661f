----------------------------- MODULE AuthProofs -----------------------------
(***************************************************************************)
(* Proofs about Auth, for any logins, tasks, names and accounts.           *)
(*                                                                         *)
(* The invariant of the file says whose accounts are where: every entry,   *)
(* in the file and in the document a login has read, is one of its own     *)
(* registry.  The invariant of the tokens says what the tasks and the      *)
(* cache hold: numbers of tokens issued for the key they are held under.   *)
(* The lemmas on names say how a name that was typed is read.              *)
(***************************************************************************)
EXTENDS Auth, SequenceTheorems, WellFoundedInduction, TLAPS

Docs == [kind : {"document"}, auths : Entries, rest : Nat]

LoginStates ==
  [step : {"waiting", "read", "writing", "saved", "failed", "stopped"},
   account : Accounts \cup {NoAccount}, document : Docs, open : BOOLEAN]

FileInv ==
  /\ file \in {Absent, Empty, Garbled} \cup Docs
  /\ edits \in Nat
  /\ login \in [Logins -> LoginStates]
  /\ \A p \in Logins : login[p].account \in AccountsOf[LoginTo[p]] \cup {NoAccount}

TaskStates ==
  [step : {"idle", "challenged", "fetch", "store", "retry", "ok", "failed"},
   key : Keys \cup {NoKey}, token : Nat,
   realm : Realms \cup {NoRealm}]

IssuedFor(tokens, n, key) == n \in 1..Len(tokens) /\ tokens[n] = key

(* What a task holds is of its own request: the token it has fetched or    *)
(* found, and the realm that the server it asks has named.                 *)
Fits(s) ==
  /\ s.step # "idle" => store # NoStore /\ s.key \in Keys
  /\ s.step \in {"store", "retry"} => IssuedFor(issued, s.token, s.key)
  /\ s.step \in {"challenged", "fetch"} => s.realm \in RealmsOf[BaseUrl(s.key.registry)]

TokenInv ==
  /\ store \in Stores \cup {NoStore} /\ mirror \in Mirrors \cup {NoMirror}
  /\ store = NoStore => sent = {}
  /\ issued \in Seq(Keys)
  /\ task \in [Tasks -> TaskStates]
  /\ cache \in [Keys -> Nat]
  /\ \A t \in Tasks : Fits(task[t])
  /\ \A k \in Keys : cache[k] # NoToken => IssuedFor(issued, cache[k], k)
  /\ OwnAccount

(* No writer overlaps another: the one that is busy has read all that the  *)
(* file is to hold, and whoever writes has the file open and empty.        *)
SaveInv ==
  /\ expected \in Docs
  /\ ~disturbed =>
       /\ \A p, q \in Busy : p = q
       /\ \A p \in Busy : login[p].document = expected
       /\ \A p \in Logins : InStep(p, "writing") => file = Empty /\ login[p].open
       /\ SavesKept

IInv == FileInv /\ SaveInv /\ TokenInv

----------------------------------------------------------------------------
(* What the operators on documents and stores return. *)

(* An entry set to an account of its registry leaves a document a document.*)
LEMMA SetEntry ==
  ASSUME NEW d \in Docs, NEW h \in Hosts, NEW a \in AccountsOf[h] \cup {NoAccount}
  PROVE  [d EXCEPT !.auths[h] = a] \in Docs
<1>1. a \in Accounts \cup {NoAccount}
  BY HostsAssumption DEF Accounts
<1> DEFINE e == [d.auths EXCEPT ![h] = a]
<1>2. e \in Entries
  BY <1>1 DEF Docs, Entries
<1>3. [d EXCEPT !.auths[h] = a] = [d EXCEPT !.auths = e]
  BY DEF Docs
<1> QED BY <1>2, <1>3 DEF Docs

LEMMA EmptyDocumentIsDoc == EmptyDocument \in Docs
<1>1. EmptyStore \in Entries
  BY DEF EmptyStore, Entries
<1> QED BY <1>1 DEF EmptyDocument, Document, Docs

(* What load returns of any file is a store. *)
LEMMA LoadIsStore ==
  ASSUME NEW f \in {Absent, Empty, Garbled} \cup Docs
  PROVE  Load(f) \in Stores
<1>1. EmptyStore \in Stores
  BY DEF EmptyStore, Stores
<1>2. CASE f.kind # "document"
  BY <1>1, <1>2 DEF Load
<1>3. CASE f.kind = "document"
  <2>1. f \in Docs
    BY <1>3 DEF Absent, Empty, Garbled
  <2>2. f.auths \in Entries
    BY <2>1 DEF Docs
  <2>3. Load(f) = [h \in Hosts |-> IF f.auths[h] = Undecodable THEN NoAccount ELSE f.auths[h]]
    BY <1>3 DEF Load
  <2> QED BY <2>2, <2>3 DEF Entries, Stores
<1> QED BY <1>2, <1>3

(* What is looked up for a registry is an account of it, or for Docker Hub *)
(* one kept under its old key.                                             *)
LEMMA LookupIsOwn ==
  ASSUME NEW s \in Stores, NEW h \in Hosts
  PROVE  /\ Lookup(s, h) \in Accounts \cup {NoAccount}
         /\ Lookup(s, h) \in {NoAccount} \cup AccountsOf[h]
                               \cup IF h = Hub THEN AccountsOf[Legacy] ELSE {}
  BY HostsAssumption DEF Lookup, Stores

----------------------------------------------------------------------------
(* The file. *)

LEMMA FileInitially == FileInit => FileInv
<1> SUFFICES ASSUME FileInit PROVE FileInv
  OBVIOUS
<1>1. file \in {Absent, Empty, Garbled} \cup Docs
  BY LoginAssumption DEF FileInit, Document, Docs
<1>2. Waiting \in LoginStates
  BY EmptyDocumentIsDoc DEF Waiting, LoginStates
<1>3. login \in [Logins -> LoginStates]
  BY <1>2 DEF FileInit
<1>4. \A p \in Logins : login[p].account = NoAccount
  BY DEF FileInit, Waiting
<1> QED BY <1>1, <1>3, <1>4 DEF FileInv, FileInit

LEMMA FileStep ==
  ASSUME FileInv, FileNext
  PROVE  FileInv'
<1> USE DEF FileInv
<1>1. CASE Edit
  <2>1. PICK h \in EditHosts : \E a \in AccountsOf[h] :
          file' = [file EXCEPT !.auths[h] = a, !.rest = edits']
    BY <1>1 DEF Edit
  <2>2. PICK a \in AccountsOf[h] : file' = [file EXCEPT !.auths[h] = a, !.rest = edits']
    BY <2>1
  <2>3. file \in Docs /\ h \in Hosts /\ edits' \in Nat
    BY <1>1, LoginAssumption DEF Edit, Absent, Empty, Garbled
  <2>4. [file EXCEPT !.auths[h] = a] \in Docs
    BY <2>3, SetEntry
  <2>5. file' = [[file EXCEPT !.auths[h] = a] EXCEPT !.rest = edits']
    BY <2>2
  <2>6. file' \in Docs
    BY <2>3, <2>4, <2>5 DEF Docs
  <2>7. login' \in [Logins -> LoginStates]
    <3>1. \A p \in Logins : [login[p] EXCEPT !.open = FALSE] \in LoginStates
      BY DEF LoginStates
    <3> QED BY <1>1, <3>1 DEF Edit
  <2>8. \A p \in Logins : login'[p].account = login[p].account
    BY <1>1 DEF Edit, LoginStates
  <2> QED BY <2>3, <2>6, <2>7, <2>8
<1>2. ASSUME NEW p \in Logins, NEW a \in AccountsOf[LoginTo[p]], Read(p, a)
      PROVE  FileInv'
  <2> DEFINE d == IF file.kind = "document" THEN file ELSE EmptyDocument
  <2> DEFINE s == [Waiting EXCEPT !.step = "read", !.account = a, !.document = d]
  <2>1. d \in Docs
    BY EmptyDocumentIsDoc DEF Absent, Empty, Garbled
  <2>2. a \in Accounts
    BY HostsAssumption, LoginAssumption DEF Accounts
  <2>3. s \in LoginStates /\ s.account = a
    BY <2>1, <2>2, EmptyDocumentIsDoc DEF LoginStates, Waiting
  <2>4. login' = [login EXCEPT ![p] = s] /\ UNCHANGED <<file, edits>>
    BY <1>2 DEF Read, Step
  <2> QED BY <2>3, <2>4
<1>3. ASSUME NEW p \in Logins, ReadFails(p)
      PROVE  FileInv'
  <2> DEFINE s == [Waiting EXCEPT !.step = "failed"]
  <2>1. s \in LoginStates /\ s.account = NoAccount
    BY EmptyDocumentIsDoc DEF LoginStates, Waiting
  <2>2. login' = [login EXCEPT ![p] = s] /\ UNCHANGED <<file, edits>>
    BY <1>3 DEF ReadFails, Step
  <2> QED BY <2>1, <2>2
<1>4. ASSUME NEW p \in Logins, Truncate(p)
      PROVE  FileInv'
  <2> DEFINE s == [login[p] EXCEPT !.step = "writing", !.open = TRUE]
  <2>1. s \in LoginStates /\ s.account = login[p].account
    BY DEF LoginStates
  <2>2. login' = [login EXCEPT ![p] = s] /\ file' = Empty /\ edits' = edits
    BY <1>4 DEF Truncate, Step
  <2> QED BY <2>1, <2>2
<1>5. ASSUME NEW p \in Logins, WriteOut(p)
      PROVE  FileInv'
  <2> DEFINE s == [login[p] EXCEPT !.step = "saved"]
  <2>1. s \in LoginStates /\ s.account = login[p].account
    BY DEF LoginStates
  <2>2. login[p].document \in Docs /\ LoginTo[p] \in Hosts
    BY LoginAssumption DEF LoginStates
  <2>3. Saved(p) \in Docs
    BY <2>2, SetEntry DEF Saved
  <2>4. file' \in {file, Saved(p), Garbled}
    BY <1>5 DEF WriteOut
  <2>5. login' = [login EXCEPT ![p] = s] /\ edits' = edits
    BY <1>5 DEF WriteOut, Step
  <2> QED BY <2>1, <2>3, <2>4, <2>5
<1>6. ASSUME NEW p \in Logins, Stopped(p)
      PROVE  FileInv'
  <2> DEFINE s == [login[p] EXCEPT !.step = "stopped"]
  <2>1. s \in LoginStates /\ s.account = login[p].account
    BY DEF LoginStates
  <2>2. file' \in {file, Garbled} /\ login' = [login EXCEPT ![p] = s] /\ edits' = edits
    BY <1>6 DEF Stopped, Step
  <2> QED BY <2>1, <2>2
<1> QED BY <1>1, <1>2, <1>3, <1>4, <1>5, <1>6 DEF FileNext, Save

----------------------------------------------------------------------------
(* The saves. *)

LEMMA SavesInitially == FileInit => SaveInv
<1> SUFFICES ASSUME FileInit PROVE SaveInv
  OBVIOUS
<1>1. expected \in Docs
  BY EmptyDocumentIsDoc, LoginAssumption DEF FileInit, Document, Docs
<1>2. \A p \in Logins : login[p].step = "waiting"
  BY DEF FileInit, Waiting
<1>3. Busy = {}
  BY <1>2 DEF Busy
<1> QED BY <1>1, <1>2, <1>3 DEF SaveInv, SavesKept, InStep, FileInit

(* A step of the one writer that is busy, and one nobody else can take     *)
(* meanwhile: what the file holds is what it should, or is in its hands.   *)
LEMMA SaveStep ==
  ASSUME FileInv, SaveInv, FileNext
  PROVE  SaveInv'
<1> USE DEF FileInv, SaveInv
<1>1. CASE Edit
  <2>1. expected' = file' /\ (~disturbed' => ~disturbed /\ Busy = {})
    BY <1>1 DEF Edit
  <2>2. \A p \in Logins : login'[p].step = login[p].step
    BY <1>1 DEF Edit, LoginStates
  <2>3. Busy' = Busy
    BY <2>2 DEF Busy
  <2>4. ~disturbed' => \A p \in Logins : login'[p].step # "writing"
    BY <2>1, <2>2 DEF Busy
  <2>5. expected' \in Docs
    <3>1. file'.kind = "document"
      BY <1>1 DEF Edit, Docs
    <3>2. FileInv'
      BY FileStep
    <3> QED BY <2>1, <3>1, <3>2 DEF Absent, Empty, Garbled
  <2> QED BY <2>1, <2>3, <2>4, <2>5 DEF SavesKept, InStep
<1>2. ASSUME NEW p \in Logins, NEW a \in AccountsOf[LoginTo[p]], Read(p, a)
      PROVE  SaveInv'
  <2> DEFINE d == IF file.kind = "document" THEN file ELSE EmptyDocument
  <2> DEFINE s == [Waiting EXCEPT !.step = "read", !.account = a, !.document = d]
  <2>1. UNCHANGED <<file, expected>> /\ (~disturbed' => ~disturbed /\ Busy = {})
    BY <1>2 DEF Read
  <2>2. s.step = "read" /\ s.document = d
    BY DEF Waiting
  <2>3. login' = [login EXCEPT ![p] = s]
    BY <1>2 DEF Read, Step
  <2> HIDE DEF s
  <2>4. login'[p] = s /\ \A q \in Logins \ {p} : login'[q] = login[q]
    BY <2>3
  <2>5. Busy' \subseteq Busy \cup {p}
    BY <2>4 DEF Busy
  <2>6. ~disturbed' => \A q \in Logins : ~InStep(q, "writing") /\ login'[q].step # "writing"
    BY <2>1, <2>2, <2>4 DEF Busy, InStep
  <2>7. ~disturbed' => d = expected
    BY <2>1, <2>6, <1>2 DEF SavesKept, Docs, Absent, Read
  <2>8. ~disturbed' => SavesKept
    BY <2>1
  <2> QED BY <2>1, <2>2, <2>4, <2>5, <2>6, <2>7, <2>8 DEF SavesKept, InStep
<1>3. ASSUME NEW p \in Logins, ReadFails(p)
      PROVE  SaveInv'
  <2>1. UNCHANGED <<file, expected, disturbed>> /\ ~InStep(p, "writing")
    BY <1>3 DEF ReadFails, InStep
  <2>2. /\ login'[p].step = "failed"
        /\ \A q \in Logins \ {p} : login'[q] = login[q]
    BY <1>3 DEF ReadFails, Step, Waiting
  <2>3. Busy' \subseteq Busy /\ \A q \in Busy' : login'[q] = login[q]
    BY <2>2 DEF Busy
  <2>4. \A q \in Logins : login'[q].step = "writing" => login[q].step = "writing" /\ login'[q] = login[q]
    BY <2>2
  <2>5. \A q \in Logins : login[q].step = "writing" => login'[q].step = "writing"
    BY <2>1, <2>2 DEF InStep
  <2> QED BY <2>1, <2>3, <2>4, <2>5 DEF SavesKept, InStep
<1>4. ASSUME NEW p \in Logins, Truncate(p)
      PROVE  SaveInv'
  <2>1. UNCHANGED <<expected, disturbed>> /\ file' = Empty /\ p \in Busy
    BY <1>4 DEF Truncate, InStep, Busy
  <2>2. /\ login'[p].step = "writing" /\ login'[p].open
        /\ login'[p].document = login[p].document
        /\ \A q \in Logins \ {p} : login'[q] = login[q]
    BY <1>4 DEF Truncate, Step, LoginStates
  <2>3. Busy' \subseteq Busy
    BY <2>1, <2>2 DEF Busy
  <2>4. ~disturbed' => \A q \in Logins \ {p} : login'[q].step # "writing"
    BY <2>1, <2>2 DEF Busy
  <2> QED BY <2>1, <2>2, <2>3, <2>4 DEF SavesKept, InStep
<1>5. ASSUME NEW p \in Logins, WriteOut(p)
      PROVE  SaveInv'
  <2>1. disturbed' = disturbed /\ expected' = [expected EXCEPT !.auths[LoginTo[p]] = login[p].account]
    BY <1>5 DEF WriteOut
  <2>2. expected' \in Docs
    BY <2>1, SetEntry, LoginAssumption
  <2>3. InStep(p, "writing") /\ p \in Busy
    BY <1>5 DEF WriteOut, InStep, Busy
  <2>4. login'[p].step = "saved" /\ \A q \in Logins \ {p} : login'[q] = login[q]
    BY <1>5 DEF WriteOut, Step, LoginStates
  <2>5. ~disturbed => file = Empty /\ login[p].open /\ login[p].document = expected
    BY <2>3
  <2>6. ~disturbed => file' = Saved(p)
    BY <2>5, <1>5 DEF WriteOut
  <2>7. ~disturbed => file' = expected'
    BY <2>1, <2>5, <2>6 DEF Saved
  <2>8. ~disturbed => Busy' = {} /\ \A q \in Logins : login'[q].step # "writing"
    BY <2>3, <2>4 DEF Busy
  <2> QED BY <2>1, <2>2, <2>7, <2>8 DEF SavesKept, InStep
<1>6. ASSUME NEW p \in Logins, Stopped(p)
      PROVE  SaveInv'
  BY <1>6 DEF Stopped
<1> QED BY <1>1, <1>2, <1>3, <1>4, <1>5, <1>6 DEF FileNext, Save

----------------------------------------------------------------------------
(* The tokens. *)

LEMMA TokensInitially == TokenInit => TokenInv
<1> SUFFICES ASSUME TokenInit PROVE TokenInv
  OBVIOUS
<1>1. issued \in Seq(Keys) /\ store = NoStore /\ mirror = NoMirror /\ sent = {}
  BY DEF TokenInit
<1>2. task \in [Tasks -> TaskStates] /\ \A t \in Tasks : task[t].step = "idle"
  BY DEF TokenInit, Idle, At, TaskStates, NoToken
<1>3. cache \in [Keys -> Nat] /\ \A k \in Keys : cache[k] = NoToken
  BY DEF TokenInit, NoToken
<1> QED BY <1>1, <1>2, <1>3 DEF TokenInv, Fits, OwnAccount

(* The account that is sent is the one for the registry, and goes to a     *)
(* realm that was named by whoever stands for that registry.               *)
LEMMA SendsOwn ==
  ASSUME TokenInv, NEW t \in Tasks, task[t].step = "fetch", UNCHANGED client,
         Sends(t)
  PROVE  OwnAccount'
<1> DEFINE host == task[t].key.registry
           new == [registry |-> host, account |-> Lookup(store, host), realm |-> task[t].realm]
<1>1. store \in Stores /\ host \in Hosts /\ UNCHANGED <<store, mirror>>
  BY NamesAssumption DEF TokenInv, Fits, client
<1>2. new.account \in {NoAccount} \cup AccountsOf[host]
                     \cup IF host = Hub THEN AccountsOf[Legacy] ELSE {}
  BY <1>1, LookupIsOwn
<1>3. new.realm \in RealmsOf[host]
                  \cup IF host = Hub /\ mirror # NoMirror THEN RealmsOf[mirror] ELSE {}
  BY DEF TokenInv, Fits, BaseUrl
<1>4. sent' = sent \cup {new} /\ new.registry = host
  BY DEF Sends
<1> HIDE DEF new, host
<1> SUFFICES ASSUME NEW s \in sent'
             PROVE  \/ s.account = NoAccount
                    \/ /\ s.account \in AccountsOf[s.registry]
                            \cup IF s.registry = Hub THEN AccountsOf[Legacy] ELSE {}
                       /\ s.realm \in RealmsOf[s.registry]
                            \cup IF s.registry = Hub /\ mirror # NoMirror
                                  THEN RealmsOf[mirror] ELSE {}
  BY <1>1 DEF OwnAccount
<1>5. CASE s \in sent
  BY <1>5 DEF TokenInv, OwnAccount
<1>6. CASE s = new
  BY <1>2, <1>3, <1>4, <1>6
<1> QED BY <1>4, <1>5, <1>6

(* A task moves on without a new token. *)
LEMMA TaskMoves ==
  ASSUME TokenInv, NEW t \in Tasks, NEW s \in TaskStates, Fits(s),
         task' = [task EXCEPT ![t] = s], UNCHANGED <<client, issued, sent>>,
         cache' \in [Keys -> Nat],
         \A k \in Keys : cache'[k] # NoToken => IssuedFor(issued, cache'[k], k)
  PROVE  TokenInv'
<1>1. task' \in [Tasks -> TaskStates]
  BY DEF TokenInv
<1>2. \A u \in Tasks : Fits(task[u])'
  BY DEF TokenInv, Fits, IssuedFor, BaseUrl, client
<1>3. OwnAccount'
  BY DEF TokenInv, OwnAccount, client
<1> QED BY <1>1, <1>2, <1>3 DEF TokenInv, IssuedFor, client

(* A new token takes nothing from the others. *)
LEMMA FetchKeeps ==
  ASSUME TokenInv, NEW t \in Tasks, Fetch(t)
  PROVE  TokenInv'
<1> DEFINE key == task[t].key
           s == [task[t] EXCEPT !.step = "store", !.token = Len(issued')]
<1>1. key \in Keys /\ store # NoStore /\ UNCHANGED client
  BY DEF TokenInv, Fits, Fetch
<1>2. issued' = Append(issued, key) /\ issued \in Seq(Keys)
  BY DEF Fetch, TokenInv
<1>3. /\ issued' \in Seq(Keys) /\ Len(issued') = Len(issued) + 1
      /\ \A n \in 1..Len(issued) : issued'[n] = issued[n]
      /\ issued'[Len(issued) + 1] = key
      /\ Len(issued) \in Nat
  <2> HIDE DEF key
  <2> QED BY <1>1, <1>2
<1>4. \A n, k : IssuedFor(issued, n, k) => IssuedFor(issued', n, k)
  BY <1>3 DEF IssuedFor
<1>5. IssuedFor(issued', Len(issued'), key)
  BY <1>3 DEF IssuedFor
<1>6. s \in TaskStates /\ s.step = "store" /\ s.key = key /\ s.token = Len(issued')
  <2>1. task[t] \in TaskStates
    BY DEF TokenInv
  <2>2. \A n \in Nat :
          LET u == [task[t] EXCEPT !.step = "store", !.token = n]
          IN  u \in TaskStates /\ u.step = "store" /\ u.key = task[t].key /\ u.token = n
    BY <2>1 DEF TaskStates
  <2>3. Len(issued') \in Nat
    BY <1>3
  <2> QED BY <2>2, <2>3
<1>7. task' = [task EXCEPT ![t] = s] /\ UNCHANGED cache
  BY DEF Fetch, Becomes
<1>8. OwnAccount'
  BY <1>1, SendsOwn DEF Fetch
<1>9. task' \in [Tasks -> TaskStates]
  BY <1>6, <1>7 DEF TokenInv
<1>10. \A u \in Tasks : Fits(task[u])'
  <2> HIDE DEF s
  <2> SUFFICES ASSUME NEW u \in Tasks PROVE Fits(task[u])'
    OBVIOUS
  <2>1. CASE u = t
    <3>1. task'[u] = s
      BY <2>1, <1>7 DEF TokenInv
    <3> QED BY <3>1, <1>1, <1>5, <1>6 DEF Fits, client
  <2>2. CASE u # t
    <3>1. task'[u] = task[u]
      BY <2>2, <1>7 DEF TokenInv
    <3> QED BY <3>1, <1>1, <1>4 DEF TokenInv, Fits, BaseUrl, client
  <2> QED BY <2>1, <2>2
<1>11. cache' \in [Keys -> Nat] /\ \A k \in Keys : cache'[k] # NoToken => IssuedFor(issued', cache'[k], k)
  BY <1>4, <1>7 DEF TokenInv
<1> QED BY <1>1, <1>3, <1>8, <1>9, <1>10, <1>11 DEF TokenInv, client

LEMMA TokenStep ==
  ASSUME TokenInv, TokenNext
  PROVE  TokenInv'
<1>0. \A k \in Keys : cache[k] # NoToken => IssuedFor(issued, cache[k], k)
  BY DEF TokenInv
<1>1. CASE Expire
  BY <1>1 DEF Expire, TokenInv, Fits, IssuedFor, OwnAccount, BaseUrl, client
<1>2. ASSUME NEW t \in Tasks, Ask(t)
      PROVE  TokenInv'
  <2>1. store # NoStore /\ UNCHANGED <<client, cache, issued, sent>>
    BY <1>2 DEF Ask, registry
  <2>2. ASSUME NEW k \in Keys, NEW step \in {"ok", "failed"},
               task' = [task EXCEPT ![t] = At(step, k, NoToken, NoRealm)]
        PROVE  TokenInv'
    <3>1. At(step, k, NoToken, NoRealm) \in TaskStates /\ Fits(At(step, k, NoToken, NoRealm))
      BY <2>1, <2>2 DEF At, TaskStates, NoToken, Fits
    <3> QED BY <2>1, <2>2, <3>1, TaskMoves DEF TokenInv
  <2>3. ASSUME NEW k \in Keys, NEW realm \in RealmsOf[BaseUrl(k.registry)],
               task' = [task EXCEPT ![t] = At("challenged", k, NoToken, realm)]
        PROVE  TokenInv'
    <3>0. BaseUrl(k.registry) \in DOMAIN RealmsOf
      BY NamesAssumption DEF BaseUrl, TokenInv
    <3>1. /\ At("challenged", k, NoToken, realm) \in TaskStates
          /\ Fits(At("challenged", k, NoToken, realm))
      BY <2>1, <3>0 DEF At, TaskStates, NoToken, Fits, Realms
    <3> QED BY <2>1, <2>3, <3>1, TaskMoves DEF TokenInv
  <2> QED BY <1>2, <2>2, <2>3 DEF Ask, Becomes
<1>3. ASSUME NEW t \in Tasks, NoChallenge(t) \/ Refuse(t) \/ Retry(t)
      PROVE  TokenInv'
  <2>1. PICK step \in {"ok", "failed"} : task' = [task EXCEPT ![t] = [task[t] EXCEPT !.step = step]]
    BY <1>3 DEF NoChallenge, Refuse, Retry, Becomes
  <2> DEFINE s == [task[t] EXCEPT !.step = step]
  <2>2. s \in TaskStates /\ s.step = step /\ s.key = task[t].key
    BY DEF TaskStates, TokenInv
  <2>3. task[t].step # "idle" /\ UNCHANGED <<client, cache, issued, sent>>
    BY <1>3 DEF NoChallenge, Refuse, Retry, registry
  <2>4. Fits(s)
    BY <2>2, <2>3 DEF TokenInv, Fits
  <2> HIDE DEF s
  <2> QED BY <2>1, <2>2, <2>3, <2>4, TaskMoves DEF s, TokenInv
<1>4. ASSUME NEW t \in Tasks, LookUp(t)
      PROVE  TokenInv'
  <2> DEFINE token == cache[task[t].key]
             s == [task[t] EXCEPT !.step = IF token # NoToken THEN "retry" ELSE "fetch",
                                  !.token = token]
  <2>1. task[t].step = "challenged" /\ UNCHANGED <<client, cache, issued, sent>>
    BY <1>4 DEF LookUp, registry
  <2>2. store # NoStore /\ task[t].key \in Keys
    BY <2>1 DEF TokenInv, Fits
  <2>3. token \in Nat /\ (token # NoToken => IssuedFor(issued, token, task[t].key))
    BY <2>2 DEF TokenInv
  <2>4. /\ s \in TaskStates /\ s.key = task[t].key /\ s.token = token /\ s.realm = task[t].realm
        /\ s.step \in {"retry", "fetch"} /\ (s.step = "retry" => token # NoToken)
    BY <2>3 DEF TaskStates, TokenInv
  <2>5. task' = [task EXCEPT ![t] = s]
    BY <1>4 DEF LookUp, Becomes
  <2>6. task[t].realm \in RealmsOf[BaseUrl(task[t].key.registry)]
    BY <2>1 DEF TokenInv, Fits
  <2> HIDE DEF s, token
  <2>7. Fits(s)
    BY <2>2, <2>3, <2>4, <2>6 DEF Fits
  <2> QED BY <2>1, <2>4, <2>5, <2>7, TaskMoves DEF TokenInv
<1>5. ASSUME NEW t \in Tasks, Fetch(t)
      PROVE  TokenInv'
  BY <1>5, FetchKeeps
<1>6. ASSUME NEW t \in Tasks, FetchFails(t)
      PROVE  TokenInv'
  <2>1. OwnAccount' /\ UNCHANGED <<client, cache, issued>> /\ store # NoStore
    BY <1>6, SendsOwn DEF FetchFails, registry, TokenInv, Fits
  <2>2. task' = [task EXCEPT ![t] = [task[t] EXCEPT !.step = "failed"]]
    BY <1>6 DEF FetchFails, Becomes
  <2>3. task' \in [Tasks -> TaskStates]
    BY <2>2 DEF TokenInv, TaskStates
  <2>4. task[t].key \in Keys
    BY <1>6 DEF FetchFails, TokenInv, Fits
  <2>5. \A u \in Tasks : Fits(task[u])'
    BY <2>1, <2>2, <2>4 DEF TokenInv, Fits, BaseUrl, IssuedFor, client, TaskStates
  <2> QED BY <2>1, <2>3, <2>5 DEF TokenInv, IssuedFor, client
<1>7. ASSUME NEW t \in Tasks, Store(t)
      PROVE  TokenInv'
  <2> DEFINE s == [task[t] EXCEPT !.step = "retry"]
  <2>1. /\ store # NoStore /\ task[t].key \in Keys /\ UNCHANGED <<client, issued, sent>>
        /\ IssuedFor(issued, task[t].token, task[t].key)
    BY <1>7 DEF Store, TokenInv, Fits, registry
  <2>2. /\ s \in TaskStates /\ s.step = "retry" /\ s.key = task[t].key
        /\ s.token = task[t].token
    BY DEF TaskStates, TokenInv
  <2>3. task' = [task EXCEPT ![t] = s]
    BY <1>7 DEF Store, Becomes
  <2>4. cache' = [cache EXCEPT ![task[t].key] = task[t].token] /\ task[t].token \in Nat
    BY <1>7 DEF Store, TokenInv, TaskStates
  <2>5. cache' \in [Keys -> Nat] /\ \A k \in Keys : cache'[k] # NoToken => IssuedFor(issued, cache'[k], k)
    BY <2>1, <2>4 DEF TokenInv
  <2> HIDE DEF s
  <2>6. Fits(s)
    BY <2>1, <2>2 DEF Fits
  <2> QED BY <2>1, <2>2, <2>3, <2>5, <2>6, TaskMoves
<1> QED BY <1>1, <1>2, <1>3, <1>4, <1>5, <1>6, <1>7 DEF TokenNext, Request

(* The client is made with what load returns, before any task asks. *)
LEMMA StartKeeps ==
  ASSUME FileInv, TokenInv, Start
  PROVE  TokenInv'
<1>1. store' \in Stores /\ mirror' \in Mirrors
  BY LoadIsStore DEF Start, NewClient, FileInv
<1>2. store = NoStore /\ UNCHANGED <<cache, task, issued, sent>>
  BY DEF Start, NewClient, registry
<1>3. sent' = {} /\ \A t \in Tasks : task[t].step = "idle"
  BY <1>2 DEF TokenInv, Fits
<1> QED BY <1>1, <1>2, <1>3 DEF TokenInv, Fits, IssuedFor, OwnAccount

----------------------------------------------------------------------------

LEMMA Invariance == Spec => []IInv
<1>1. Init => IInv
  BY FileInitially, SavesInitially, TokensInitially DEF Init, IInv
<1>2. IInv /\ [Next]_vars => IInv'
  <2> SUFFICES ASSUME IInv, [Next]_vars PROVE IInv'
    OBVIOUS
  <2>1. ASSUME UNCHANGED fileVars PROVE FileInv' /\ SaveInv'
    BY <2>1 DEF IInv, FileInv, SaveInv, SavesKept, InStep, Busy, fileVars
  <2>2. ASSUME UNCHANGED tokenVars PROVE TokenInv'
    BY <2>2 DEF IInv, TokenInv, Fits, IssuedFor, OwnAccount, BaseUrl, tokenVars, registry, client
  <2>3. CASE Start
    BY <2>3, <2>1, StartKeeps DEF IInv, Start
  <2>4. CASE FileNext /\ UNCHANGED tokenVars
    BY <2>4, <2>2, FileStep, SaveStep DEF IInv
  <2>5. CASE TokenNext /\ UNCHANGED fileVars
    BY <2>5, <2>1, TokenStep DEF IInv
  <2>6. CASE UNCHANGED vars
    BY <2>6, <2>1, <2>2 DEF IInv, vars
  <2> QED BY <2>3, <2>4, <2>5, <2>6 DEF Next
<1> QED BY <1>1, <1>2, PTL DEF Spec

(* Whatever names the tasks request and in whatever order they look up,    *)
(* fetch and store: a request is repeated with a token issued for its      *)
(* registry and scope, and the cache holds no other under a key.           *)
THEOREM TokensFit == Spec => []TokensFitRequests
<1>1. IInv => TokensFitRequests
  BY DEF IInv, TokenInv, Fits, TokensFitRequests, IssuedFor
<1> QED BY <1>1, Invariance, PTL

(* Whatever logins and other tools do to the file, stopped in their writes *)
(* or not, and whatever realms the challenges name: a token is asked for   *)
(* as nobody or as an account of the image's registry (Docker Hub's old    *)
(* key included), from a realm that this registry named or, for Docker Hub,*)
(* the mirror that stands for it.                                          *)
THEOREM OwnAccounts == Spec => []OwnAccount
<1>1. IInv => OwnAccount
  BY DEF IInv, TokenInv
<1> QED BY <1>1, Invariance, PTL

(* However logins, other tools and refusals follow each other, as long as  *)
(* no two writers overlap and none is stopped in its write: between two    *)
(* writes the file holds what every login and every tool put into it.      *)
THEOREM SavesAreKept == Spec => []SavesKept
<1>1. IInv => SavesKept
  BY DEF IInv, SaveInv, SavesKept
<1> QED BY <1>1, Invariance, PTL

(* A client made then has the account of every login that returned: what   *)
(* load returns has the entries of the file.                               *)
THEOREM ClientsSeeLogins == Spec => LoginsAreSeen
<1> DEFINE Seen ==
      store # store' /\ ~disturbed /\ (\A p \in Logins : ~InStep(p, "writing"))
       => \A p \in Logins :
            InStep(p, "saved") /\ expected.auths[LoginTo[p]] = login[p].account
              => store'[LoginTo[p]] = login[p].account
<1>1. IInv /\ [Next]_vars => [Seen]_vars
  <2> SUFFICES ASSUME IInv, Next, store # store', ~disturbed,
                      \A p \in Logins : ~InStep(p, "writing"),
                      NEW p \in Logins, expected.auths[LoginTo[p]] = login[p].account
               PROVE  store'[LoginTo[p]] = login[p].account
    BY DEF vars, tokenVars, registry, client
  <2>1. store' = Load(file)
    BY DEF Next, Start, NewClient, tokenVars, registry, client, TokenNext, Expire, Request, Ask,
           NoChallenge, Refuse, FetchFails, Retry, LookUp, Fetch, Store
  <2>2. LoginTo[p] \in Hosts /\ login[p].account \in AccountsOf[LoginTo[p]] \cup {NoAccount}
    BY LoginAssumption DEF IInv, FileInv
  <2>3. login[p].account # Undecodable
    BY <2>2, HostsAssumption DEF Accounts, NoAccount, Undecodable
  <2>4. file = expected \/ (file = Absent /\ expected = EmptyDocument)
    BY DEF IInv, SaveInv, SavesKept
  <2>5. CASE file = expected
    <3>1. file \in Docs
      BY <2>5 DEF IInv, SaveInv
    <3>2. Load(file)[LoginTo[p]] = file.auths[LoginTo[p]]
      BY <3>1, <2>2, <2>3, <2>5 DEF Load, Docs
    <3> QED BY <2>1, <2>5, <3>2
  <2>6. CASE file = Absent /\ expected = EmptyDocument
    BY <2>1, <2>2, <2>6 DEF Load, Absent, EmptyDocument, Document
  <2> QED BY <2>4, <2>5, <2>6
<1>2. Spec => [][Seen]_vars
  BY <1>1, Invariance, PTL DEF Spec
<1> QED BY <1>2 DEF LoginsAreSeen

----------------------------------------------------------------------------
(* Names.  A sequence with one separator in it is cut there into what      *)
(* stands before and after it (CutBefore, CutAfter), and the separators of *)
(* a name are found where they were put: "@" and a tag's ":" because what  *)
(* comes before or behind has none, the host's "/" because it is the first *)
(* one, and the ":" of a port is no tag because a "/" comes behind it      *)
(* (BeforeSlash).                                                          *)

LEMMA MinIs ==
  ASSUME NEW S \in SUBSET Nat, NEW k \in S, \A i \in S : k <= i
  PROVE  Min(S) = k
<1>1. \A m \in S : (\A i \in S : m =< i) => m = k
  OBVIOUS
<1> QED BY <1>1 DEF Min

(* A set of places of a sequence has a last one. *)
LEMMA MaxIs ==
  ASSUME NEW n \in Nat, NEW S \in SUBSET (1..n), S # {}
  PROVE  Max(S) \in S /\ \A i \in S : Max(S) >= i
<1> DEFINE U == {n - i : i \in S}
<1>0. \A i \in S : i \in Int /\ i <= n
  <2>1. S \subseteq 1..n
    OBVIOUS
  <2>2. \A i \in 1..n : i \in Int /\ i <= n
    OBVIOUS
  <2> QED BY <2>1, <2>2
<1>1. U \subseteq Nat /\ U # {}
  <2>1. \A i \in S : n - i \in Nat
    BY <1>0
  <2> QED BY <2>1
<1>2. PICK t \in U : \A u \in U : <<u, t>> \notin OpToRel(<, Nat)
  <2> HIDE DEF U
  <2> QED BY <1>1, WFMin, NatLessThanWellFounded, Zenon
<1>3. \A u \in U : ~(u < t)
  BY <1>1, <1>2 DEF OpToRel
<1>4. PICK x \in S : t = n - x
  OBVIOUS
<1>5. \A y \in S : x >= y
  <2> TAKE y \in S
  <2>1. ~(n - y < n - x)
    BY <1>3, <1>4
  <2>2. x \in Int /\ y \in Int
    BY <1>0
  <2> QED BY <2>1, <2>2
<1> QED BY <1>5 DEF Max

(* What FirstOf and LastOf find. *)
LEMMA FirstAt ==
  ASSUME NEW T, NEW s \in Seq(T), NEW token, NEW k \in 1..Len(s), s[k] = token,
         \A i \in 1..(k - 1) : s[i] # token
  PROVE  FirstOf(s, token) = k
<1> DEFINE places == {i \in 1..Len(s) : s[i] = token}
<1>1. FirstOf(s, token) = IF places # {} THEN Min(places) ELSE 0
  BY DEF FirstOf, SelectInSeq
<1>2. k \in places /\ places \subseteq Nat /\ \A i \in places : k <= i
  OBVIOUS
<1> HIDE DEF places
<1> QED BY <1>1, <1>2, MinIs

LEMMA FirstNone ==
  ASSUME NEW T, NEW s \in Seq(T), NEW token, ~Contains(s, token)
  PROVE  FirstOf(s, token) = 0
<1> DEFINE places == {i \in 1..Len(s) : s[i] = token}
<1>1. FirstOf(s, token) = IF places # {} THEN Min(places) ELSE 0
  BY DEF FirstOf, SelectInSeq
<1>2. places = {}
  BY DEF Contains
<1> QED BY <1>1, <1>2

LEMMA LastIs ==
  ASSUME NEW T, NEW s \in Seq(T), NEW token
  PROVE  \/ LastOf(s, token) = 0 /\ ~Contains(s, token)
         \/ /\ LastOf(s, token) \in 1..Len(s) /\ s[LastOf(s, token)] = token
            /\ \A i \in 1..Len(s) : s[i] = token => i <= LastOf(s, token)
<1> DEFINE places == {i \in 1..Len(s) : s[i] = token}
<1>1. LastOf(s, token) = IF places # {} THEN Max(places) ELSE 0
  BY DEF LastOf, SelectLastInSeq
<1>2. places \subseteq 1..Len(s) /\ Len(s) \in Nat
  OBVIOUS
<1>3. CASE places = {}
  BY <1>1, <1>3 DEF Contains
<1>4. CASE places # {}
  <2>1. Max(places) \in places /\ \A i \in places : Max(places) >= i
    <3> HIDE DEF places
    <3> QED BY <1>2, <1>4, MaxIs
  <2>2. LastOf(s, token) \in places /\ \A i \in places : i <= LastOf(s, token)
    BY <1>1, <1>4, <2>1
  <2> QED BY <2>2
<1> QED BY <1>3, <1>4

(* What stands before and after a token. *)
LEMMA CutApart ==
  ASSUME NEW T, NEW a \in Seq(T), NEW token \in T, NEW b \in Seq(T)
  PROVE  /\ Around(a, token, b) \in Seq(T)
         /\ Len(Around(a, token, b)) = Len(a) + 1 + Len(b)
         /\ \A i \in 1..Len(a) : Around(a, token, b)[i] = a[i]
         /\ Around(a, token, b)[Len(a) + 1] = token
         /\ \A i \in 1..Len(b) : Around(a, token, b)[Len(a) + 1 + i] = b[i]
         /\ Before(Around(a, token, b), Len(a) + 1) = a
         /\ After(Around(a, token, b), Len(a) + 1) = b
<1> DEFINE t == <<token>> \o b
           s == Around(a, token, b)
<1>0. Len(a) \in Nat /\ Len(b) \in Nat
  OBVIOUS
<1>1. /\ t \in Seq(T) /\ Len(t) = 1 + Len(b) /\ t[1] = token
      /\ \A i \in 1..Len(b) : t[1 + i] = b[i]
  <2> DEFINE one == <<token>>
  <2>1. one \in Seq(T) /\ Len(one) = 1 /\ one[1] = token
    OBVIOUS
  <2> HIDE DEF one
  <2>2. /\ one \o b \in Seq(T) /\ Len(one \o b) = Len(one) + Len(b)
        /\ \A i \in 1..(Len(one) + Len(b)) :
             (one \o b)[i] = IF i <= Len(one) THEN one[i] ELSE b[i - Len(one)]
    BY <2>1, ConcatProperties
  <2>3. ASSUME NEW i \in 1..Len(b) PROVE (one \o b)[1 + i] = b[i]
    <3>1. 1 + i \in 1..(Len(one) + Len(b)) /\ ~(1 + i <= Len(one)) /\ (1 + i) - Len(one) = i
      BY <1>0, <2>1
    <3> QED BY <2>2, <3>1
  <2>4. (one \o b)[1] = token
    <3>1. 1 \in 1..(Len(one) + Len(b)) /\ 1 <= Len(one)
      BY <1>0, <2>1
    <3> QED BY <2>1, <2>2, <3>1
  <2> QED BY <1>0, <2>1, <2>2, <2>3, <2>4 DEF one
<1> HIDE DEF t
<1>2. /\ s \in Seq(T) /\ Len(s) = Len(a) + Len(t)
      /\ \A i \in 1..(Len(a) + Len(t)) : s[i] = IF i <= Len(a) THEN a[i] ELSE t[i - Len(a)]
  <2>1. t \in Seq(T)
    BY <1>1
  <2>2. s = a \o t
    BY DEF t, Around
  <2> HIDE DEF s
  <2>3. /\ a \o t \in Seq(T) /\ Len(a \o t) = Len(a) + Len(t)
        /\ \A i \in 1..(Len(a) + Len(t)) :
             (a \o t)[i] = IF i <= Len(a) THEN a[i] ELSE t[i - Len(a)]
    BY <2>1, ConcatProperties, Zenon
  <2> QED BY <2>2, <2>3, Zenon
<1> HIDE DEF s
<1>3. Len(a) \in Nat /\ Len(b) \in Nat
  BY <1>0
<1>4. Len(s) = Len(a) + 1 + Len(b) /\ s[Len(a) + 1] = token
  <2>1. Len(a) + 1 \in 1..(Len(a) + Len(t)) /\ ~(Len(a) + 1 <= Len(a)) /\ (Len(a) + 1) - Len(a) = 1
        /\ Len(a) + Len(t) = Len(a) + 1 + Len(b)
    BY <1>1, <1>3
  <2> QED BY <1>1, <1>2, <2>1
<1>5. \A i \in 1..Len(a) : s[i] = a[i]
  BY <1>1, <1>2, <1>3
<1>6. \A i \in 1..Len(b) : s[Len(a) + 1 + i] = b[i]
  <2> TAKE i \in 1..Len(b)
  <2>1. Len(a) + 1 + i \in 1..(Len(a) + Len(t)) /\ (Len(a) + 1 + i) - Len(a) = 1 + i
        /\ ~(Len(a) + 1 + i <= Len(a))
    BY <1>1, <1>3
  <2> QED BY <1>1, <1>2, <2>1
<1>7. Before(s, Len(a) + 1) = a
  <2>1. SubSeq(s, 1, Len(a)) \in Seq(T) /\ Len(SubSeq(s, 1, Len(a))) = Len(a)
        /\ \A i \in 1..Len(a) : SubSeq(s, 1, Len(a))[i] = a[i]
    BY <1>2, <1>3, <1>4, <1>5
  <2>2. SubSeq(s, 1, Len(a)) = a
    BY <2>1, SeqEqual
  <2> QED BY <1>3, <2>2 DEF Before
<1>8. After(s, Len(a) + 1) = b
  <2> DEFINE r == SubSeq(s, (Len(a) + 1) + 1, Len(s))
  <2>1. r \in Seq(T) /\ Len(r) = Len(b) /\ \A i \in 1..Len(b) : r[i] = b[i]
    <3>1. \A i \in ((Len(a) + 1) + 1)..Len(s) : s[i] \in T
      BY <1>2, <1>3, <1>4
    <3>2. /\ r \in Seq(T)
          /\ Len(r) = IF (Len(a) + 1) + 1 <= Len(s) THEN Len(s) - ((Len(a) + 1) + 1) + 1 ELSE 0
          /\ \A i \in 1..(Len(s) - ((Len(a) + 1) + 1) + 1) : r[i] = s[(Len(a) + 1) + 1 + i - 1]
      <4> HIDE DEF r
      <4>1. (Len(a) + 1) + 1 \in Int /\ Len(s) \in Int
        BY <1>3, <1>4
      <4> QED BY <3>1, <4>1, SubSeqProperties DEF r
    <3> HIDE DEF r
    <3>3. Len(r) = Len(b)
      BY <1>3, <1>4, <3>2
    <3>4. ASSUME NEW i \in 1..Len(b) PROVE r[i] = b[i]
      <4>1. i \in 1..(Len(s) - ((Len(a) + 1) + 1) + 1)
            /\ (Len(a) + 1) + 1 + i - 1 = Len(a) + 1 + i
        BY <1>3, <1>4
      <4> QED BY <1>6, <3>2, <4>1
    <3> QED BY <3>2, <3>3, <3>4
  <2>2. r = b
    <3> HIDE DEF r
    <3> QED BY <2>1, SeqEqual
  <2> QED BY <2>2 DEF After
<1>9. s \in Seq(T)
  BY <1>2
<1> QED BY <1>4, <1>5, <1>6, <1>7, <1>8, <1>9 DEF s

(* A path as it is spelled: its words, with slashes between them.          *)
LEMMA SlashedIs ==
  ASSUME NEW T, "/" \in T, NEW p \in Seq(T), p # <<>>
  PROVE  /\ Slashed(p) \in Seq(T) /\ Len(Slashed(p)) = 2 * Len(p) - 1 /\ Slashed(p) # <<>>
         /\ \A i \in 1..Len(Slashed(p)) :
              Slashed(p)[i] = "/" \/ \E k \in 1..Len(p) : Slashed(p)[i] = p[k]
         /\ Slashed(p)[1] = p[1]
         /\ Len(p) > 1 => Slashed(p)[2] = "/" /\ Len(Slashed(p)) > 1
         /\ Len(p) = 1 => Slashed(p) = p
<1> DEFINE n == 2 * Len(p) - 1
           s == Slashed(p)
<1>1. Len(p) \in Nat /\ Len(p) >= 1
  BY EmptySeq
<1>2. n \in Nat /\ n >= 1
  BY <1>1
<1>3. s = [i \in 1..n |-> IF i % 2 = 1 THEN p[(i + 1) \div 2] ELSE "/"]
  BY DEF Slashed
<1>4. \A i \in 1..n : (i + 1) \div 2 \in 1..Len(p)
  BY <1>1
<1>5. \A i \in 1..n : s[i] = "/" \/ \E k \in 1..Len(p) : s[i] = p[k]
  <2> HIDE DEF s, n
  <2> QED BY <1>3, <1>4
<1>6. \A i \in 1..n : s[i] \in T
  <2> HIDE DEF s, n
  <2>1. "/" \in T /\ \A k \in 1..Len(p) : p[k] \in T
    BY ElementOfSeq
  <2> QED BY <1>5, <2>1
<1>7. s \in Seq(T) /\ Len(s) = n
  <2> HIDE DEF s, n
  <2> QED BY <1>2, <1>3, <1>6
<1>8. s[1] = p[1]
  <2> HIDE DEF s
  <2>1. (1 + 1) \div 2 = 1 /\ 1 % 2 = 1 /\ 1 \in 1..n
    BY <1>2
  <2> QED BY <1>3, <2>1
<1>9. Len(p) > 1 => s[2] = "/" /\ Len(s) > 1
  <2>1. Len(p) > 1 => 2 \in 1..n /\ n > 1
    BY <1>1
  <2>2. 2 % 2 # 1
    OBVIOUS
  <2> HIDE DEF s, n
  <2> QED BY <1>3, <1>7, <2>1, <2>2
<1>10. Len(p) = 1 => s = p
  <2>1. Len(p) = 1 => n = 1
    BY <1>1
  <2> HIDE DEF s, n
  <2>2. ASSUME Len(p) = 1 PROVE \A i \in 1..Len(s) : s[i] = p[i]
    BY <1>7, <1>8, <2>1, <2>2
  <2> QED BY <1>7, <2>1, <2>2, SeqEqual
<1>11. s # <<>>
  BY <1>2, <1>7, EmptySeq
<1> QED BY <1>5, <1>7, <1>8, <1>9, <1>10, <1>11

LEMMA AroundShape ==
  ASSUME NEW T, NEW a \in Seq(T), NEW token \in T, NEW b \in Seq(T)
  PROVE  /\ Around(a, token, b) \in Seq(T)
         /\ Len(Around(a, token, b)) = Len(a) + 1 + Len(b)
         /\ Around(a, token, b)[Len(a) + 1] = token
<1>1. Around(a, token, b) \in Seq(T)
  BY CutApart, SMT
<1>2. Len(Around(a, token, b)) = Len(a) + 1 + Len(b)
  BY CutApart, SMT
<1>3. Around(a, token, b)[Len(a) + 1] = token
  BY CutApart, SMT
<1> QED BY <1>1, <1>2, <1>3

LEMMA AroundFront ==
  ASSUME NEW T, NEW a \in Seq(T), NEW token \in T, NEW b \in Seq(T), NEW i \in 1..Len(a)
  PROVE  Around(a, token, b)[i] = a[i]
  BY CutApart, SMT

LEMMA AroundBack ==
  ASSUME NEW T, NEW a \in Seq(T), NEW token \in T, NEW b \in Seq(T), NEW i \in 1..Len(b)
  PROVE  Around(a, token, b)[Len(a) + 1 + i] = b[i]
  BY CutApart, SMT

LEMMA CutBefore ==
  ASSUME NEW T, NEW a \in Seq(T), NEW token \in T, NEW b \in Seq(T)
  PROVE  Before(Around(a, token, b), Len(a) + 1) = a
  BY CutApart, SMT

LEMMA CutAfter ==
  ASSUME NEW T, NEW a \in Seq(T), NEW token \in T, NEW b \in Seq(T)
  PROVE  After(Around(a, token, b), Len(a) + 1) = b
  BY CutApart, SMT

(* What is in two parts with a token between them. *)
LEMMA ContainsOne ==
  ASSUME NEW token, NEW other
  PROVE  /\ Contains(<<token>>, other) <=> token = other
         /\ ~Contains(<<>>, other)
  BY DEF Contains

LEMMA AroundIsSeq ==
  ASSUME NEW T, NEW a \in Seq(T), NEW token \in T, NEW b \in Seq(T)
  PROVE  Around(a, token, b) \in Seq(T) /\ Around(a, token, b) # <<>>
<1>1. Around(a, token, b) \in Seq(T) /\ Len(Around(a, token, b)) = Len(a) + 1 + Len(b)
  BY AroundShape
<1>2. Len(a) + 1 + Len(b) # 0
  OBVIOUS
<1> QED BY <1>1, <1>2, EmptySeq

LEMMA ContainsAround ==
  ASSUME NEW T, NEW a \in Seq(T), NEW token \in T, NEW b \in Seq(T), NEW other,
         token # other, ~Contains(a, other), ~Contains(b, other)
  PROVE  ~Contains(Around(a, token, b), other)
<1> DEFINE s == Around(a, token, b)
<1>1. Len(s) = Len(a) + 1 + Len(b) /\ s[Len(a) + 1] = token
  BY AroundShape
<1>2. \A i \in 1..Len(a) : s[i] = a[i]
  BY AroundFront
<1>3. \A i \in 1..Len(b) : s[Len(a) + 1 + i] = b[i]
  BY AroundBack
<1>4. Len(a) \in Nat /\ Len(b) \in Nat
  OBVIOUS
<1> HIDE DEF s
<1>5. ASSUME NEW i \in 1..Len(s) PROVE s[i] # other
  <2>1. CASE i \in 1..Len(a)
    BY <1>2, <2>1 DEF Contains
  <2>2. CASE i = Len(a) + 1
    BY <1>1, <2>2
  <2>3. CASE i > Len(a) + 1
    <3>1. i - (Len(a) + 1) \in 1..Len(b) /\ Len(a) + 1 + (i - (Len(a) + 1)) = i
      BY <1>1, <1>4, <2>3
    <3>2. s[i] = b[i - (Len(a) + 1)]
      BY <1>3, <3>1
    <3> QED BY <3>1, <3>2 DEF Contains
  <2> QED BY <1>1, <1>4, <2>1, <2>2, <2>3
<1> QED BY <1>5 DEF Contains, s

LEMMA FirstAround ==
  ASSUME NEW T, NEW a \in Seq(T), NEW token \in T, NEW b \in Seq(T), ~Contains(a, token)
  PROVE  FirstOf(Around(a, token, b), token) = Len(a) + 1
<1> DEFINE s == Around(a, token, b)
<1>1. s \in Seq(T) /\ Len(s) = Len(a) + 1 + Len(b) /\ s[Len(a) + 1] = token
  BY AroundShape
<1>2. \A i \in 1..Len(a) : s[i] = a[i]
  BY AroundFront
<1>3. Len(a) \in Nat /\ Len(b) \in Nat
  OBVIOUS
<1> HIDE DEF s
<1>4. Len(a) + 1 \in 1..Len(s)
  BY <1>1, <1>3
<1>5. \A i \in 1..((Len(a) + 1) - 1) : s[i] # token
  BY <1>2, <1>3 DEF Contains
<1>6. FirstOf(s, token) = Len(a) + 1
  BY <1>1, <1>4, <1>5, FirstAt
<1> QED BY <1>6 DEF s

LEMMA LastAround ==
  ASSUME NEW T, NEW a \in Seq(T), NEW token \in T, NEW b \in Seq(T), ~Contains(b, token)
  PROVE  LastOf(Around(a, token, b), token) = Len(a) + 1
<1> DEFINE s == Around(a, token, b)
<1>1. s \in Seq(T) /\ Len(s) = Len(a) + 1 + Len(b) /\ s[Len(a) + 1] = token
  BY AroundShape
<1>2. \A i \in 1..Len(b) : s[Len(a) + 1 + i] = b[i]
  BY AroundBack
<1>3. Len(a) \in Nat /\ Len(b) \in Nat
  OBVIOUS
<1> HIDE DEF s
<1> DEFINE last == LastOf(s, token)
<1>4. Len(a) + 1 \in 1..Len(s)
  BY <1>1, <1>3
<1>5. \/ last = 0 /\ ~Contains(s, token)
      \/ /\ last \in 1..Len(s) /\ s[last] = token
         /\ \A i \in 1..Len(s) : s[i] = token => i <= last
  BY <1>1, LastIs
<1> HIDE DEF last
<1>6. /\ last \in 1..Len(s) /\ s[last] = token /\ Len(a) + 1 <= last
  BY <1>1, <1>4, <1>5 DEF Contains
<1>7. ~(last > Len(a) + 1)
  <2> SUFFICES ASSUME last > Len(a) + 1 PROVE FALSE
    OBVIOUS
  <2>1. last - (Len(a) + 1) \in 1..Len(b) /\ Len(a) + 1 + (last - (Len(a) + 1)) = last
    BY <1>1, <1>3, <1>6
  <2>2. b[last - (Len(a) + 1)] = token
    BY <1>2, <1>6, <2>1
  <2> QED BY <2>1, <2>2 DEF Contains
<1>8. last = Len(a) + 1
  BY <1>1, <1>3, <1>6, <1>7
<1> QED BY <1>8 DEF last, s

(* A token that is not behind the slash has the slash behind it. *)
LEMMA BeforeSlash ==
  ASSUME NEW T, NEW a \in Seq(T), "/" \in T, NEW b \in Seq(T), NEW token,
         token # "/", ~Contains(b, token),
         NEW k \in 1..Len(Around(a, "/", b)), Around(a, "/", b)[k] = token
  PROVE  Contains(After(Around(a, "/", b), k), "/")
<1> DEFINE s == Around(a, "/", b)
<1>1. s \in Seq(T) /\ Len(s) = Len(a) + 1 + Len(b) /\ s[Len(a) + 1] = "/"
  BY AroundShape
<1>2. \A i \in 1..Len(b) : s[Len(a) + 1 + i] = b[i]
  BY AroundBack
<1>3. Len(a) \in Nat /\ Len(b) \in Nat
  OBVIOUS
<1>4. k \in 1..Len(s) /\ s[k] = token
  OBVIOUS
<1> HIDE DEF s
<1>5. k < Len(a) + 1
  <2>1. k # Len(a) + 1
    BY <1>1, <1>4
  <2>2. ASSUME k > Len(a) + 1 PROVE FALSE
    <3>1. k - (Len(a) + 1) \in 1..Len(b) /\ Len(a) + 1 + (k - (Len(a) + 1)) = k
      BY <1>1, <1>3, <1>4, <2>2
    <3>2. b[k - (Len(a) + 1)] = token
      BY <1>2, <1>4, <3>1
    <3> QED BY <3>1, <3>2 DEF Contains
  <2>3. k \in Int /\ Len(a) + 1 \in Int
    BY <1>3, <1>4
  <2> QED BY <2>1, <2>2, <2>3
<1> DEFINE r == SubSeq(s, k + 1, Len(s))
<1>6. /\ Len(r) = IF k + 1 <= Len(s) THEN Len(s) - (k + 1) + 1 ELSE 0
      /\ \A i \in 1..(Len(s) - (k + 1) + 1) : r[i] = s[k + 1 + i - 1]
  <2>1. k + 1 \in Int /\ Len(s) \in Int /\ \A i \in (k + 1)..Len(s) : s[i] \in T
    BY <1>1, <1>4
  <2> QED BY <2>1, SubSeqProperties
<1> HIDE DEF r
<1> DEFINE j == Len(a) + 1 - k
<1>7. j \in 1..Len(r) /\ j \in 1..(Len(s) - (k + 1) + 1) /\ k + 1 + j - 1 = Len(a) + 1
  BY <1>1, <1>3, <1>4, <1>5, <1>6
<1>8. r[j] = "/"
  <2> HIDE DEF j
  <2> QED BY <1>1, <1>6, <1>7
<1>9. Contains(r, "/")
  <2> HIDE DEF j
  <2> QED BY <1>7, <1>8 DEF Contains
<1> QED BY <1>9 DEF r, s, After

LEMMA OneOrMore ==
  ASSUME NEW k \in Nat, k >= 1
  PROVE  k = 1 <=> ~(k > 1)
  OBVIOUS

(* Docker Hub's namespace in front of a single word. *)
LEMMA LibrarySlashed ==
  ASSUME NEW T, "/" \in T, "library" \in T, NEW p \in Seq(T), Len(p) = 1
  PROVE  <<"library", "/">> \o Slashed(p) = Slashed(<<"library">> \o p)
<1>1. p # <<>> /\ 1 \in 1..Len(p) /\ p[1] \in T
  <2>1. 1 \in 1..Len(p)
    OBVIOUS
  <2> QED BY <2>1, ElementOfSeq, EmptySeq
<1> DEFINE q == <<"library">> \o p
           r == <<"library", "/">> \o p
<1>2. Slashed(p) = p
  BY <1>1, SlashedIs
<1>3. q = <<"library", p[1]>>
  <2> DEFINE one == <<"library">>
             t == <<"library", p[1]>>
  <2>1. one \in Seq(T) /\ Len(one) = 1 /\ one[1] = "library"
    OBVIOUS
  <2>2. t \in Seq(T) /\ Len(t) = 2 /\ t[1] = "library" /\ t[2] = p[1]
    BY <1>1
  <2> HIDE DEF one, t
  <2>3. /\ one \o p \in Seq(T) /\ Len(one \o p) = Len(one) + Len(p)
        /\ \A i \in 1..(Len(one) + Len(p)) :
             (one \o p)[i] = IF i <= Len(one) THEN one[i] ELSE p[i - Len(one)]
    BY <2>1, ConcatProperties, Zenon
  <2>4. Len(one \o p) = 2 /\ (one \o p)[1] = "library" /\ (one \o p)[2] = p[1]
    BY <2>1, <2>3
  <2>5. \A i \in 1..Len(one \o p) : (one \o p)[i] = t[i]
    BY <2>2, <2>4
  <2>6. one \o p = t
    BY <2>2, <2>3, <2>4, <2>5, SeqEqual
  <2> QED BY <2>6 DEF one, t
<1>4. r = <<"library", "/", p[1]>>
  <2> DEFINE two == <<"library", "/">>
             t == <<"library", "/", p[1]>>
  <2>1. two \in Seq(T) /\ Len(two) = 2 /\ two[1] = "library" /\ two[2] = "/"
    OBVIOUS
  <2>2. t \in Seq(T) /\ Len(t) = 3 /\ t[1] = "library" /\ t[2] = "/" /\ t[3] = p[1]
    BY <1>1
  <2> HIDE DEF two, t
  <2>3. /\ two \o p \in Seq(T) /\ Len(two \o p) = Len(two) + Len(p)
        /\ \A i \in 1..(Len(two) + Len(p)) :
             (two \o p)[i] = IF i <= Len(two) THEN two[i] ELSE p[i - Len(two)]
    BY <2>1, ConcatProperties, Zenon
  <2>4. /\ Len(two \o p) = 3 /\ (two \o p)[1] = "library" /\ (two \o p)[2] = "/"
        /\ (two \o p)[3] = p[1]
    BY <2>1, <2>3
  <2>5. \A i \in 1..Len(two \o p) : (two \o p)[i] = t[i]
    BY <2>2, <2>4
  <2>6. two \o p = t
    BY <2>2, <2>3, <2>4, <2>5, SeqEqual
  <2> QED BY <2>6 DEF two, t
<1>5. Slashed(<<"library", p[1]>>) = <<"library", "/", p[1]>>
  BY DEF Slashed
<1> QED BY <1>2, <1>3, <1>4, <1>5

(* A name without tag and digest. *)
NameOf(host, path) ==
  IF host = <<>> THEN Slashed(path) ELSE Around(host, "/", Slashed(path))

(* The host is found if there is one, and no word of a path is taken for it. *)
LEMMA HostIsSplit ==
  ASSUME NEW T, {"/", "library"} \subseteq T,
         NEW host \in Seq(T), NEW path \in Seq(T), path # <<>>,
         host # <<>> => LooksLikeRegistry(host),
         ~Contains(host, "/"),
         \A token \in {"/", ":", "."} : ~Contains(path, token),
         host = <<>> /\ Len(path) > 1 => path[1] # "localhost"
  PROVE  LET hub == host \in {<<>>, DockerIo}
         IN  SplitRegistryRepo(NameOf(host, path))
               = [registry |-> IF hub THEN HubApi ELSE host,
                  repository |-> Slashed(IF hub /\ Len(path) = 1 THEN <<"library">> \o path
                                         ELSE path)]
<1> DEFINE hub == host \in {<<>>, DockerIo}
           name == NameOf(host, path)
           slash == FirstOf(name, "/")
           hosted == slash > 0 /\ LooksLikeRegistry(Before(name, slash))
<1>0. "/" \in T /\ "library" \in T
  OBVIOUS
<1>1. /\ Slashed(path) \in Seq(T) /\ Len(path) \in Nat /\ Len(path) >= 1
      /\ Len(path) > 1 => Slashed(path)[2] = "/" /\ Len(Slashed(path)) > 1
      /\ Slashed(path)[1] = path[1]
      /\ Len(path) = 1 => Slashed(path) = path
  BY <1>0, SlashedIs
<1>a. Len(path) = 1 <=> ~(Len(path) > 1)
  <2> HIDE DEF hub, name, slash, hosted
  <2>1. Len(path) \in Nat /\ Len(path) >= 1
    BY <1>1
  <2> QED BY <2>1, OneOrMore, Zenon
<1>2. Contains(Slashed(path), "/") <=> Len(path) > 1
  <2>1. CASE Len(path) > 1
    <3>1. 2 \in 1..Len(Slashed(path)) /\ Slashed(path)[2] = "/"
      BY <1>1, <2>1
    <3> QED BY <2>1, <3>1 DEF Contains
  <2>2. CASE Len(path) = 1
    BY <1>1, <2>2
  <2> QED BY <1>a, <2>1, <2>2
<1>3. LET h == IF hub THEN DockerIo ELSE host IN
      /\ (IF hosted THEN Before(name, slash) ELSE DockerIo) = h
      /\ (IF hosted THEN After(name, slash) ELSE name) = Slashed(path)
  <2>1. CASE host # <<>>
    <3>1. name = Around(host, "/", Slashed(path))
      BY <2>1 DEF NameOf
    <3>2. /\ name \in Seq(T) /\ Len(name) = Len(host) + 1 + Len(Slashed(path))
          /\ \A i \in 1..Len(host) : name[i] = host[i]
          /\ name[Len(host) + 1] = "/"
          /\ Before(name, Len(host) + 1) = host /\ After(name, Len(host) + 1) = Slashed(path)
      <4>1. "/" \in T /\ Slashed(path) \in Seq(T)
        BY <1>0, <1>1
      <4> HIDE DEF name, slash, hosted, hub
      <4>2. name \in Seq(T)
        BY <3>1, <4>1, AroundShape
      <4>6. Len(name) = Len(host) + 1 + Len(Slashed(path))
        BY <3>1, <4>1, AroundShape
      <4>7. name[Len(host) + 1] = "/"
        <5>1. Around(host, "/", Slashed(path))[Len(host) + 1] = "/"
          BY <4>1, AroundShape
        <5> QED BY <3>1, <5>1, Zenon
      <4>5. \A i \in 1..Len(host) : name[i] = host[i]
        BY <3>1, <4>1, AroundFront
      <4>3. Before(name, Len(host) + 1) = host
        BY <3>1, <4>1, CutBefore
      <4>4. After(name, Len(host) + 1) = Slashed(path)
        BY <3>1, <4>1, CutAfter
      <4> QED BY <4>2, <4>3, <4>4, <4>5, <4>6, <4>7, Zenon
    <3> HIDE DEF name
    <3>3. Len(host) \in Nat /\ Len(Slashed(path)) \in Nat
      BY <1>1
    <3>4. FirstOf(name, "/") = Len(host) + 1
      <4>1. Len(host) + 1 \in 1..Len(name)
        BY <3>2, <3>3
      <4>2. \A i \in 1..((Len(host) + 1) - 1) : name[i] # "/"
        BY <3>2, <3>3 DEF Contains
      <4> QED BY <3>2, <4>1, <4>2, FirstAt
    <3>5. hosted
      BY <2>1, <3>2, <3>3, <3>4
    <3>6. Before(name, slash) = host /\ After(name, slash) = Slashed(path)
      BY <3>2, <3>4
    <3> QED BY <2>1, <3>5, <3>6
  <2>2. CASE host = <<>> /\ Len(path) > 1
    <3>1. name = Slashed(path)
      BY <2>2 DEF NameOf
    <3>2. FirstOf(Slashed(path), "/") = 2
      <4>1. 2 \in 1..Len(Slashed(path)) /\ Slashed(path)[2] = "/"
        BY <1>1, <2>2
      <4>2. path[1] # "/"
        BY <1>1 DEF Contains
      <4>3. \A i \in 1..(2 - 1) : Slashed(path)[i] # "/"
        BY <1>1, <4>2
      <4> QED BY <1>1, <4>1, <4>3, FirstAt
    <3>3. Before(Slashed(path), 2) = <<path[1]>>
      <4> DEFINE t == SubSeq(Slashed(path), 1, 1)
      <4>0. /\ t \in Seq(T) /\ Len(t) = 1 /\ t[1] = Slashed(path)[1]
        BY <1>1, <2>2
      <4>1. t = <<Slashed(path)[1]>>
        <5> HIDE DEF t
        <5> QED BY <4>0
      <4> QED BY <1>1, <4>1 DEF Before
    <3>4. ~LooksLikeRegistry(<<path[1]>>)
      <4>1. path[1] \notin {":", ".", "localhost"}
        BY <1>1, <2>2 DEF Contains
      <4> QED BY <4>1, ContainsOne DEF LooksLikeRegistry
    <3>5. ~hosted
      BY <3>1, <3>2, <3>3, <3>4
    <3> HIDE DEF name, slash, hosted
    <3> QED BY <2>2, <3>1, <3>5
  <2>3. CASE host = <<>> /\ Len(path) = 1
    <3>1. name = Slashed(path)
      BY <2>3 DEF NameOf
    <3>2. FirstOf(Slashed(path), "/") = 0
      BY <1>1, <1>2, <2>3, FirstNone
    <3>3. ~hosted
      BY <3>1, <3>2
    <3> HIDE DEF name, slash, hosted
    <3> QED BY <2>3, <3>1, <3>3
  <2> QED BY <1>a, <2>1, <2>2, <2>3, Zenon
<1> DEFINE h == IF hosted THEN Before(name, slash) ELSE DockerIo
           repo == IF hosted THEN After(name, slash) ELSE name
<1>4. SplitRegistryRepo(name)
        = [registry |-> IF h = DockerIo THEN HubApi ELSE h,
           repository |-> IF h = DockerIo /\ ~Contains(repo, "/")
                          THEN <<"library", "/">> \o repo ELSE repo]
  <2> HIDE DEF name
  <2> QED BY DEF SplitRegistryRepo
<1>5. h = (IF hub THEN DockerIo ELSE host) /\ repo = Slashed(path)
  BY <1>3
<1>6. h = DockerIo <=> hub
  <2> HIDE DEF h
  <2> QED BY <1>5
<1>7. ~Contains(repo, "/") <=> Len(path) = 1
  <2>1. repo = Slashed(path)
    BY <1>5
  <2> HIDE DEF repo
  <2> QED BY <1>a, <1>2, <2>1, Zenon
<1>8. Len(path) = 1 => <<"library", "/">> \o Slashed(path) = Slashed(<<"library">> \o path)
  BY <1>0, LibrarySlashed
<1> HIDE DEF h, repo, hub, name, slash, hosted
<1>9. (IF h = DockerIo THEN HubApi ELSE h) = IF hub THEN HubApi ELSE host
  BY <1>5, <1>6
<1>10. (IF h = DockerIo /\ ~Contains(repo, "/") THEN <<"library", "/">> \o repo ELSE repo)
         = Slashed(IF hub /\ Len(path) = 1 THEN <<"library">> \o path ELSE path)
  <2>1. CASE hub /\ Len(path) = 1
    BY <1>5, <1>6, <1>7, <1>8, <2>1
  <2>2. CASE ~(hub /\ Len(path) = 1)
    BY <1>5, <1>6, <1>7, <2>2
  <2> QED BY <2>1, <2>2
<1> QED BY <1>4, <1>9, <1>10 DEF hub, name

(* What the program makes of the spelling of a name is what the name means. *)
LEMMA ReadsAsMeant ==
  ASSUME NEW n, WellNamed(n)
  PROVE  Parse(Spelled(n)) = Means(n)
<1> DEFINE T == (UNION {ToSet(part) : part \in {n.host, n.path, n.tag, n.digest}})
                  \cup {"/", ":", "@", ".", "library"}
           name == WholeName(n)
           place == SplitRegistryRepo(name)
           s == Spelled(n)
           at == FirstOf(s, "@")
           head == IF at > 0 THEN Before(s, at) ELSE s
           colon == LastOf(head, ":")
           tagged == at = 0 /\ colon > 0 /\ ~Contains(After(head, colon), "/")
           meant == IF n.digest # <<>> THEN n.digest ELSE IF n.tag # <<>> THEN n.tag ELSE Latest
<1>1. {"/", ":", "@", ".", "library"} \subseteq T
  OBVIOUS
<1>2. n.host \in Seq(T) /\ n.path \in Seq(T) /\ n.tag \in Seq(T) /\ n.digest \in Seq(T)
  <2>1. ASSUME NEW part \in {n.host, n.path, n.tag, n.digest} PROVE part \in Seq(T)
    <3>1. ToSet(part) \subseteq T
      OBVIOUS
    <3>2. part \in Seq(ToSet(part))
      BY DEF WellNamed
    <3> HIDE DEF T
    <3> QED BY <3>1, <3>2, SeqMonotonic
  <2> HIDE DEF T
  <2> QED BY <2>1
<1> HIDE DEF T
<1>3. /\ Slashed(n.path) \in Seq(T) /\ Slashed(n.path) # <<>>
      /\ \A i \in 1..Len(Slashed(n.path)) :
           Slashed(n.path)[i] = "/" \/ \E k \in 1..Len(n.path) : Slashed(n.path)[i] = n.path[k]
  <2>1. "/" \in T /\ n.path \in Seq(T) /\ n.path # <<>>
    BY <1>1, <1>2 DEF WellNamed
  <2> QED BY <2>1, SlashedIs
<1>4. ~Contains(Slashed(n.path), ":") /\ ~Contains(Slashed(n.path), "@")
  <2>1. ~Contains(n.path, ":") /\ ~Contains(n.path, "@")
    BY DEF WellNamed
  <2> QED BY <1>3, <2>1 DEF Contains
<1>5. name \in Seq(T) /\ name # <<>> /\ ~Contains(name, "@")
  <2>1. CASE n.host = <<>>
    BY <1>3, <1>4, <2>1 DEF WholeName
  <2>2. CASE n.host # <<>>
    <3>1. name = Around(n.host, "/", Slashed(n.path))
      BY <2>2 DEF WholeName
    <3>2. "/" \in T /\ "/" # "@"
      BY <1>1
    <3>3. ~Contains(n.host, "@")
      BY DEF WellNamed
    <3>4. name \in Seq(T) /\ name # <<>>
      BY <1>2, <1>3, <3>1, <3>2, AroundIsSeq
    <3>5. ~Contains(name, "@")
      BY <1>2, <1>3, <1>4, <3>1, <3>2, <3>3, ContainsAround
    <3> QED BY <3>4, <3>5
  <2> QED BY <2>1, <2>2
<1>6. place = [registry |-> Means(n).registry, repository |-> Means(n).repository]
  <2> DEFINE hub == n.host \in {<<>>, DockerIo}
  <2>1. /\ {"/", "library"} \subseteq T /\ n.path # <<>>
        /\ n.host # <<>> => LooksLikeRegistry(n.host)
        /\ ~Contains(n.host, "/")
        /\ \A token \in {"/", ":", "."} : ~Contains(n.path, token)
        /\ n.host = <<>> /\ Len(n.path) > 1 => n.path[1] # "localhost"
    BY <1>1 DEF WellNamed, LooksLikeRegistry
  <2>2. SplitRegistryRepo(NameOf(n.host, n.path))
          = [registry |-> IF hub THEN HubApi ELSE n.host,
             repository |-> Slashed(IF hub /\ Len(n.path) = 1 THEN <<"library">> \o n.path
                                    ELSE n.path)]
    BY <1>2, <2>1, HostIsSplit
  <2>3. name = NameOf(n.host, n.path)
    BY DEF WholeName, NameOf
  <2> QED BY <2>2, <2>3 DEF Means
<1>7. Parse(s) = IF (IF tagged THEN Before(head, colon) ELSE head) = <<>> THEN BadName
                 ELSE [registry |-> SplitRegistryRepo(IF tagged THEN Before(head, colon) ELSE head).registry,
                       repository |-> SplitRegistryRepo(IF tagged THEN Before(head, colon) ELSE head).repository,
                       reference |-> IF at > 0 THEN After(s, at)
                                     ELSE IF tagged THEN After(head, colon) ELSE Latest]
  <2> HIDE DEF s
  <2> QED BY DEF Parse
<1>8. /\ (IF tagged THEN Before(head, colon) ELSE head) = name
      /\ (IF at > 0 THEN After(s, at)
          ELSE IF tagged THEN After(head, colon) ELSE Latest) = meant
  <2>1. CASE n.digest # <<>>
    <3>1. s = Around(name, "@", n.digest)
      BY <2>1 DEF Spelled, WellNamed
    <3>2. "@" \in T
      BY <1>1
    <3>3. at = Len(name) + 1
      <4> HIDE DEF s, name
      <4> QED BY <1>2, <1>5, <3>1, <3>2, FirstAround
    <3>4. Before(s, at) = name /\ After(s, at) = n.digest /\ at > 0
      <4> HIDE DEF s, name, at
      <4>1. Len(name) \in Nat
        BY <1>5
      <4>2. Before(s, Len(name) + 1) = name
        BY <1>2, <1>5, <3>1, <3>2, CutBefore
      <4>3. After(s, Len(name) + 1) = n.digest
        BY <1>2, <1>5, <3>1, <3>2, CutAfter
      <4> QED BY <3>3, <4>1, <4>2, <4>3
    <3>5. head = name /\ ~tagged
      <4> HIDE DEF s, name
      <4> QED BY <3>4
    <3> HIDE DEF head, tagged, at, s, name
    <3> QED BY <2>1, <3>4, <3>5
  <2>2. CASE n.digest = <<>> /\ n.tag # <<>>
    <3>1. s = Around(name, ":", n.tag)
      BY <2>2 DEF Spelled
    <3>2. ":" \in T /\ ":" # "@"
      BY <1>1
    <3>3. \A token \in {"/", ":", "@"} : ~Contains(n.tag, token)
      BY DEF WellNamed
    <3> HIDE DEF s, name
    <3>4. s \in Seq(T) /\ ~Contains(s, "@")
      <4>1. ~Contains(n.tag, "@")
        BY <3>3
      <4> QED BY <1>2, <1>5, <3>1, <3>2, <4>1, AroundIsSeq, ContainsAround
    <3>5. at = 0 /\ head = s
      BY <3>4, FirstNone
    <3>6. LastOf(s, ":") = Len(name) + 1
      <4>1. ~Contains(n.tag, ":")
        BY <3>3
      <4> QED BY <1>2, <1>5, <3>1, <3>2, <4>1, LastAround
    <3>7. Before(s, Len(name) + 1) = name
      BY <1>2, <1>5, <3>1, <3>2, CutBefore
    <3>8. After(s, Len(name) + 1) = n.tag
      BY <1>2, <1>5, <3>1, <3>2, CutAfter
    <3>9. Len(name) + 1 > 0
      BY <1>5
    <3>10. colon = Len(name) + 1
      BY <3>5, <3>6
    <3> HIDE DEF head, at, colon
    <3>11. tagged /\ Before(head, colon) = name /\ After(head, colon) = n.tag
      BY <3>3, <3>5, <3>7, <3>8, <3>9, <3>10
    <3> HIDE DEF tagged
    <3> QED BY <2>2, <3>5, <3>11
  <2>3. CASE n.digest = <<>> /\ n.tag = <<>>
    <3>1. s = name
      BY <2>3 DEF Spelled
    <3> HIDE DEF s, name
    <3>2. at = 0 /\ head = name
      BY <1>5, <3>1, FirstNone
    <3>3. ~tagged
      <4>1. SUFFICES ASSUME LastOf(name, ":") > 0 PROVE Contains(After(name, LastOf(name, ":")), "/")
        BY <3>2
      <4>2. LastOf(name, ":") \in 1..Len(name) /\ name[LastOf(name, ":")] = ":"
        BY <1>5, <4>1, LastIs
      <4>3. n.host # <<>>
        BY <1>4, <4>2 DEF name, WholeName, Contains
      <4>4. name = Around(n.host, "/", Slashed(n.path))
        BY <4>3 DEF name, WholeName
      <4>5. "/" \in T /\ "/" # ":"
        BY <1>1
      <4> QED BY <1>2, <1>3, <1>4, <4>2, <4>4, <4>5, BeforeSlash
    <3> HIDE DEF head, tagged, at
    <3> QED BY <2>3, <3>2, <3>3
  <2> QED BY <2>1, <2>2, <2>3
<1> DEFINE rest == IF tagged THEN Before(head, colon) ELSE head
           what == IF at > 0 THEN After(s, at) ELSE IF tagged THEN After(head, colon) ELSE Latest
<1>9. rest = name /\ what = meant
  BY <1>8
<1> HIDE DEF s, at, head, colon, tagged
<1>10. Parse(s) = [registry |-> place.registry, repository |-> place.repository, reference |-> meant]
  <2>1. Parse(s) = IF rest = <<>> THEN BadName
                   ELSE [registry |-> SplitRegistryRepo(rest).registry,
                         repository |-> SplitRegistryRepo(rest).repository, reference |-> what]
    BY <1>7
  <2> HIDE DEF rest, what, name
  <2> QED BY <1>5, <1>9, <2>1
<1>11. Means(n) = [registry |-> Means(n).registry, repository |-> Means(n).repository,
                   reference |-> meant]
  BY DEF Means
<1> HIDE DEF place, meant
<1> QED BY <1>6, <1>10, <1>11 DEF s

(* Whatever host, path, tag or digest a name is made of, as long as it can *)
(* be read back from its spelling: the registry and the repository that    *)
(* are asked are those that are meant.                                     *)
THEOREM NamesAreRead ==
  ASSUME \A n \in Names : WellNamed(n)
  PROVE  Spec => []NamesReadAsMeant
<1>1. NamesReadAsMeant
  BY ReadsAsMeant DEF NamesReadAsMeant, ImageOf
<1> QED BY <1>1, PTL
=============================================================================
