-------------------------- MODULE CredentialStore --------------------------
(***************************************************************************)
(* CredentialStore of ocirender-cli/src/registry/credentials.rs: what a    *)
(* client holds of ~/.docker/config.json, and which entry of it a registry *)
(* gets.  A file that exists is a document, empty, or garbled.             *)
(***************************************************************************)

CONSTANTS
  Hosts,       \* the keys of the auths map
  Hub,         \* registry-1.docker.io, one of them
  Legacy,      \* https://index.docker.io/v1/, the key of other tools for Hub
  AccountsOf   \* per host, the accounts it has (user name and password)

NoAccount == "none"
Undecodable == "undecodable"
Accounts == UNION {AccountsOf[h] : h \in Hosts}

ASSUME HostsAssumption ==
  /\ DOMAIN AccountsOf = Hosts
  /\ Hub \in Hosts /\ Legacy \in Hosts /\ Hub # Legacy
  /\ NoAccount \notin Accounts /\ Undecodable \notin Accounts

(* config.json is not there, or is text that is no document. *)
Absent == [kind |-> "absent"]
Empty == [kind |-> "empty"]
Garbled == [kind |-> "garbled"]

(* The auths map, and the fields ocirender knows nothing of. *)
Document(auths, rest) == [kind |-> "document", auths |-> auths, rest |-> rest]
Entries ==
  {e \in [Hosts -> Accounts \cup {NoAccount, Undecodable}] :
     \A h \in Hosts : e[h] \in AccountsOf[h] \cup {NoAccount, Undecodable}}
Stores ==
  {e \in [Hosts -> Accounts \cup {NoAccount}] :
     \A h \in Hosts : e[h] \in AccountsOf[h] \cup {NoAccount}}

EmptyStore == [h \in Hosts |-> NoAccount]
EmptyDocument == Document(EmptyStore, 0)

(* Mutant: one entry that cannot be decoded spoils the whole file. *)
LoadStrict(file) ==
  IF file.kind # "document" \/ \E h \in Hosts : file.auths[h] = Undecodable
  THEN EmptyStore ELSE file.auths

(* load, and main's unwrap_or_default: a file that cannot be read or       *)
(* parsed, like one that is not there, is a store without entries; an      *)
(* entry that cannot be decoded is left out.                               *)
Load(file) ==
  IF file.kind # "document" THEN EmptyStore
  ELSE [h \in Hosts |-> IF file.auths[h] = Undecodable THEN NoAccount ELSE file.auths[h]]

Lookup(store, host) ==
  IF store[host] # NoAccount THEN store[host]
  ELSE IF host = Hub THEN store[Legacy] ELSE NoAccount
=============================================================================
