----------------------------- MODULE TokenCache -----------------------------
(***************************************************************************)
(* get_authed and resolve_token of ocirender-cli/src/registry/client.rs:   *)
(* tasks that share one client request resources, are told by the registry *)
(* or its mirror to authenticate, and take a bearer token from the shared  *)
(* cache or fetch one from the realm that the challenge names.  The cache  *)
(* is locked only while it is read or written, never while a request is    *)
(* under way.                                                              *)
(*                                                                         *)
(* The servers and their token endpoints are external: a token is valid    *)
(* for the key (registry and scope) it was issued for, until it expires.   *)
(***************************************************************************)
EXTENDS CredentialStore, ImageReference, FiniteSets

CONSTANTS
  Tasks,      \* tasks that share the client
  Names,      \* the names of the images they request, as users mean them
  Mirrors,    \* what --registry-mirror may say, or NoMirror
  RealmsOf,   \* per registry and mirror, the realms its challenges may name
  MaxTokens,  \* bound on the tokens issued
  Requests,   \* bound on the requests of each task
  Faults      \* what may happen, a subset of AllFaults

AllFaults == {"refuse", "no token", "expire"}

ASSUME CacheAssumption ==
  /\ MaxTokens \in Nat /\ Requests \in Nat
  /\ Faults \subseteq AllFaults

VARIABLES
  store,      \* the credentials the client was made with, or NoStore
  mirror,     \* the mirror it was made with, or NoMirror
  cache,      \* key -> token, or NoToken
  task,       \* per task: where it is, what it requests, its token and realm
  made,       \* requests each task has made
  issued,     \* token -> the key it was issued for, in order
  live,       \* the tokens that have not expired
  sent        \* which account went to which realm, for which registry

registry == <<issued, live>>
client == <<store, mirror>>
tokenVars == <<client, cache, task, made, registry, sent>>

(* The names as the program reads them, and what it keeps tokens under. *)
ImageOf == [n \in Names |-> Parse(Spelled(n))]
Keys == {CacheKey(ImageOf[n]) : n \in Names}

NoMirror == <<>>

(* The store has an entry, or NoAccount, for every registry, and every     *)
(* server that is asked has its realms.                                    *)
ASSUME NamesAssumption ==
  /\ \A k \in Keys : k.registry \in Hosts \cap DOMAIN RealmsOf
  /\ Mirrors \ {NoMirror} \subseteq DOMAIN RealmsOf

NoStore == <<>>
NoToken == 0
NoKey == CacheKey(BadName)
NoRealm == "none"
Realms == UNION {RealmsOf[s] : s \in DOMAIN RealmsOf}
At(step, key, token, realm) == [step |-> step, key |-> key, token |-> token, realm |-> realm]
Idle == At("idle", NoKey, NoToken, NoRealm)

TokenInit ==
  /\ store = NoStore /\ mirror = NoMirror
  /\ cache = [k \in Keys |-> NoToken]
  /\ task = [t \in Tasks |-> Idle]
  /\ made = [t \in Tasks |-> 0]
  /\ issued = <<>> /\ live = {} /\ sent = {}

Becomes(t, state) == task' = [task EXCEPT ![t] = state]

(* RegistryClient::new, with what load returned. *)
NewClient(loaded) ==
  /\ store = NoStore
  /\ store' = loaded /\ mirror' \in Mirrors
  /\ UNCHANGED <<cache, task, made, registry, sent>>

(* Mutant: the mirror stands in for every registry. *)
BaseUrlForAll(host) == IF mirror # NoMirror THEN mirror ELSE host

(* base_url: the mirror stands in for Docker Hub. *)
BaseUrl(host) == IF host = Hub /\ mirror # NoMirror THEN mirror ELSE host

----------------------------------------------------------------------------
(* get_authed. *)

(* The request is sent without a token, and answered with what it asked    *)
(* for, with an error, or with a challenge that names a realm.  A task     *)
(* whose request failed makes no other.                                    *)
Ask(t) ==
  /\ store # NoStore
  /\ task[t].step \in {"idle", "ok"} /\ made[t] < Requests
  /\ made' = [made EXCEPT ![t] = @ + 1]
  /\ \E k \in Keys :
       \/ \E step \in {"ok", "failed"} : Becomes(t, At(step, k, NoToken, NoRealm))
       \/ \E realm \in RealmsOf[BaseUrl(k.registry)] :
            Becomes(t, At("challenged", k, NoToken, realm))
  /\ UNCHANGED <<client, cache, registry, sent>>

(* The challenge names no Bearer realm. *)
NoChallenge(t) ==
  /\ "refuse" \in Faults
  /\ task[t].step = "challenged"
  /\ Becomes(t, [task[t] EXCEPT !.step = "failed"])
  /\ UNCHANGED <<client, cache, made, registry, sent>>

(* The repeated request is answered with any other error. *)
Refuse(t) ==
  /\ "refuse" \in Faults
  /\ task[t].step = "retry"
  /\ Becomes(t, [task[t] EXCEPT !.step = "failed"])
  /\ UNCHANGED <<client, cache, made, registry, sent>>

(* Mutant: a second 401 is answered like the first. *)
RetryOnAndOn(t) ==
  /\ task[t].step = "retry"
  /\ Becomes(t, [task[t] EXCEPT !.step =
       IF task[t].token \in live THEN "ok" ELSE "challenged"])
  /\ UNCHANGED <<client, cache, made, registry, sent>>

(* The request is repeated with the token: a second 401 is an error. *)
Retry(t) ==
  /\ task[t].step = "retry"
  /\ Becomes(t, [task[t] EXCEPT !.step =
       IF task[t].token \in live /\ issued[task[t].token] = task[t].key
       THEN "ok" ELSE "failed"])
  /\ UNCHANGED <<client, cache, made, registry, sent>>

----------------------------------------------------------------------------
(* resolve_token. *)

(* Mutant: any cached token will do. *)
LookUpAny(t) ==
  /\ task[t].step = "challenged"
  /\ \E k \in Keys :
       Becomes(t, [task[t] EXCEPT !.step = IF cache[k] # NoToken THEN "retry" ELSE "fetch",
                                  !.token = cache[k]])
  /\ UNCHANGED <<client, cache, made, registry, sent>>

LookUp(t) ==
  /\ task[t].step = "challenged"
  /\ LET token == cache[task[t].key] IN
     Becomes(t, [task[t] EXCEPT !.step = IF token # NoToken THEN "retry" ELSE "fetch",
                                !.token = token])
  /\ UNCHANGED <<client, cache, made, registry, sent>>

(* The account the store has for the image's registry, or none, goes to    *)
(* the realm of the challenge, whoever that is.                            *)
Sends(t) ==
  LET host == task[t].key.registry IN
  sent' = sent \cup {[registry |-> host, account |-> Lookup(store, host),
                      realm |-> task[t].realm]}

(* The endpoint issues a token; nothing is locked meanwhile. *)
Fetch(t) ==
  /\ task[t].step = "fetch" /\ Len(issued) < MaxTokens
  /\ Sends(t)
  /\ issued' = Append(issued, task[t].key)
  /\ live' = live \cup {Len(issued')}
  /\ Becomes(t, [task[t] EXCEPT !.step = "store", !.token = Len(issued')])
  /\ UNCHANGED <<client, cache, made>>

(* The endpoint refuses, or its answer holds no token. *)
FetchFails(t) ==
  /\ "no token" \in Faults /\ task[t].step = "fetch"
  /\ Sends(t)
  /\ Becomes(t, [task[t] EXCEPT !.step = "failed"])
  /\ UNCHANGED <<client, cache, made, registry>>

(* The last of several tasks that fetched at once has its token kept. *)
Store(t) ==
  /\ task[t].step = "store"
  /\ cache' = [cache EXCEPT ![task[t].key] = task[t].token]
  /\ Becomes(t, [task[t] EXCEPT !.step = "retry"])
  /\ UNCHANGED <<client, made, registry, sent>>

----------------------------------------------------------------------------

(* A token reaches the end of its time. *)
Expire ==
  /\ "expire" \in Faults
  /\ \E n \in live : live' = live \ {n}
  /\ UNCHANGED <<client, cache, task, made, issued, sent>>

Request(t) == Retry(t) \/ LookUp(t) \/ Fetch(t) \/ Store(t)

TokenNext ==
  \/ Expire
  \/ \E t \in Tasks : Ask(t) \/ Request(t) \/ NoChallenge(t) \/ Refuse(t) \/ FetchFails(t)

----------------------------------------------------------------------------
(* Properties. *)

(* Every variable has its type. *)
TokenTypeOK ==
  /\ store \in Stores \cup {NoStore} /\ mirror \in Mirrors \cup {NoMirror}
  /\ cache \in [Keys -> 0..MaxTokens]
  /\ task \in [Tasks -> [step : {"idle", "challenged", "fetch", "store", "retry",
                                 "ok", "failed"},
                          key : Keys \cup {NoKey}, token : 0..MaxTokens,
                          realm : Realms \cup {NoRealm}]]
  /\ made \in [Tasks -> 0..Requests]
  /\ issued \in Seq(Keys) /\ Len(issued) <= MaxTokens
  /\ live \subseteq DOMAIN issued

(* A task repeats its request with a token issued for the registry and     *)
(* scope of that request, and so does whoever finds the token in the       *)
(* cache: the tasks of different images never get each other's.            *)
TokensFitRequests ==
  /\ \A t \in Tasks : task[t].step = "retry" => issued[task[t].token] = task[t].key
  /\ \A k \in Keys : cache[k] # NoToken => issued[cache[k]] = k

(* Requests go to the registry and the repository that a name means,       *)
(* however it is spelled: with or without Docker Hub's host and library/,  *)
(* with a port, a tag or a digest.                                         *)
NamesReadAsMeant ==
  store # NoStore => \A n \in Names : ImageOf[n] = Means(n)

(* Every request that is challenged ends: no task waits for another. *)
RequestsEnd ==
  \A t \in Tasks : task[t].step = "challenged" ~> task[t].step \in {"ok", "failed"}

----------------------------------------------------------------------------
(* Statements of the source that some execution contradicts. *)

(* A request that is answered with 401 is repeated with a token that is    *)
(* fetched or retrieved from the cache: one that the registry can accept,  *)
(* since otherwise the repetition is a second 401 and the request fails.   *)
RetryIsUseful ==
  [][\A t \in Tasks : task[t].step = "challenged" /\ task'[t].step = "retry"
                        => task'[t].token \in live]_tokenVars

(* A repository is a name with its namespace, and no tag is part of it. *)
NoTagInRepository ==
  store # NoStore => \A n \in Names : ~Contains(ImageOf[n].repository, ":")
=============================================================================
