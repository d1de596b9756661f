-------------------------------- MODULE Auth --------------------------------
(***************************************************************************)
(* A fetch or pull of a private image beside logins: main loads the        *)
(* credential file once, when it starts, and the tasks of its client take  *)
(* tokens with what was loaded.                                            *)
(***************************************************************************)
EXTENDS Credentials, TokenCache

vars == <<fileVars, tokenVars>>

Init == FileInit /\ TokenInit

(* main: load, and RegistryClient::new. *)
Start == NewClient(Load(file)) /\ UNCHANGED fileVars

Next ==
  \/ Start
  \/ FileNext /\ UNCHANGED tokenVars
  \/ TokenNext /\ UNCHANGED fileVars

Spec == Init /\ [][Next]_vars

(* Every answer comes, and every task that has its answer goes on. *)
FairSpec == Spec /\ \A t \in Tasks : WF_vars(Request(t) /\ UNCHANGED fileVars)

----------------------------------------------------------------------------
(* Properties. *)

(* An account is used for its own registry alone, whatever logins and      *)
(* other tools do to the file (one under Docker Hub's old key for Docker   *)
(* Hub), and goes to a realm that this registry names, or, for Docker Hub, *)
(* that the configured mirror does; never to a realm that only another     *)
(* registry, or the mirror in place of another registry, has named.        *)
OwnAccount ==
  \A s \in sent :
    LET hub == s.registry = Hub
        named == RealmsOf[s.registry]
                 \cup IF hub /\ mirror # NoMirror THEN RealmsOf[mirror] ELSE {}
    IN  \/ s.account = NoAccount
        \/ /\ s.account \in AccountsOf[s.registry] \cup IF hub THEN AccountsOf[Legacy] ELSE {}
           /\ s.realm \in named

(* A client has the account of every login that returned before it was     *)
(* made, unless a write is under way then or was spoiled before.           *)
LoginsAreSeen ==
  [][store # store' /\ ~disturbed /\ (\A p \in Logins : ~InStep(p, "writing"))
       => \A p \in Logins :
            InStep(p, "saved") /\ expected.auths[LoginTo[p]] = login[p].account
              => store'[LoginTo[p]] = login[p].account]_vars
=============================================================================
