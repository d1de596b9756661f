-------------------------- MODULE OverlaySemantics --------------------------
(***************************************************************************)
(* What a stack of OCI layers means, independently of how ocirender merges *)
(* it: layers are applied oldest first to an empty file system.  External  *)
(* to src/: this is the image builder's and the OCI image specification's  *)
(* side of the contract, as the merge engine uses it.                      *)
(*                                                                         *)
(* A file system maps each path that exists to [kind, id, layer]: id names *)
(* the content (and metadata) by the entry that created it, so two paths   *)
(* with the same id are hard links to one inode; layer is the layer that   *)
(* put the path there.                                                     *)
(***************************************************************************)
EXTENDS WhiteoutTracker, FiniteSets, Functions

NonDirKinds == {"file", "other", "link"}
AddKinds == NonDirKinds \cup {"dir"}
Kinds == AddKinds \cup {"whiteout", "opaque"}

EmptyFS == [p \in {} |-> p]

(* dir is strictly above path. *)
Above(dir, path) == dir # path /\ Covers(dir, path)

Without(fs, gone) == Restrict(fs, DOMAIN fs \ gone)

(* The paths a whiteout of this layer hides: only what lower layers put    *)
(* there.                                                                  *)
Hidden(fs, layer, e) ==
  {p \in DOMAIN fs : /\ fs[p].layer < layer
                     /\ Covers(e.path, p)
                     /\ e.kind = "opaque" => p # e.path}

(* fs with a node at path; a non-directory replaces a whole tree. *)
Put(fs, path, node) ==
  LET kept == IF node.kind = "dir" THEN {path}
              ELSE {p \in DOMAIN fs : Covers(path, p)}
  IN  [p \in (DOMAIN fs \ kept) \cup {path} |-> IF p = path THEN node ELSE fs[p]]

(* The content an entry gives its path. *)
Ident(fs, layer, e) == IF e.kind = "link" THEN fs[e.target].id ELSE <<layer, e.path>>

Apply(fs, layer, e) ==
  CASE e.kind = "dir" /\ e.path = Root -> fs
    [] e.kind \in {"whiteout", "opaque"} -> Without(fs, Hidden(fs, layer, e))
    [] e.kind = "link" ->
         Put(fs, e.path, [fs[e.target] EXCEPT !.layer = layer])
    [] OTHER ->
         Put(fs, e.path, [kind |-> e.kind, id |-> Ident(fs, layer, e), layer |-> layer])

(* A hard link of this layer to a file of a lower one. *)
LinkedBelow(entries, fs, layer) ==
  {entries[i].target : i \in {k \in DOMAIN entries :
       entries[k].kind = "link"}} \cap {p \in DOMAIN fs : fs[p].layer < layer}

(* An entry a builder may append to the top layer, which holds entries so  *)
(* far: no path twice, parents present, a link to an existing              *)
(* non-directory that the link itself does not replace, an opaque marker   *)
(* in a directory, a whiteout of something below, and nothing that takes   *)
(* away the target of a link this layer made to a lower one.               *)
Legal(fs, layer, entries, e) ==
  LET SameClass(k) == \/ k = e.kind
                      \/ {k, e.kind} \subseteq AddKinds
  IN
  /\ \A i \in DOMAIN entries : ~(entries[i].path = e.path /\ SameClass(entries[i].kind))
  /\ e.kind \in AddKinds =>
       \A p \in Paths : Above(p, e.path) => p \in DOMAIN fs /\ fs[p].kind = "dir"
  /\ e.kind \in NonDirKinds =>
       \A p \in DOMAIN fs : Above(e.path, p) => fs[p].layer < layer
  /\ e.kind = "link" =>
       e.target \in DOMAIN fs /\ fs[e.target].kind # "dir" /\ ~Above(e.path, e.target)
  /\ e.kind = "opaque" => e.path = Root \/ (e.path \in DOMAIN fs /\ fs[e.path].kind = "dir")
  /\ e.kind = "whiteout" => Hidden(fs, layer, e) # {}
  /\ \A t \in LinkedBelow(entries, fs, layer) :
       t \in DOMAIN Apply(fs, layer, e) /\ Apply(fs, layer, e)[t] = fs[t]
=============================================================================
