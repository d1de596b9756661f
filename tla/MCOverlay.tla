----------------------------- MODULE MCOverlay -----------------------------
EXTENDS Overlay

CONSTANTS a, b, c

Add(k, ps) == {[kind |-> k, path |-> p, target |-> Root] : p \in ps}
LinkEntries(ps, ts) ==
  {e \in [kind : {"link"}, path : ps, target : ts] : e.path # e.target}

(* Three names in the root directory, which has an entry too, as in most   *)
(* layers.                                                                 *)
FlatPaths == {<<a>>, <<b>>, <<c>>}
FlatEntries == Add("file", FlatPaths) \cup Add("whiteout", FlatPaths)
               \cup LinkEntries(FlatPaths, FlatPaths) \cup Add("dir", {Root})

(* A directory, two names in it and one beside it, and the root itself. *)
TreePaths == {<<a>>, <<a, b>>, <<a, c>>, <<b>>}
TreeEntries ==
  Add("file", {<<a, b>>, <<b>>}) \cup Add("other", {<<a>>, <<a, b>>})
  \cup Add("dir", {Root, <<a>>})
  \cup Add("whiteout", TreePaths) \cup Add("opaque", {<<a>>, Root})
  \cup LinkEntries({<<a, c>>, <<b>>}, {<<a, b>>, <<b>>})

Names3 == Permutations({a, b, c})
=============================================================================
