-------------------------- MODULE WhiteoutTracker --------------------------
(***************************************************************************)
(* The whiteout trie of src/tracker.rs.                                    *)
(*                                                                         *)
(* A path is the sequence of its normal components; the root directory is  *)
(* the empty sequence.  The trie is a function from the nodes to the index *)
(* of the layer whose whiteout is recorded there, or NoWhiteout.  A node   *)
(* that does not exist and one that exists without a state are the same    *)
(* thing to every query, so both are NoWhiteout; a simple and an opaque    *)
(* state are treated alike by is_suppressed, so only the index is kept.    *)
(***************************************************************************)
EXTENDS Integers, Sequences

CONSTANTS
  Names,    \* path components
  Paths     \* every path an entry or a link target may name

Root == <<>>
Nodes == Paths \cup {Root}

ASSUME PathsAreSequences ==
  \A p \in Paths : p \in Seq(Names) /\ p # Root

(* Every directory on the way to a path has a node of its own: the trie    *)
(* creates the intermediate nodes when it inserts.                         *)
ASSUME PathsArePrefixClosed ==
  \A p \in Paths : \A i \in 1..Len(p) : SubSeq(p, 1, i) \in Paths

NoWhiteout == -1

EmptyTrie == [n \in Nodes |-> NoWhiteout]

(* insert_simple and insert_opaque: whatever the node recorded before is   *)
(* overwritten, whichever layer it came from.                              *)
Insert(trie, path, layer) == [trie EXCEPT ![path] = layer]

(* The node at depth i on the way to path.                                 *)
Ancestor(path, i) == IF i = 0 THEN Root ELSE SubSeq(path, 1, i)

(* Mutant: the whiteout applies to its own layer too. *)
SuppressedInclusive(trie, path, current) ==
  /\ path # Root
  /\ \E i \in 0..Len(path) :
        /\ trie[Ancestor(path, i)] # NoWhiteout
        /\ \A j \in 0..(i - 1) : trie[Ancestor(path, j)] = NoWhiteout
        /\ current <= trie[Ancestor(path, i)]

(* Mutant: only the terminal node is looked at. *)
SuppressedExact(trie, path, current) == path # Root /\ current < trie[path]

(* The query walks down from the root and answers at the first node that   *)
(* has a state, whatever is recorded further down.  The loop runs once per *)
(* component, so the root itself is never suppressed.                      *)
IsSuppressed(trie, path, current) ==
  /\ path # Root
  /\ \E i \in 0..Len(path) :
        /\ trie[Ancestor(path, i)] # NoWhiteout
        /\ \A j \in 0..(i - 1) : trie[Ancestor(path, j)] = NoWhiteout
        /\ current < trie[Ancestor(path, i)]

(* dir is path or one of the directories above it.                         *)
Covers(dir, path) == \E i \in 0..Len(path) : dir = Ancestor(path, i)
=============================================================================
