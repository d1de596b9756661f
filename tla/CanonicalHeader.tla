---------------------------- MODULE CanonicalHeader -------------------------
(***************************************************************************)
(* Tar headers with their PAX records, src/canonical.rs: what is captured  *)
(* of a layer's member, and the members written in its place.              *)
(*                                                                         *)
(* A path is a sequence of pieces: leading "./" and "/", then names.  The  *)
(* width of a piece is its bytes, slash included; what does not fit a      *)
(* field of the header is cut off.  An empty path is a field left empty.   *)
(* A member is the header with what stands before it in the archive: the   *)
(* PAX records, and the GNU records of a long name or link.                *)
(***************************************************************************)
EXTENDS Integers, Sequences, SequencesExt

CONSTANTS
  Width,           \* bytes of each piece of a path
  NameField,       \* bytes of the header's name and linkname
  PrefixField,     \* bytes of a USTAR header's prefix
  RecordsSurvive   \* a reader keeps PAX records across a GNU record

ASSUME FieldAssumption ==
  /\ NameField \in Nat /\ PrefixField \in Nat
  /\ \A piece \in DOMAIN Width : Width[piece] \in Nat
  /\ RecordsSurvive \in BOOLEAN

Bytes(path) == FoldLeft(LAMBDA n, piece : n + Width[piece], 0, path)
InField(path) == Bytes(path) <= NameField
Cut(path) == IF InField(path) THEN path ELSE <<"cut">>

(* The GNU.sparse records: of the map or its version, the file's size and  *)
(* its name.                                                               *)
SparseKeys == {"sparse_map", "sparse_size", "sparse_name"}
Without(pax, keys) == Restrict(pax, DOMAIN pax \ keys)

----------------------------------------------------------------------------
(* The tar crate. *)

Records(m) == IF m.longname = <<>> \/ RecordsSurvive THEN m.pax ELSE << >>

SeenPath(m) ==
  CASE m.longname # <<>>        -> m.longname
    [] "path" \in DOMAIN Records(m) -> Records(m)["path"]
    [] OTHER                    -> m.prefix \o m.name

SeenLink(m) ==
  CASE m.longlink # <<>>            -> m.longlink
    [] "linkpath" \in DOMAIN Records(m) -> Records(m)["linkpath"]
    [] OTHER                        -> m.linkname

SeenSize(m) == IF "size" \in DOMAIN Records(m) THEN Records(m)["size"] ELSE m.size

(* The longest front of a path that fits the prefix, when the rest fits    *)
(* the name.                                                               *)
Splits(path) ==
  LET fronts == {k \in 1..(Len(path) - 1) : Bytes(SubSeq(path, 1, k)) <= PrefixField}
  IN  {k \in fronts : /\ \A j \in fronts : j <= k
                      /\ InField(SubSeq(path, k + 1, Len(path)))}

(* The builder puts a path into the header if it can, else into a GNU      *)
(* record; it does not empty a prefix it has no use for.                   *)
AppendData(c, path) ==
  IF InField(path) THEN [c EXCEPT !.name = path]
  ELSE IF c.kind = "ustar" /\ Splits(path) # {}
  THEN LET k == CHOOSE k \in Splits(path) : TRUE
       IN  [c EXCEPT !.prefix = SubSeq(path, 1, k), !.name = SubSeq(path, k + 1, Len(path))]
  ELSE [c EXCEPT !.longname = path, !.name = Cut(path)]

----------------------------------------------------------------------------
(* Capture. *)

(* Mutant: the header keeps the size of the chunks. *)
MakeRegularKeepsSize(c, size) == [c EXCEPT !.type = "file", !.pax = Without(@, SparseKeys)]

MakeRegular(c, size) ==
  [c EXCEPT !.type = "file", !.size = size, !.pax = Without(@, SparseKeys)]

(* GNU records are not part of what is captured, but a target in one       *)
(* becomes a PAX record; an old GNU sparse file is captured as the regular *)
(* file, of the size given, that it reads back as.                         *)
FromEntry(m, size) ==
  LET pax == IF "linkpath" \notin DOMAIN m.pax /\ SeenLink(m) # m.linkname
             THEN [key \in DOMAIN m.pax \cup {"linkpath"} |->
                     IF key = "linkpath" THEN SeenLink(m) ELSE m.pax[key]]
             ELSE m.pax
      c == [m EXCEPT !.pax = pax, !.longname = <<>>, !.longlink = <<>>]
  IN  IF c.type = "sparse" THEN MakeRegular(c, size) ELSE c

LinkName(c) == IF "linkpath" \in DOMAIN c.pax THEN c.pax["linkpath"] ELSE c.linkname

Past(lead, path) ==
  LET rest == {i \in DOMAIN path : path[i] # lead}
  IN  IF rest = {} THEN <<>> ELSE SubSeq(path, Min(rest), Len(path))

(* All leading "./" go, then all leading "/". *)
NormalizePath(path) == Past("/", Past("./", path))

----------------------------------------------------------------------------
(* Sparse files in PAX format, src/sparse.rs. *)

(* A path record would only name the placeholder. *)
RewriteHeader(c, real) ==
  [MakeRegular(c, real) EXCEPT
     !.pax = IF "sparse_name" \in DOMAIN c.pax THEN Without(@, {"path"}) ELSE @]

----------------------------------------------------------------------------
(* What is written. *)

CloneAsRegular(c) ==
  [c EXCEPT !.type = "file", !.pax = Without(@, {"path", "linkpath"} \cup SparseKeys)]

(* Mutant: the source's prefix is left in the header. *)
HeaderForEmitKeepsPrefix(c) == [c EXCEPT !.owner = FALSE]

HeaderForEmit(c) == [c EXCEPT !.prefix = <<>>, !.owner = FALSE]

WriteToTar(c, path) ==
  AppendData([HeaderForEmit(c) EXCEPT !.pax = Without(@, {"uname"})], path)

(* Records only for what does not fit, and never a GNU record. *)
WriteHardlinkToTar(c, path, target) ==
  LET record == [path |-> path, linkpath |-> target]
  IN  [HeaderForEmit(c) EXCEPT
         !.type = "link", !.size = 0, !.name = Cut(path), !.linkname = Cut(target),
         !.pax = Restrict(record, {key \in DOMAIN record : ~InField(record[key])})]
=============================================================================
