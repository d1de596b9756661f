------------------------------ MODULE Emission ------------------------------
(***************************************************************************)
(* One member of a layer on its way through the merge, process_layer in    *)
(* src/overlay.rs: its header and records are captured (CanonicalHeader),  *)
(* a sparse file is expanded (SparseReader), and it is written at its      *)
(* normalised path; or, when its path is suppressed, buffered and later    *)
(* written as the file of a group of hard links; or, when it is a hard     *)
(* link, written as one.                                                   *)
(*                                                                         *)
(* The member is what some archiver made of a file: the forms are those of *)
(* USTAR, GNU and PAX archives and GNU tar's four forms of sparse files.   *)
(* Data other than that of PAX sparse files is read by the tar crate.      *)
(***************************************************************************)
EXTENDS SparseReader, CanonicalHeader

CONSTANTS
  Forms,             \* forms of the archives
  Roots,             \* what archivers put in front of a path
  Names,             \* paths of files, without that
  SparseNames,       \* paths of PAX sparse files
  GroupNames,        \* paths of the links of a group
  SizeField,         \* the largest size the header of a PAX archive holds
  SparseData         \* the most data of a PAX sparse file

ASSUME EmissionAssumption ==
  /\ Forms \subseteq {"ustar", "gnu", "old sparse", "pax", "0.0", "0.1", "1.0"}
  /\ SizeField \in Nat /\ SparseData \in Nat

VARIABLES
  meant,      \* the file the archiver was given
  member,     \* what it made of it
  canonical,  \* what was captured, with the path
  fate,       \* "none", "emitted", "buffered" or "linked"
  written     \* the members of the output, in order

emissionVars == <<vars, meant, member, canonical, fate, written>>
headerVars == <<meant, member, canonical, fate, written>>

PaxSparse == {"0.0", "0.1", "1.0"}
Placeholder == <<"sparse0">>
Uncaptured == [path |-> <<>>]

----------------------------------------------------------------------------
(* Archivers. *)

Meaning ==
  [form : Forms, root : Roots, path : Names, type : {"file", "symlink", "link"}, target : Names]

(* Roots are "./" and "/" in the order normalize_path takes them off, and  *)
(* no path begins with one.                                                *)
Spelled(roots, paths) ==
  /\ {"./", "/"} \subseteq DOMAIN Width
  /\ \A r \in roots : /\ r \in Seq({"./", "/"})
                      /\ \E k \in 0..Len(r) : \A i \in DOMAIN r :
                           r[i] = IF i <= k THEN "./" ELSE "/"
  /\ \A p \in paths : p \in Seq(DOMAIN Width) /\ p # <<>> /\ p[1] \notin {"./", "/"}

(* Only links have targets; a USTAR archive holds what fits its fields.    *)
Archivable(f) ==
  /\ f.type = "file" => f.target = f.path
  /\ f.form \notin {"ustar", "gnu", "pax"} => f.type = "file"
  /\ f.form \in PaxSparse => f.path \in SparseNames
  /\ f.form = "ustar" => /\ InField(f.root \o f.path) \/ Splits(f.root \o f.path) # {}
                         /\ InField(f.root \o f.target)

(* The header as the builder leaves it, and then the records of the form. *)
Archived(f) ==
  LET path == f.root \o f.path
      target == IF f.type = "file" THEN <<>> ELSE f.root \o f.target
      stored == IF f.type = "file" THEN entry.data ELSE 0
      gnu == f.form \in {"gnu", "old sparse"}
      named == f.form \in {"0.1", "1.0"}
      blank == [kind |-> IF gnu THEN "gnu" ELSE "ustar",
                type |-> IF f.form = "old sparse" THEN "sparse" ELSE f.type,
                prefix |-> <<>>, name |-> <<>>, linkname |-> Cut(target),
                longname |-> <<>>, longlink |-> IF gnu /\ ~InField(target) THEN target ELSE <<>>,
                size |-> stored, owner |-> TRUE, pax |-> << >>]
      record == [uname |-> "root", xattr |-> "capability",
                 path |-> IF named THEN Placeholder ELSE path, linkpath |-> target,
                 size |-> stored, sparse_map |-> entry.map, sparse_size |-> entry.real,
                 sparse_name |-> path]
      Needed(key) ==
        CASE key = "path"        -> named \/ ~InField(path)
          [] key = "linkpath"    -> ~InField(target)
          [] key = "size"        -> stored > SizeField
          [] key = "sparse_map"  -> Recognised(entry)
          [] key = "sparse_size" -> f.form \in PaxSparse
          [] key = "sparse_name" -> named
          [] OTHER               -> TRUE
  IN  IF gnu \/ f.form = "ustar" THEN AppendData(blank, path)
      ELSE [blank EXCEPT !.pax = Restrict(record, {key \in DOMAIN record : Needed(key)}),
                          !.name = IF named THEN Placeholder ELSE Cut(path)]

(* A file that is not sparse is one chunk; the old sparse form has a map   *)
(* the tar crate accepts.                                                  *)
EntryOf(f) ==
  CASE f.form \in PaxSparse ->
         /\ entry.format \in {"bad", f.form}
         /\ entry.data <= SparseData
    [] f.form = "old sparse" ->
         entry.format = "none" /\ WellFormed(entry) /\ entry.data = Stored(entry)
    [] OTHER ->
         /\ entry.format = "none" /\ entry.real = entry.data
         /\ f.type # "file" => entry.real = 0
         /\ entry.map = IF entry.real = 0 THEN <<>>
                        ELSE <<[offset |-> 0, len |-> entry.real]>>

EmissionInit ==
  /\ Init
  /\ meant \in {f \in Meaning : EntryOf(f) /\ Archivable(f)}
  /\ member = Archived(meant)
  /\ canonical = Uncaptured
  /\ fate = "none"
  /\ written = <<>>

----------------------------------------------------------------------------
(* process_layer. *)

RawPath(c) ==
  IF "sparse_name" \in DOMAIN c.pax THEN c.pax["sparse_name"] ELSE SeenPath(member)

(* The header is captured; the records say whether the file is sparse. *)
Capture ==
  /\ canonical = Uncaptured
  /\ LET c == FromEntry(member, entry.real) IN
     canonical' = [header |-> c, path |-> NormalizePath(RawPath(c))]
  /\ Detect
  /\ UNCHANGED <<meant, member, fate, written>>

ExpandSparse ==
  /\ Expand
  /\ canonical' = [canonical EXCEPT !.header = RewriteHeader(@, entry.real)]
  /\ UNCHANGED <<meant, member, fate, written>>

Ready == stage \in {"plain", "reading"} /\ fate = "none"

(* The header is written before the data is read. *)
Emit ==
  /\ Ready /\ meant.type # "link"
  /\ written' = <<WriteToTar(canonical.header, canonical.path)>>
  /\ fate' = "emitted"
  /\ UNCHANGED <<vars, meant, member, canonical>>

(* A suppressed file is read into a buffer. *)
Buffer ==
  /\ Ready /\ canonical.header.type = "file"
  /\ fate' = "buffered"
  /\ UNCHANGED <<vars, meant, member, canonical, written>>

(* emit_deferred: the file at the first of the links to it, and a link. *)
Promote ==
  /\ fate = "buffered" /\ stage = "end"
  /\ \E first, second \in GroupNames :
       /\ first # second
       /\ written' = <<WriteToTar(CloneAsRegular(canonical.header), first),
                       WriteHardlinkToTar(canonical.header, second, first)>>
  /\ fate' = "linked"
  /\ UNCHANGED <<vars, meant, member, canonical>>

(* A link is written with its own header at the end of the merge. *)
EmitLink ==
  /\ Ready /\ meant.type = "link"
  /\ written' = <<WriteHardlinkToTar(canonical.header, canonical.path,
                                     NormalizePath(LinkName(canonical.header)))>>
  /\ fate' = "linked"
  /\ UNCHANGED <<vars, meant, member, canonical>>

(* What the tar crate reads: the data of a 0.0 entry that is not           *)
(* recognised is what it stores.                                           *)
PlainData ==
  IF Unmarked(entry) THEN [i \in 1..entry.data |-> i]
  ELSE [i \in 1..(IF meant.type = "file" THEN entry.real ELSE 0) |-> Byte(entry, i - 1)]

(* The data of a sparse file that was recognised passes through the        *)
(* reader.                                                                 *)
Transfer ==
  /\ fate \in {"emitted", "buffered"} /\ UNCHANGED headerVars
  /\ IF stage = "plain"
     THEN /\ out' = PlainData
          /\ pos' = Len(PlainData)
          /\ stage' = "end"
          /\ UNCHANGED <<entry, rest, taken>>
     ELSE Read

EmissionNext ==
  Capture \/ ExpandSparse \/ Emit \/ Buffer \/ Promote \/ EmitLink \/ Transfer

EmissionSpec == EmissionInit /\ [][EmissionNext]_emissionVars

----------------------------------------------------------------------------
(* Properties. *)

(* Every variable has its type. *)
EmissionTypeOK ==
  /\ meant \in Meaning
  /\ canonical = Uncaptured \/ DOMAIN canonical = {"header", "path"}
  /\ fate \in {"none", "emitted", "buffered", "linked"}
  /\ Len(written) <= 2

(* One file has one path, the key of the whiteout and duplicate trackers,  *)
(* however the layers that hold it spell it.                               *)
OneKey == canonical # Uncaptured => canonical.path = meant.path

(* However an archiver spelled a path or a target and wherever the format  *)
(* made it keep them, a reader of the output finds the file under the path *)
(* it was given, or that of the link it is promoted to, as the type it is  *)
(* and, if a link, with its target: no prefix, no record and no            *)
(* placeholder of the member it came from shows through.  The owner's name *)
(* is nowhere, and a capability is still there.  Only a 0.0 member that is *)
(* not recognised keeps its GNU.sparse records.                            *)
ReadsBack ==
  /\ OneKey
  /\ \A i \in DOMAIN written :
       LET w == written[i]
           own == fate = "emitted" \/ meant.type = "link"
       IN  /\ ~w.owner /\ "uname" \notin DOMAIN Records(w)
           /\ Unmarked(entry) \/ DOMAIN Records(w) \cap SparseKeys = {}
           /\ w.type = IF own THEN meant.type ELSE IF i = 1 THEN "file" ELSE "link"
           /\ IF own THEN NormalizePath(SeenPath(w)) = meant.path
              ELSE SeenPath(w) \in GroupNames
           /\ w.type = "symlink" => SeenLink(w) = meant.root \o meant.target
           /\ w.type = "link" =>
                SeenLink(w) = IF own THEN meant.target ELSE SeenPath(written[1])
           /\ "xattr" \in DOMAIN member.pax /\ w.type # "link" =>
                "xattr" \in DOMAIN Records(w)

(* Behind the header of a written member stand as many bytes as a reader   *)
(* of the output takes it to have: one more or less, and everything behind *)
(* it is read from the wrong place.                                        *)
InStep ==
  \A i \in DOMAIN written :
    IF written[i].type = "link" THEN SeenSize(written[i]) = 0
    ELSE stage = "end" => SeenSize(written[i]) = Len(out)

(* A record that is written reaches the member it is written for even if   *)
(* the reader lets a GNU record use it up, as canonical.rs takes it to do. *)
RecordsArrive ==
  \A i \in DOMAIN written : DOMAIN written[i].pax = DOMAIN Records(written[i])
=============================================================================
