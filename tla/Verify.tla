------------------------------- MODULE Verify -------------------------------
(***************************************************************************)
(* src/verify.rs: a generated tree, mounted first when it is a squashfs    *)
(* image, is walked and compared with a reference tree.  A tree maps paths *)
(* to what the file system says of them; its root itself has no entry, and *)
(* what the walk does not look at (times, attributes) is the rest of an    *)
(* entry.                                                                  *)
(***************************************************************************)
EXTENDS Integers, FiniteSets

VARIABLES
  step,         \* "idle", "mounting", "walking", "walked", "comparing", "releasing", "done"
  mount,        \* "none", "mounted" or "left" when nothing could unmount it
  report        \* the outcome: NoReport, an error or the differences

verifyVars == <<step, mount, report>>

Info(kind, mode, owner, target, content, rest) ==
  [kind |-> kind, mode |-> mode, owner |-> owner, target |-> target, content |-> content,
   rest |-> rest]

NoReport == [error |-> "running", onlyGenerated |-> {}, onlyReference |-> {}, differences |-> {}]
Fails(why) == [NoReport EXCEPT !.error = why]

VerifyInit == step = "idle" /\ mount = "none" /\ report = NoReport

----------------------------------------------------------------------------
(* compare_entries and the comparison of trees. *)

(* Devices, pipes and sockets are all "Other". *)
EntryKind(info) == IF info.kind \in {"file", "dir", "symlink"} THEN info.kind ELSE "other"

(* Mutant: contents are not compared. *)
CompareEntriesShallow(generated, reference, ignore_ownership) ==
  IF EntryKind(generated) # EntryKind(reference) THEN {"type"}
  ELSE {field \in {"mode", "target"} : generated[field] # reference[field]}
       \cup (IF ignore_ownership \/ generated.owner = reference.owner THEN {} ELSE {"owner"})

(* Different types end the comparison; the content, its size and its hash, *)
(* counts for regular files.                                               *)
CompareEntries(generated, reference, ignore_ownership) ==
  IF EntryKind(generated) # EntryKind(reference) THEN {"type"}
  ELSE {field \in {"mode", "target"} : generated[field] # reference[field]}
       \cup (IF ignore_ownership \/ generated.owner = reference.owner THEN {} ELSE {"owner"})
       \cup (IF generated.kind # "file" \/ generated.content = reference.content THEN {}
             ELSE {"content"})

VerifyDirs(generated, reference, ignore_ownership) ==
  [error |-> "none",
   onlyGenerated |-> DOMAIN generated \ DOMAIN reference,
   onlyReference |-> DOMAIN reference \ DOMAIN generated,
   differences |->
     UNION {{<<path, field>> :
               field \in CompareEntries(generated[path], reference[path], ignore_ownership)} :
            path \in DOMAIN generated \cap DOMAIN reference}]

IsClean(r) ==
  r.error = "none" /\ r.onlyGenerated = {} /\ r.onlyReference = {} /\ r.differences = {}

----------------------------------------------------------------------------
(* verify. *)

ReturnsReport(r) == step' = "done" /\ report' = r

(* Tar archives are refused; directories are walked where they are.        *)
Begin(spec) ==
  /\ step = "idle"
  /\ CASE spec = "tar" -> ReturnsReport(Fails("unsupported"))
       [] spec = "squashfs" -> step' = "mounting" /\ UNCHANGED report
       [] spec = "dir" -> step' = "walking" /\ UNCHANGED report
  /\ UNCHANGED mount

(* squashfuse on a fresh mount point. *)
Mount ==
  /\ step = "mounting"
  /\ step' = "walking" /\ mount' = "mounted"
  /\ UNCHANGED report

MountFails ==
  /\ step = "mounting"
  /\ ReturnsReport(Fails("mount"))
  /\ UNCHANGED mount

(* The generated tree first, then the reference. *)
Walk ==
  /\ step \in {"walking", "walked"}
  /\ step' = IF step = "walking" THEN "walked" ELSE "comparing"
  /\ UNCHANGED <<mount, report>>

(* Mutant: the error leaves without dropping the guard. *)
WalkFailsMounted ==
  /\ step \in {"walking", "walked"}
  /\ ReturnsReport(Fails("walk"))
  /\ UNCHANGED mount

(* An entry that cannot be read ends the walk, and with it everything.     *)
WalkFails ==
  /\ step \in {"walking", "walked"}
  /\ report' = Fails("walk")
  /\ step' = "releasing"
  /\ UNCHANGED mount

Compare(generated, reference, ignore_ownership) ==
  /\ step = "comparing"
  /\ report' = VerifyDirs(generated, reference, ignore_ownership)
  /\ step' = "releasing"
  /\ UNCHANGED mount

(* The guard is dropped: fusermount, then umount, and errors are ignored.  *)
Release(fusermount, umount) ==
  /\ step = "releasing"
  /\ step' = "done"
  /\ mount' = IF mount = "none" \/ fusermount \/ umount THEN "none" ELSE "left"
  /\ UNCHANGED report

VerifyTypeOK ==
  /\ step \in {"idle", "mounting", "walking", "walked", "comparing", "releasing", "done"}
  /\ mount \in {"none", "mounted", "left"}
  /\ report.error \in {"running", "none", "unsupported", "mount", "walk"}
=============================================================================
