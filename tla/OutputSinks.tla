----------------------------- MODULE OutputSinks -----------------------------
(***************************************************************************)
(* write_for_spec of src/lib.rs: every conversion, batch or streaming,     *)
(* ends in one of three sinks, chosen by the image specification.  Each is *)
(* a module of its own; the variables that two sinks share have the same   *)
(* meaning in both, and those of the sinks not chosen stay as they are.    *)
(***************************************************************************)
EXTENDS Integers

CONSTANTS
  Chunks,       \* length of the merged tar stream
  PipeCap,      \* chunks a pipe or a socket holds
  ErrCap,       \* messages the error pipe of mksquashfs holds
  Messages,     \* bound on the messages mksquashfs writes
  MaxRetries,   \* spawn attempts after ETXTBSY
  Faults        \* what may fail, see the three modules

ASSUME SinkAssumption ==
  /\ Chunks \in Nat \ {0} /\ PipeCap \in Nat \ {0}
  /\ ErrCap \in Nat /\ Messages \in Nat /\ MaxRetries \in Nat

VARIABLES
  spec,         \* the variant of ImageSpec: "squashfs", "tar" or "dir"
  at, merge, sent, causes, result,                \* every sink
  output, kept,                                   \* squashfs and tar
  got,                                            \* squashfs and dir
  attempt, eof, trailer, child, said, errors,     \* squashfs
  thread, early, unpack, reader                   \* dir

Squashfs == INSTANCE SquashfsSink WITH InCap <- PipeCap
Tar == INSTANCE TarSink
Dir == INSTANCE DirSink WITH Cap <- PipeCap

squashfsOnly == <<attempt, eof, trailer, child, said, errors>>
dirOnly == <<thread, early, unpack, reader>>
vars == <<spec, at, merge, sent, causes, result, output, kept, got, squashfsOnly, dirOnly>>

Init ==
  /\ spec \in {"squashfs", "tar", "dir"}
  /\ Squashfs!Init /\ Tar!Init /\ Dir!Init

NotSquashfs == UNCHANGED <<spec, dirOnly>>
NotTar == UNCHANGED <<spec, got, squashfsOnly, dirOnly>>
NotDir == UNCHANGED <<spec, output, kept, squashfsOnly>>

SquashfsRuns == spec = "squashfs" /\ Squashfs!Sink /\ NotSquashfs
ProcessRuns == spec = "squashfs" /\ Squashfs!Process /\ NotSquashfs
TarRuns == spec = "tar" /\ Tar!Sink /\ NotTar
MergeThreadRuns == spec = "dir" /\ Dir!MergeThread /\ NotDir
CallerRuns == spec = "dir" /\ Dir!Caller /\ NotDir

Next ==
  \/ spec = "squashfs" /\ Squashfs!Next /\ NotSquashfs
  \/ spec = "tar" /\ Tar!Next /\ NotTar
  \/ spec = "dir" /\ Dir!Next /\ NotDir

Spec == Init /\ [][Next]_vars

(* The threads of this process run, and mksquashfs reads what it is given; *)
(* nothing has to fail.                                                    *)
FairSpec ==
  /\ Spec
  /\ WF_vars(SquashfsRuns) /\ WF_vars(ProcessRuns)
  /\ WF_vars(TarRuns)
  /\ WF_vars(MergeThreadRuns) /\ WF_vars(CallerRuns)

----------------------------------------------------------------------------
(* Properties. *)

(* What is at the output path when the sink returns: after success the     *)
(* whole image, for a directory all of the stream unpacked; after a        *)
(* failure of the merge or the process no file, and in particular not the  *)
(* short but well-formed archive or image that a merge that returned early *)
(* leaves behind, unless it cannot be removed.                             *)
WholeOrNothing ==
  CASE spec = "squashfs" -> Squashfs!WholeOrNothing
    [] spec = "tar" -> Tar!WholeOrNothing
    [] spec = "dir" -> Dir!OkIsWhole

(* What is reported is a failure that happened on its own, not one that it *)
(* caused at the other end of the pipe: where a layer failed it is the     *)
(* layer, even if the consumer makes nothing of the stream that ended      *)
(* early, and also if the consumer failed before; where the consumer       *)
(* failed, never the broken pipe this is to the merge.  Only a link that   *)
(* cannot be encoded may be reported as the consumer's failure.            *)
BlameIsRight ==
  /\ "input" \in causes /\ result # "none" => result \in {"input", "wait"}
  /\ result = "input" => "input" \in causes
  /\ result \in {"mksquashfs", "unpack"} => causes \cap {"process", "unpack", "encode"} # {}
  /\ result \in {"output", "merge"} /\ merge # "none" =>
       causes \cap {"encode", "full"} # {} /\ causes \cap {"process", "unpack"} = {}
  /\ result = "ok" => causes = {}

(* No sink returns with a process or a thread of its own still running.    *)
NothingRunsOn == Squashfs!NoOrphan /\ Dir!NoThreadLeft

(* Every sink returns: no side of a pipe waits for the other for good,     *)
(* also when one of them fails, as long as mksquashfs has no more to say   *)
(* than its error pipe holds.                                              *)
Returns == <>(at = "returned")
=============================================================================
