--------------------------- MODULE ImageReference ---------------------------
(***************************************************************************)
(* ImageReference of ocirender-cli/src/registry/reference.rs: how the name *)
(* of an image is read.  A name is a sequence of tokens: the separators    *)
(* "/", ":", "@" and "." and the words between them.                       *)
(***************************************************************************)
EXTENDS Integers, Sequences, SequencesExt

DockerIo == <<"docker", ".", "io">>
HubApi == <<"registry-1", ".", "docker", ".", "io">>
Latest == <<"latest">>
BadName == [registry |-> <<>>, repository |-> <<>>, reference |-> <<>>]

FirstOf(s, token) == SelectInSeq(s, LAMBDA x : x = token)
LastOf(s, token) == SelectLastInSeq(s, LAMBDA x : x = token)
Before(s, i) == SubSeq(s, 1, i - 1)
After(s, i) == SubSeq(s, i + 1, Len(s))

(* Mutant: a port alone does not make a registry. *)
DottedOnly(s) == s = <<"localhost">> \/ Contains(s, ".")

LooksLikeRegistry(s) == s = <<"localhost">> \/ Contains(s, ".") \/ Contains(s, ":")

(* The host up to the first "/", if it looks like one, and the rest.       *)
SplitRegistryRepo(name) ==
  LET slash == FirstOf(name, "/")
      hosted == slash > 0 /\ LooksLikeRegistry(Before(name, slash))
      host == IF hosted THEN Before(name, slash) ELSE DockerIo
      repo == IF hosted THEN After(name, slash) ELSE name
  IN [registry |-> IF host = DockerIo THEN HubApi ELSE host,
      repository |-> IF host = DockerIo /\ ~Contains(repo, "/")
                     THEN <<"library", "/">> \o repo ELSE repo]

(* A digest after "@", or a tag after a ":" that no "/" follows. *)
Parse(s) ==
  LET at == FirstOf(s, "@")
      head == IF at > 0 THEN Before(s, at) ELSE s
      colon == LastOf(head, ":")
      tagged == at = 0 /\ colon > 0 /\ ~Contains(After(head, colon), "/")
      name == IF tagged THEN Before(head, colon) ELSE head
      place == SplitRegistryRepo(name)
  IN IF name = <<>> THEN BadName
     ELSE [registry |-> place.registry, repository |-> place.repository,
           reference |-> IF at > 0 THEN After(s, at)
                         ELSE IF tagged THEN After(head, colon) ELSE Latest]

(* The same image by the digest of its manifest, for another request. *)
WithDigest(image, digest) == [image EXCEPT !.reference = digest]

(* What a token is asked for and kept under. *)
CacheKey(image) == [registry |-> image.registry, scope |-> image.repository]

----------------------------------------------------------------------------
(* What a user means by a name, and how it is spelled. *)

(* The parts of a name: a host or none, the words of its path, a tag or    *)
(* none, a digest or none.                                                 *)
Named(host, path, tag, digest) ==
  [host |-> host, path |-> path, tag |-> tag, digest |-> digest]

Slashed(path) ==
  [i \in 1..(2 * Len(path) - 1) |-> IF i % 2 = 1 THEN path[(i + 1) \div 2] ELSE "/"]

Around(before, token, after) == before \o (<<token>> \o after)

WholeName(n) ==
  IF n.host = <<>> THEN Slashed(n.path) ELSE Around(n.host, "/", Slashed(n.path))

Spelled(n) ==
  LET tagged == IF n.tag = <<>> THEN WholeName(n) ELSE Around(WholeName(n), ":", n.tag)
  IN  IF n.digest = <<>> THEN tagged ELSE Around(tagged, "@", n.digest)

(* The names that can be read back from their spelling: a host is          *)
(* localhost or has a dot or a port, the first of several words of a path  *)
(* without a host is not localhost, and a tag comes without a digest.      *)
WellNamed(n) ==
  /\ n = Named(n.host, n.path, n.tag, n.digest)
  /\ \A part \in {n.host, n.path, n.tag, n.digest} : part \in Seq(ToSet(part))
  /\ n.host \in {<<>>, <<"localhost">>} \/ \E token \in {".", ":"} : Contains(n.host, token)
  /\ \A token \in {"/", "@"} : ~Contains(n.host, token)
  /\ n.path # <<>> /\ \A token \in {"/", ":", "@", "."} : ~Contains(n.path, token)
  /\ n.host = <<>> /\ Len(n.path) > 1 => n.path[1] # "localhost"
  /\ \A token \in {"/", ":", "@"} : ~Contains(n.tag, token)
  /\ n.tag = <<>> \/ n.digest = <<>>

(* The host and the path that are meant, Docker Hub's when none is named.  *)
Means(n) ==
  LET hub == n.host \in {<<>>, DockerIo}
  IN [registry |-> IF hub THEN HubApi ELSE n.host,
      repository |-> Slashed(IF hub /\ Len(n.path) = 1 THEN <<"library">> \o n.path
                             ELSE n.path),
      reference |-> IF n.digest # <<>> THEN n.digest
                    ELSE IF n.tag # <<>> THEN n.tag ELSE Latest]
=============================================================================
