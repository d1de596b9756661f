---------------------------- MODULE ImageLayout ----------------------------
(***************************************************************************)
(* src/image.rs and src/layers.rs: an image directory in one of the three  *)
(* layouts is read into an ordered list of layer blobs, and a blob is      *)
(* opened with the decoder its media type names.                           *)
(*                                                                         *)
(* A directory is a record of its index.json, its manifest.json and its    *)
(* blobs, a function of their names.  A digest is a pair of an algorithm   *)
(* and a name; a path of a Docker save layout is one with "path" for the   *)
(* algorithm, which is how a string without a colon reads.                 *)
(***************************************************************************)
EXTENDS Integers, Sequences, SequencesExt

Absent == [is |-> "absent"]
Garbled == [is |-> "garbled"]       \* not JSON, or JSON of another shape
Index(manifests) == [is |-> "index", manifests |-> manifests]
Manifest(layers) == [is |-> "manifest", layers |-> layers]
Saved(images) == [is |-> "saved", images |-> images]    \* an array, from docker save

Descriptor(algorithm, name, type) ==
  [algorithm |-> algorithm, name |-> name, type |-> type]
Untyped == "none"                   \* no mediaType, or an empty one

NoLayers == <<>>
Failed(why) == [error |-> why, layers |-> NoLayers]
Loaded(layers) == [error |-> "none", layers |-> layers]

----------------------------------------------------------------------------
(* load_manifest. *)

IsIndexType(type) == type \in {"index", "docker_list"}
IsManifestType(type) == type \in {"manifest", "docker_manifest"}

(* blob_path and the document there: only SHA-256 digests name blobs.      *)
Document(dir, desc) ==
  IF desc.algorithm # "sha256" THEN [is |-> "unsupported"]
  ELSE IF desc.name \in DOMAIN dir.blobs THEN dir.blobs[desc.name] ELSE Absent

ReadManifest(document) ==
  IF document.is = "manifest" THEN Loaded(document.layers) ELSE Failed("layout")

(* Mutant: the first entry of a nested index, whatever it is. *)
LoadManifestBlobFirst(dir, desc) ==
  LET document == Document(dir, desc) IN
  IF ~IsIndexType(desc.type) THEN ReadManifest(document)
  ELSE IF document.is # "index" \/ document.manifests = <<>> THEN Failed("layout")
  ELSE ReadManifest(Document(dir, Head(document.manifests)))

(* load_manifest_blob: one level of nesting is followed, to the first      *)
(* entry that is typed as the manifest of a single image.                  *)
LoadManifestBlob(dir, desc) ==
  LET document == Document(dir, desc)
  IN  IF ~IsIndexType(desc.type) THEN ReadManifest(document)
      ELSE IF document.is # "index" THEN Failed("layout")
      ELSE LET single == {i \in DOMAIN document.manifests :
                            IsManifestType(document.manifests[i].type)}
           IN  IF single = {} THEN Failed("layout")
               ELSE ReadManifest(Document(dir, document.manifests[Min(single)]))

(* docker_save_manifest: the first image; LayerSources gives the types, by *)
(* the digest made of a path's last component.                             *)
DockerSave(images) ==
  IF images = <<>> THEN Failed("layout")
  ELSE LET image == Head(images)
           typeOf(name) == IF name \in DOMAIN image.sources THEN image.sources[name]
                           ELSE Untyped
       IN  Loaded([i \in DOMAIN image.layers |->
                     Descriptor("path", image.layers[i], typeOf(image.layers[i]))])

(* index.json is preferred, and decides even if it is unusable.            *)
LoadManifest(dir) ==
  CASE dir.index.is = "index" ->
         IF dir.index.manifests = <<>> THEN Failed("layout")
         ELSE LoadManifestBlob(dir, Head(dir.index.manifests))
    [] dir.index.is = "garbled" -> Failed("layout")
    [] dir.index.is = "absent" /\ dir.manifest.is = "saved" -> DockerSave(dir.manifest.images)
    [] OTHER -> ReadManifest(dir.manifest)

----------------------------------------------------------------------------
(* resolve_layers. *)

(* A layer blob on disk: how it is packed, its members (compressed streams *)
(* one after the other, each a sequence of tar entries), and how it ends:  *)
(* complete, at the end of an entry, in the middle of one, or after fewer  *)
(* than four bytes ("tiny").  A directory of blobs holds one per layer     *)
(* index.                                                                  *)
Layer(packing, members, end) ==
  [is |-> "layer", packing |-> packing, members |-> members, end |-> end]
BlobDir(files) == [is |-> "blobs", files |-> files]

(* The file that stands for layer i of the image: a directory named after  *)
(* the digest holds it under the layer's index.                            *)
FileOf(dir, desc, i) ==
  LET there == IF desc.algorithm \in {"sha256", "path"} /\ desc.name \in DOMAIN dir.blobs
               THEN dir.blobs[desc.name] ELSE Absent
  IN  IF there.is # "blobs" THEN there
      ELSE IF i \in DOMAIN there.files THEN there.files[i] ELSE Absent

(* detect_media_type looks at the first four bytes; a blob without magic   *)
(* ones is taken for an uncompressed archive, and one of fewer bytes is an *)
(* error.                                                                  *)
TooShort(file) == file.is = "layer" /\ file.end = "tiny"
DetectMediaType(file) == IF file.is = "layer" THEN file.packing ELSE "tar"

(* Every blob must be there; layers are numbered by their place, and typed *)
(* by their first bytes if the manifest does not type them.                *)
ResolveLayers(dir, descs) ==
  IF \E k \in DOMAIN descs :
       LET file == FileOf(dir, descs[k], k - 1)
       IN  file.is = "absent" \/ (descs[k].type = Untyped /\ TooShort(file))
    THEN Failed("layout")
  ELSE Loaded([k \in DOMAIN descs |->
                 [desc |-> descs[k], index |-> k - 1,
                  type |-> IF descs[k].type # Untyped THEN descs[k].type
                           ELSE DetectMediaType(FileOf(dir, descs[k], k - 1))]])

----------------------------------------------------------------------------
(* open_layer and reading what it opened. *)

Packings == {"tar", "tar+gzip", "tar+zstd", "tar+bzip2", "tar+xz"}

(* The docker type for gzip is the one legacy type that is accepted, and   *)
(* what is typed as lzma goes to the decoder of xz.                        *)
DecoderOf(type) ==
  IF type = "docker.tar.gzip" THEN "tar+gzip"
  ELSE IF type = "tar+lzma" THEN "tar+xz"
  ELSE IF type \in Packings THEN type ELSE "unsupported"

(* The gzip, bzip2 and xz decoders stop at the end of the first stream;    *)
(* zstd goes on with the next frame.                                       *)
Streams(decoder, members) ==
  IF decoder \in {"tar+gzip", "tar+bzip2", "tar+xz"} THEN SubSeq(members, 1, 1) ELSE members

(* A stream that breaks off is an error of its decoder.  An archive needs  *)
(* no end: one that stops where an entry does is complete to the reader.   *)
ReadBlob(file, type) ==
  LET decoder == DecoderOf(type)
      streams == Streams(decoder, file.members)
      reached == Len(streams) = Len(file.members)
      broken == reached /\ (file.end \in {"middle", "tiny"}
                             \/ (file.end = "entry" /\ decoder # "tar"))
  IN  IF file.is # "layer" \/ decoder = "unsupported" \/ decoder # file.packing
        THEN Failed("layer")
      ELSE IF broken THEN Failed("layer")
      ELSE Loaded(streams)
=============================================================================
