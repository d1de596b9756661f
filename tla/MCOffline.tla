----------------------------- MODULE MCOffline -----------------------------
EXTENDS Offline

File(content) == Info("file", "0644", "root", "", content, "xattr")
Link == Info("symlink", "0777", "root", "a", "", "rest")
Pipe == Info("fifo", "0600", "root", "", "", "rest")
Private(owner) == Info("dir", "0700", owner, "", "", "rest")

Blobs ==
  [base |-> Layer("tar+gzip", <<<<<<"a", File("1")>>, <<"b", File("2")>>>>>>, "end"),
   top |-> Layer("tar+gzip", <<<<<<"a", File("3")>>, <<"c", Link>>>>>>, "end"),
   plain |-> Layer("tar", <<<<<<"b", Private("app")>>, <<"d", Pipe>>>>>>, "end"),
   frames |-> Layer("tar+zstd", <<<<<<"a", File("4")>>>>, <<<<"c", File("5")>>>>>>, "end"),
   xz |-> Layer("tar+xz", <<<<<<"c", File("6")>>, <<"d", Link>>>>>>, "end"),
   members |-> Layer("tar+gzip", <<<<<<"a", File("1")>>>>, <<<<"b", Link>>>>>>, "end")]

SomeImages ==
  {<<"base">>, <<"base", "top">>, <<"base", "plain">>, <<"plain", "frames">>,
   <<"base", "top", "base">>, <<"plain", "xz", "frames">>, <<"base", "members">>}

Stale(path) == [p \in {path} |-> File("old")]
SomeHeld == {NoTree, Stale("a"), Stale("z")}

(* Images for the statements that do not hold. *)
MembersOnly == {<<"members">>}
PlainOnly == {<<"plain">>}
=============================================================================
