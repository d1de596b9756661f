------------------------------- MODULE MCAuth -------------------------------
EXTENDS Auth

CONSTANTS t1, t2, l1, l2

TwoTasks == {t1, t2}
TwoLogins == {l1, l2}

LegacyKey == <<"https", ":", "/", "/", "index", ".", "docker", ".", "io", "/", "v1", "/">>
Port == <<"registry", ":", "5000">>
HubAndPort == [p \in TwoLogins |-> IF p = l1 THEN HubApi ELSE Port]
NoLogins == <<>>
SomeHosts == {HubApi, LegacyKey, Port}
SomeAccounts == [h \in SomeHosts |-> IF h = HubApi THEN {"ann"}
                                     ELSE IF h = LegacyKey THEN {"bob"} ELSE {"cid"}]
SomeFiles == {Absent, Document([EmptyStore EXCEPT ![Port] = Undecodable], 0)}
LegacyOnly == {LegacyKey}

MirrorUrl == <<"http", ":", "/", "/", "mirror">>
SomeMirrors == {NoMirror, MirrorUrl}
SomeRealms == [s \in {HubApi, Port, MirrorUrl} |-> IF s = HubApi THEN {"auth of the hub"}
                                              ELSE IF s = Port THEN {"auth of the port"}
                                              ELSE {"auth of the mirror"}]

(* Two images under many names: with and without a host, a namespace, a    *)
(* port, a tag and a digest.                                               *)
SomeNames ==
  {Named(h, <<"library", "nginx">>, t, <<>>) : h \in {<<>>, DockerIo}, t \in {<<>>, <<"1", ".", "2">>}}
  \cup {Named(h, <<"nginx">>, <<>>, d) : h \in {<<>>, DockerIo, Port},
                                        d \in {<<>>, <<"sha256", ":", "f">>}}
  \cup {Named(Port, <<"nginx">>, <<"1">>, <<>>)}
ASSUME NamesReadBack == \A n \in SomeNames : WellNamed(n)

TagAndDigest ==
  {Named(<<>>, <<"nginx">>, <<"1", ".", "25">>, <<"sha256", ":", "f">>)}
=============================================================================
