---------------------------- MODULE MCFetchImage ----------------------------
(* A small instance of FetchImage. *)
EXTENDS FetchImage

CONSTANTS p, q, c, w1, w2

ThreeBlobs == {p, q, c}
TwoWorkers == {w1, w2}

Of(config, layers) == [config |-> config, layers |-> layers]
Single(m) == [index |-> FALSE, entries |-> <<[platform |-> "none", image |-> m]>>]
Entry(platform, m) == [platform |-> platform, image |-> m]

(* A manifest by itself; a manifest behind one of another platform, with   *)
(* one layer twice and a config; and an index for other platforms.       *)
SomeAnswers ==
  {Single(Of(NoBlob, <<p, q>>)),
   [index |-> TRUE, entries |-> <<Entry("other", Of(NoBlob, <<p>>)),
                                  Entry("wanted", Of(c, <<p, p>>)),
                                  Entry("wanted", Of(NoBlob, <<q>>))>>],
   [index |-> TRUE, entries |-> <<Entry("other", Of(NoBlob, <<p>>))>>]}

TwiceAnswers == {Single(Of(NoBlob, <<p, p>>))}
OneAnswer == {Single(Of(c, <<p, q>>))}
=============================================================================
