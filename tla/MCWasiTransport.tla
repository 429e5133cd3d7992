-------------------------- MODULE MCWasiTransport --------------------------
(* Two authorities, the bundled one and one of the caller's own; two names. *)
EXTENDS WasiTransport

SomeRoots == {<<>>, <<{}>>, <<{"own"}>>}
SomeNames == {<<>>, <<"mx.example">>, <<"not a name">>}
AnyPeers == [ca : {"web", "own"}, name : {"host.example", "mx.example"}]
============================================================================
