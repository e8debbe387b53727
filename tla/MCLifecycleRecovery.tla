------------------------ MODULE MCLifecycleRecovery ------------------------
(* Instances of LifecycleRecovery: the payload is a directory of two files *)
(* of which a release changes one, the reader is a single file.            *)
EXTENDS LifecycleRecovery

MCUnits == <<"payload", "reader">>
MCDirectories == {"payload"}
MCOld == [payload |-> {<<"same", "1">>, <<"main", "1">>}, reader |-> {<<"reader", "1">>}]
MCNew == [payload |-> {<<"same", "1">>, <<"main", "2">>}, reader |-> {<<"reader", "2">>}]
MCCache == {<<"cache", "1">>}

=============================================================================
