--------------------------- MODULE MCContentSync ---------------------------
(* Two clients of one content, c1 the C++ and c2 the Python one. x is ASCII; *)
(* y is UTF-8 text that is not, e its latin-1 form, yy y taken for latin-1   *)
(* (once or more often).                                                     *)
EXTENDS ContentSync

MCSizeOf == [d \in Data \cup {Cut} |->
    CASE d = "cut" -> 0 [] d \in {"x", "y"} -> 1 [] d = "yy" -> 2 [] d = "e" -> 3]
MCToStr == [d \in Data |-> CASE d = "x" -> "x" [] d = "e" -> "y" [] OTHER -> "yy"]
MCToBytes == [d \in Data |->
    CASE d = "x" -> "x" [] d = "yy" -> "y" [] d = "y" -> "e" [] d = "e" -> Unencodable]

F(d, m) == [data |-> d, perms |-> m]
NoFiles == [p \in {} |-> p]

\* Files added, modified, with other permissions and removed on either side.
MCInitial == [r \in Replicas |->
    IF r = Server THEN {NoFiles, <<F("x", "rx"), F("y", "rw")>>}
    ELSE IF r = "c1" THEN {<<F("y", "rx")>>, <<F("x", "rw"), F("x", "rx")>>}
    ELSE {NoFiles, [p \in {2} |-> F("x", "rx")]}]

Plan(j, c, P) == [job |-> j, home |-> c, scope |-> P]

\* Two downloads on c1 (of everything and of one file), an upload from c2.
DownloadPlan == [t1 |-> Plan("sync", "c1", Paths), t2 |-> Plan("sync", "c1", {1}),
                 t3 |-> Plan("upload", "c2", Paths)]

\* The same client uploads twice and creates the content.
UploadPlan == [t1 |-> Plan("upload", "c1", Paths), t2 |-> Plan("upload", "c1", Paths),
               t3 |-> Plan("create", "c1", Paths)]

\* The Python client downloads and uploads at once.
PythonPlan == [t1 |-> Plan("sync", "c2", Paths), t2 |-> Plan("upload", "c2", Paths),
               t3 |-> Plan("create", "c2", Paths)]

UploadPlans == {UploadPlan}
AllPlans == {DownloadPlan, UploadPlan, PythonPlan}
=============================================================================
