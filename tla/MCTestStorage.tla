--------------------------- MODULE MCTestStorage ---------------------------
(* A problem that is uploaded with the usual mistakes and corrected. *)
EXTENDS TestStorage

MCPlugins == {"test_node", "extra"}
MCProvides ==
    [p \in MCPlugins |->
        IF p = "test_node"
        THEN {"queue_manager_service_stub", "default", "testset", "single_test", "min"}
        ELSE {"interactive_test"}]

T(name, uses, needs) == [name |-> name, uses |-> uses, needs |-> needs]
Single(name) == T(name, {"single_test"}, {})
Set(name, needs) == T(name, {"testset", "min"}, needs)
Package(builder, tests) == [builder |-> builder, tests |-> tests]

MCPackages ==
    << Package("", <<Single("01"), Set("main", {"01"})>>),           \* no builder
       Package("default", <<Set("main", {"01"}), Single("01")>>),    \* main first
       Package("default", <<Single("01"), Single("")>>),             \* no main
       Package("default", <<T("01", {"interactive_test"}, {}), Set("main", {"01"})>>),
       Package("default", <<Single("01"), Set("main", {"01"}), Set("01", {"main"})>>) >>
=============================================================================
