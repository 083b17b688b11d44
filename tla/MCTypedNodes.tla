---------------------------- MODULE MCTypedNodes -----------------------------
(* Two sources, a compute and an async node under one key, with inputs of two *)
(* types.                                                                     *)
EXTENDS TypedNodes

decl(scope, kind, output, inputs) ==
    [scope |-> scope, key |-> "EURUSD", kind |-> kind, output |-> output, inputs |-> inputs]

MCKeyHash == [k \in {"EURUSD"} |-> 1]

MCConsistent == {
    decl("SpotRate", "Source", "f64", <<>>),
    decl("ClosureSource", "Source", "String", <<>>),
    decl("Quote", "Compute", "String", <<"f64", "String">>),
    decl("ClosureAsyncCompute", "AsyncCompute", "f64", <<"String">>)}

ASSUME AgreementAssumption == TypesAgree

==============================================================================
