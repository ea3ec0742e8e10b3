----------------------------- MODULE MCReducers -----------------------------
(***************************************************************************)
(* An instance of Reducers for TLC: functions, entities, sources, inputs.  *)
(***************************************************************************)
EXTENDS ReducerMeaning, ReducerTrace

A == Atom("a")
B == Atom("b")
Both == Object([a |-> A, b |-> B])

MCInputs == {Undefined, Null, False, Blank, A, Array(<<>>), Array(<<A, B>>), Array(<<A, Null, B>>),
           Array(<<Both, Object([a |-> A])>>), Both}

\* Functions: "strict" fails on all but a, with the value as its error; "test" is
\* a predicate; "none" returns undefined; "recover" makes a value of an error.
Name(v) == IF Len(v) = 2 /\ v[1] = "atom" THEN v[2] ELSE v[1]
MCFails(f, v) == f = "strict" /\ v # A
MCBody(f, v) ==
  CASE f = "strict" -> IF v = A THEN v ELSE Name(v)
    [] f = "test" -> IF v = B THEN False ELSE v
    [] f = "none" -> Undefined
    [] f = "no" -> False
    [] f = "recover" -> Object([a |-> Atom(v[2])])
    [] f = "items" -> Array(<<v>>)
    [] f = "address" -> IF v = A THEN Text("host", A) ELSE EmptyText
    [] f = "options" ->
         CASE v = A -> Object([baseUrl |-> Text("base", Undefined), json |-> False])
           [] v = Both -> Object([baseUrl |-> Text("base", Undefined), method |-> Undefined,
                                  uri |-> Text("uri", Undefined), url |-> EmptyText])
           [] v = Null -> Object([url |-> Text("other", Undefined), uri |-> Undefined])
           [] OTHER -> v

\* The server answers with what it was asked for; one address is down.
MCRefuses(options) == Get(options, "url") = Text("host", Null)
MCServer(options) == IF MCRefuses(options) THEN "StatusCodeError" ELSE options
MCValid(schema, v) == IF schema = "has b" THEN Get(v, "b") = B ELSE ~IsArray(v)

Strict == Fn("strict")
Test == Fn("test")

Spec0 == [kind |-> "model", inputType |-> <<>>, before |-> <<>>, value |-> <<>>,
          compose |-> <<>>, after |-> <<>>, outputType |-> <<>>, error |-> <<>>]

MCSpecs ==
  [private |-> [Spec0 EXCEPT !.before = <<Test>>, !.value = <<Strict>>],
   strict |-> [Spec0 EXCEPT !.value = <<Strict>>],
   safe |-> [Spec0 EXCEPT !.inputType = <<TypeCheck("array")>>, !.value = <<MapOf(Strict)>>,
                          !.error = <<Fn("recover")>>],
   collection |-> [Spec0 EXCEPT !.kind = "collection",
                     !.compose = <<<<"filter", Test>>, <<"map", Strict>>, <<"find", Test>>>>,
                     !.after = <<Fn("items")>>],
   found |-> [Spec0 EXCEPT !.kind = "collection", !.compose = <<<<"find", Path("a")>>>>,
                           !.error = <<Fn("recover")>>],
   hash |-> [Spec0 EXCEPT !.kind = "hash",
               !.compose = <<<<"omitKeys", {"b"}>>, <<"addValues", Object([c |-> B])>>,
                             <<"addKeys", Obj(<<<<"d", Path("a")>>>>)>>, <<"pickKeys", {"a", "c", "d"}>>>>],
   keys |-> [Spec0 EXCEPT !.kind = "hash", !.value = <<Path("$")>>,
               !.compose = <<<<"mapKeys", Obj(<<<<"e", List(<<Path("b"), Test>>)>>>>)>>>>,
               !.outputType = <<Fn("none")>>],
   entry |-> [Spec0 EXCEPT !.kind = "entry", !.before = <<FindBy(Test)>>,
                           !.value = <<Path("a")>>],
   text |-> [Spec0 EXCEPT !.kind = "entry", !.value = <<Fn("address")>>],
   request |-> [kind |-> "request", url |-> <<"host", "a">>, options |-> <<Fn("options")>>,
                inspect |-> "function", inputType |-> <<>>, before |-> <<>>, value |-> <<>>,
                after |-> <<>>, outputType |-> <<TypeCheck("object")>>, error |-> <<Fn("recover")>>],
   get |-> [kind |-> "request", url |-> <<"host", "$">>, options |-> <<>>, inspect |-> "none",
            inputType |-> <<>>, before |-> <<>>, value |-> <<>>, after |-> <<Path("url")>>,
            outputType |-> <<>>, error |-> <<>>],
   follow |-> [kind |-> "request", url |-> <<>>, options |-> <<Fn("none")>>,
               inspect |-> "function", inputType |-> <<>>, before |-> <<>>, value |-> <<Fn("address")>>,
               after |-> <<>>, outputType |-> <<>>, error |-> <<>>],
   plain |-> [kind |-> "request", url |-> <<>>, options |-> <<Fn("options")>>, inspect |-> "none",
              inputType |-> <<>>, before |-> <<>>, value |-> <<>>, after |-> <<>>,
              outputType |-> <<>>, error |-> <<>>],
   schema |-> [kind |-> "schema", schema |-> "has b", inputType |-> <<>>, before |-> <<>>,
               value |-> <<>>, after |-> <<PickKeys({"a"})>>, outputType |-> <<>>,
               error |-> <<>>],
   control |-> [kind |-> "control", inputType |-> <<>>, before |-> <<Path("a")>>,
                value |-> <<>>, compose |-> <<>>, after |-> <<>>, outputType |-> <<>>,
                error |-> <<>>,
                select |-> [cases |-> <<<<Fn("no"), Strict>>, <<Test, Fn("items")>>, <<Strict, Test>>>>,
                            default |-> Fn("none")]]]
MCRegistered == DOMAIN MCSpecs \ {"private"}

MCSources ==
  <<List(<<MapOf(Strict), FilterBy(Test)>>),
    List(<<Path("$"), List(<<FilterBy(Obj(<<<<"p", Path("a")>>, <<"q", Path("b")>>>>)), PathItems("a")>>), Fn("items")>>),
    List(<<>>),
    List(<<WithDefault(Fn("no"), A), Test>>),
    Obj(<<<<"x", List(<<Path("a"), Strict>>)>>,
          <<"y", Obj(<<<<"z", WithDefault(Path("b"), A)>>, <<"w", Constant(B)>>, <<"v", Path("c")>>>>)>>,
          <<"u", List(<<Path("b"), Strict>>)>>>>),
    ParallelOf(<<Strict, Path("a"), MapOf(Strict), EntityId("private", FALSE, FALSE)>>),
    ParallelOf(<<Fn("none"), FindBy(List(<<Strict, Obj(<<<<"a", Path("$")>>>>)>>))>>),
    FindBy(Test),
    List(<<FilterBy(Obj(<<<<"p", Fn("address")>>>>)), WithDefault(Fn("address"), A)>>),
    AssignOf(Obj(<<<<"a", Path("b")>>, <<"c", WithDefault(Path("d"), Null)>>>>)),
    EntityId("strict", TRUE, TRUE),
    EntityInstance("private"),
    EntityId("safe", TRUE, FALSE),
    EntityId("collection", FALSE, FALSE),
    EntityId("found", FALSE, FALSE),
    EntityId("hash", FALSE, TRUE),
    List(<<EntityId("keys", TRUE, FALSE), PickKeys({"e"})>>),
    EntityId("control", FALSE, TRUE),
    EntityId("request", FALSE, FALSE),
    EntityId("get", TRUE, TRUE),
    List(<<EntityId("follow", FALSE, FALSE), Path("$")>>),
    EntityId("plain", FALSE, FALSE),
    EntityId("schema", FALSE, FALSE),
    EntityId("text", FALSE, FALSE),
    List(<<WithDefault(EntityId("entry", FALSE, FALSE), A), OmitKeys({"a", "0"})>>)>>

MCRoots == CreateAll(MCSources)
MCEntity == [id \in DOMAIN MCSpecs |-> CreateEntity(MCSpecs[id])]

\* The solution of the rules that TLC finds by applying them.
MCOutcomes(r, v) == LET outcomes == OutcomesRule(r, v) IN outcomes
MCRest(r, k, v) == LET outcomes == RestByType(r, k, v) IN outcomes

\* The reducers that the factories have made do what their sources mean, on these values:
\* the hypothesis of the theorem about AgreesWithReference.
ASSUME FactoriesAssumption == FactoriesAgree

\* What a reducer is made of.
PartsOf(r) ==
  CASE r.type \in {"ReducerList", "parallel"} -> Range(r.of)
    [] r.type \in {"map", "filter", "find", "assign"} -> {r.of}
    [] r.type = "ReducerObject" -> {part.reducer : part \in Range(r.of.reducers)}
    [] r.type = "control" -> Range(r.of.cases) \cup Range(r.of.dos) \cup {r.of.default}
    [] r.type = "request" -> {r.of.options}
    [] OTHER -> {}
\* The reducers to resolve and those in the entities, with their parts, four deep.
MCReducer ==
  LET stages == UNION {Range(MCEntity[id].stages \o MCEntity[id].error) : id \in DOMAIN MCEntity}
      deeper[n \in 0 .. 4] ==
        IF n = 0 THEN Range(MCRoots) \cup {stage.reducer : stage \in stages}
        ELSE deeper[n - 1] \cup UNION {PartsOf(r) : r \in deeper[n - 1]}
  IN  deeper[4]
=============================================================================
