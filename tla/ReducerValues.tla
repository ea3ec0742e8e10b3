---------------------------- MODULE ReducerValues ----------------------------
(***************************************************************************)
(* The values that reducers work on, and reducers as records.              *)
(*                                                                         *)
(* A value is a tuple that starts with its kind.  A reducer is a record    *)
(* [type, of], where "of" is what it is made of, and may also have a       *)
(* "default".                                                              *)
(***************************************************************************)
EXTENDS Naturals, Sequences, SequencesExt

Undefined == <<"undefined">>
Null == <<"null">>
False == <<"false">>
Blank == <<"blank">>              \* NaN
Atom(a) == <<"atom", a>>          \* a number or true
Array(items) == <<"array", items>>
Object(entries) == <<"object", entries>>
Failure(error) == <<"failure", error>>     \* an Error, seen as a value

\* Text, which requests alone look into: some text and what was put into it,
\* nothing if that is undefined.
Text(base, injected) == <<"text", base, injected>>
EmptyText == Text("", Undefined)

NoEntries == [key \in {} |-> Undefined]
IsArray(v) == v[1] = "array" /\ v[2] \in Seq(Range(v[2]))   \* the items are in order
IsObject(v) == v[1] = "object"
IsText(v) == v[1] = "text"
Truthy(v) == v \notin {Undefined, Null, False, Blank, EmptyText}
defaultTo(v, default) == IF v \in {Undefined, Null, Blank} THEN default ELSE v

\* What Object.assign and lodash see of a value: an array has its items under
\* their indices, from 0, a primitive nothing.
Entries(v) ==
  CASE IsObject(v) -> v[2]
    [] IsArray(v) -> [key \in {ToString(i - 1) : i \in DOMAIN v[2]} |->
                        v[2][CHOOSE i \in DOMAIN v[2] : ToString(i - 1) = key]]
    [] OTHER -> NoEntries
Get(v, key) == IF key \in DOMAIN Entries(v) THEN Entries(v)[key] ELSE Undefined

\* The entries with x at a path: those along the path are made where there are none.
SetIn(entries, path, x) ==
  LET n == Len(path)
      old[i \in 1 .. n] ==
        IF i = 1 THEN entries ELSE Entries(Get(Object(old[i - 1]), path[i - 1]))
      new[i \in 1 .. n] ==
        (path[i] :> IF i = n THEN x ELSE Object(new[i + 1])) @@ old[i]
  IN  new[1]

-----------------------------------------------------------------------------
(* Reducers *)

Source(type, of) == [type |-> type, of |-> of]
Stub(helper, args) == Source(helper, args)
Constant(v) == Stub("constant", v)
=============================================================================
