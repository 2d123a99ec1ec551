---------------------------- MODULE MCPortalPages ----------------------------
(* An instance of PortalPages: three APIs in the catalogue (one healthy, one without a    *)
(* specification, one whose refresh failed); in the console operations of two APIs; two   *)
(* APIs in the palette; documents of three schemas, of a few parameters, of three         *)
(* operations.                                                                            *)
EXTENDS PortalPages, Naturals, Sequences, FiniteSets, TLC
CONSTANTS red, team, ab, abc, get, other, id, auth, token, x, y, o1, o2, A, B, D

MCApis ==
    {[id |-> 1, name |-> 1, tags |-> {red}, owner |-> team, words |-> {ab, abc}, spec |-> "ok",
      refreshed |-> 5, staleBefore |-> 3, viewed |-> 0, favorite |-> TRUE, invoke |-> TRUE,
      manage |-> FALSE, view |-> TRUE, tryIt |-> TRUE, active |-> TRUE],
     [id |-> 2, name |-> 2, tags |-> {}, owner |-> None, words |-> {ab}, spec |-> "missing",
      refreshed |-> 0, staleBefore |-> 3, viewed |-> 4, favorite |-> FALSE, invoke |-> FALSE,
      manage |-> TRUE, view |-> TRUE, tryIt |-> FALSE, active |-> TRUE],
     [id |-> 3, name |-> 3, tags |-> {}, owner |-> team, words |-> {}, spec |-> "error",
      refreshed |-> 1, staleBefore |-> 3, viewed |-> 4, favorite |-> FALSE, invoke |-> FALSE,
      manage |-> FALSE, view |-> TRUE, tryIt |-> FALSE, active |-> FALSE]}

MCApiOf == (get :> "a") @@ (other :> "b")
MCKeyOf == (get :> "getItem") @@ (other :> "listItems")
MCGiven == (id :> "") @@ (auth :> "") @@ (token :> "")
MCIn == (id :> "path") @@ (auth :> "header") @@ (token :> "header")

MCCatalog == <<x, y>>
MCMatching == (ab :> {x, y, "help"}) @@ (abc :> {y}) @@ (Short :> {x, "catalog", "admin", "last"})
MCOpsOf == (ab :> <<o1, o2>>) @@ (abc :> <<o2>>)

\* Schema A is of any kind with any two parts; B and D refer back or end.
MCSchema(kind, to, flags) ==
    [kind |-> kind, to |-> to, given |-> "given" \in flags, readOnly |-> "read" \in flags,
     writeOnly |-> "write" \in flags]
MCTo(n) == {<<>>} \cup {<<m>> : m \in Name} \cup (IF n = D THEN {} ELSE {<<B, D>>, <<A, B>>})
MCDefs == [n \in Name |->
    {MCSchema("scalar", <<>>, f) : f \in {{}, {"read"}, {"given", "write"}}} \cup {MCSchema("any", <<>>, {})}
    \cup {MCSchema("allOf", <<D>>, {"given"})}
    \cup {MCSchema(k, to, {}) : k \in {"ref", "object", "array", "allOf", "oneOf"}, to \in MCTo(n)}]

MCParam == [name: {"id", "q"}, in: {"path", "query", "body", "formData", ""}, required: BOOLEAN]
MCSeq(o) == {<<>>} \cup {<<p @@ ("own" :> o)>> : p \in MCParam}
            \cup {<<p @@ ("own" :> o), q @@ ("own" :> o)>> : p \in MCParam,
                  q \in {r \in MCParam : r.required}}
MCDeclared == [shared |-> MCSeq(FALSE), own |-> MCSeq(TRUE) \ {s \in MCSeq(TRUE) : Len(s) = 2}]

MCOp == [path: {1, 2}, method: {1, 2}, id: {"", "get", "list"}, tag: {"", "b", "c", "d"}, deprecated: BOOLEAN]
MCOps == {{}} \cup {{o} : o \in MCOp}
         \cup {{o, q} : o \in {p \in MCOp : p.path = 1 /\ p.method = 1},
                q \in {p \in MCOp : p.path = 2 \/ p.method = 2}}
MCTagOrder == <<"c">>
MCOtherTags == <<"b", "d">>
=============================================================================
