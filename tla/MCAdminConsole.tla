--------------------------- MODULE MCAdminConsole ---------------------------
(* An instance of AdminConsole: one API, two groups, two roles, three users,
   three sessions, a directory of two people. *)
EXTENDS AdminConsole, Integers, TLC
CONSTANTS x, g1, g2, r, q, ann, bob, cleo

Rb == INSTANCE Rbac
MCOffered == {Rb!Global("api.manage"), Rb!APIScope(x, "manage"), Rb!APIScope(x, "view")}
MCTemplates == {{Rb!Global("api.invoke")}}
MCElsewhere == {Rb!APIScope(x, "delete")}
MCFirstOwn == [k \in {"user", "group", "role", "api"} |->
                 CASE k \in {"user", "api"} -> {g1} [] k = "group" -> {q}
                   [] k = "role" -> {Rb!APIScope(x, "view")}]
MCFirstLists == (g1 :> {r, q}) @@ (g2 :> {q})

MCOrder == <<ann, bob, cleo>>
MCSizes == <<2, 3>>

MCTitleOf == ("u" :> "alpha") @@ ("v" :> "beta")
MCSlugOf == ("alpha" :> "a") @@ ("beta" :> "b")

MCMain == [k \in Settings |->
             CASE k \in {"ldap", "azure"} -> {"host", "host2"}
               [] k = "session" -> {4, 5, 90} [] k = "system" -> {"title", "title2"}]
MCExtra == [k \in Settings |->
              CASE k \in {"ldap", "azure"} -> {"", "pw2"}
                [] k = "session" -> {1, 24, 721} [] k = "system" -> {"", "logo2"}]
MCFirstSettings == [k \in Settings |->
                      CASE k \in {"ldap", "azure"} -> [main |-> "host", extra |-> "pw"]
                        [] k = "session" -> [main |-> 5, extra |-> 24]
                        [] k = "system" -> [main |-> "title", extra |-> "logo"]]

MCPages == <<1, 2>>
MCHits == ("all" :> {ann, bob}) @@ ("some" :> {bob})
MCFirstLog == ("" :> 3) @@ ("failed" :> 1)
=============================================================================
