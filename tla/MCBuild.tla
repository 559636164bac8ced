-------------------------------- MODULE MCBuild --------------------------------
(***************************************************************************)
(* From the schema and a configuration file to what a build links.  A      *)
(* behaviour takes one of two subjects.                                    *)
(*                                                                         *)
(* "profile": every configuration file of up to MaxLines lines that set    *)
(* something, over the namespaces the library's own code uses and one more.*)
(*                                                                         *)
(* "schema": core.tl and a schema of up to four lines, searched in every   *)
(* build a selection of features makes.  A name has one identifier, and    *)
(* identifiers are not in the order of the names; one identifier occurs in *)
(* two namespaces.                                                         *)
(***************************************************************************)
EXTENDS BuildProfile, SchemaGenerator, TLC

VARIABLE subject

allVars == <<subject, vars, generatorVars>>

MCNamespaces == {"account", "auth", "messages", "updates", "users", "help"}

-----------------------------------------------------------------------------
MCFiles == <<"core.tl", "telegram_api.tl">>

NamespaceOrder == <<"auth", "common", "core", "help">>
NameOrder == <<<<"auth", "z">>, <<"help", "p">>, <<"help", "q">>, <<"help", "r">>,
               <<"", "p">>, <<"", "q">>>>
Before(order, a, b) ==
    \E i, j \in DOMAIN order : order[i] = a /\ order[j] = b /\ i < j
MCPrecedes(a, b) == Before(NamespaceOrder, a, b)
MCNamePrecedes(a, b) == Before(NameOrder, a, b)

Token(name, ty, flags, bit) == [name |-> name, ty |-> ty, flags |-> flags, bit |-> bit]

(* A second flags word behind other fields, as in `community`, and a word  *)
(* that is referred to before it is there.                                 *)
FieldLists ==
    {<<Token("flags", "#", "", 0), Token("a", "int", "flags", 1),
       Token("flags2", "#", "", 0), Token("b", "true", "flags2", 20)>>,
     <<Token("a", "int", "", 0), Token("flags", "#", "", 0), Token("b", "int", "flags", 0)>>,
     <<Token("a", "int", "flags", 0), Token("flags", "#", "", 0)>>}

Line(kind, name, id, fields) == [kind |-> kind, name |-> name, id |-> id, fields |-> fields]
Other == {Line(kind, <<"", "">>, 0, <<>>) : kind \in {"functions", "types", "skipped", "badId"}}
Declares(prefix, rest, id, fields) == Line("declaration", <<prefix, rest>>, id, fields)

MCLinesOf ==
    "core.tl" :> Other \cup {Declares("", "p", 4, <<>>), Declares("", "q", 1, <<>>)}
 @@ "telegram_api.tl" :>
       Other \cup {Declares("", "p", 3, <<>>), Declares("help", "p", 3, <<>>),
                   Declares("help", "r", 2, <<>>), Declares("auth", "z", 5, <<>>)}
             \cup {Declares("help", "q", 5, fields) : fields \in FieldLists}

MCMaxLinesOf == "core.tl" :> 2 @@ "telegram_api.tl" :> 4

EnabledBy(fs) == {n \in MCNamespaces \cup {"common"} : Api(n) \in Closure(fs)}
MCBuilds ==
    {EnabledBy(fs) : fs \in SUBSET {Feature("api"), Feature("auth"), Api("help"), Api("auth")}}
-----------------------------------------------------------------------------
MCInit == subject \in {"profile", "schema"} /\ Init /\ GeneratorInit

ProfileStep == subject = "profile" /\ Next /\ UNCHANGED <<subject, generatorVars>>
SchemaStep == subject = "schema" /\ GeneratorNext /\ UNCHANGED <<subject, vars>>

MCNext == ProfileStep \/ SchemaStep

MCSpec == MCInit /\ [][MCNext]_allVars
===============================================================================
