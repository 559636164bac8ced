------------------------------ MODULE BuildProfile ------------------------------
(***************************************************************************)
(* How a configuration file becomes a set of linked features: trlib-build  *)
(* reads the file line by line, selects Cargo features for one package and *)
(* runs Cargo, which adds what the manifests of trlib-core and of that     *)
(* package imply.                                                          *)
(*                                                                         *)
(* A feature of trlib-core is a pair: <<name, "">>, or <<"api", n>> for    *)
(* the namespace n of the schema.                                          *)
(***************************************************************************)
EXTENDS Naturals, Sequences, FiniteSets

CONSTANTS
    Namespaces,     \* API_NAMESPACES
    MaxLines        \* bound: lines of the file that set something

ASSUME NamespacesAssumption ==
    /\ {"account", "auth", "messages", "updates", "users"} \subseteq Namespaces
    /\ {"", "common", "core"} \cap Namespaces = {}

(* Keys that set a switch, and the switches of a default configuration.    *)
Switches == {"std", "service", "transport_abridged", "transport_intermediate",
             "crypto_rustcrypto", "auth_key", "api", "auth", "session_document",
             "session_file"}
OnByDefault == {"service", "transport_intermediate"}

Packages == {"trlib-core", "tg-test-login", "tl-prefix-gen", "no-such-package"}

VARIABLES
    phase,          \* "reading", "refused", "selected", "built", "failed"
    package,
    switches,       \* the switches that are on
    override,       \* api_namespaces: namespace -> value, where one was set
    selected,       \* what selected_features returned
    linked,         \* the features of trlib-core in the binary
    lines           \* history: the lines read

vars == <<phase, package, switches, override, selected, linked, lines>>

Feature(name) == <<name, "">>
Api(n) == <<"api", n>>
Common == Api("common")

-----------------------------------------------------------------------------
Init ==
    /\ phase = "reading"
    /\ package = "trlib-core" /\ switches = OnByDefault
    /\ override = << >>
    /\ selected = {} /\ linked = {} /\ lines = <<>>

Reading(line) ==
    /\ phase = "reading" /\ Len(lines) < MaxLines
    /\ lines' = Append(lines, line)
    /\ UNCHANGED <<selected, linked>>

(* A later line for a key replaces what an earlier one set.                *)
ReadSwitch(key, value) ==
    /\ Reading([key |-> key, namespace |-> "", on |-> value])
    /\ switches' = IF value THEN switches \cup {key} ELSE switches \ {key}
    /\ UNCHANGED <<phase, package, override>>

(* Mutant: only the first line for a namespace counts.                     *)
ReadNamespaceOnce(n, value) ==
    /\ Reading([key |-> "api_", namespace |-> n, on |-> value])
    /\ override' = [m \in DOMAIN override \cup {n} |->
                       IF m \in DOMAIN override THEN override[m] ELSE value]
    /\ UNCHANGED <<phase, package, switches>>

ReadNamespace(n, value) ==
    /\ Reading([key |-> "api_", namespace |-> n, on |-> value])
    /\ override' = [m \in DOMAIN override \cup {n} |->
                       IF m = n THEN value ELSE override[m]]
    /\ UNCHANGED <<phase, package, switches>>

ReadPackage(p) ==
    /\ Reading([key |-> "package", namespace |-> "", on |-> TRUE])
    /\ package' = p
    /\ UNCHANGED <<phase, switches, override>>

(* No `=`, an unknown key or namespace, no Boolean, no package name: the   *)
(* file is refused, and nothing is built.                                  *)
Refuse ==
    /\ Reading([key |-> "?", namespace |-> "", on |-> FALSE])
    /\ phase' = "refused"
    /\ UNCHANGED <<package, switches, override>>

-----------------------------------------------------------------------------
(* Cargo's name of a switch; `api` is treated apart.                       *)
FeatureOf(key) ==
    CASE key = "transport_abridged" -> Feature("transport-abridged")
      [] key = "transport_intermediate" -> Feature("transport-intermediate")
      [] key = "crypto_rustcrypto" -> Feature("crypto-rustcrypto")
      [] key = "auth_key" -> Feature("auth-key")
      [] key = "session_document" -> Feature("session-document")
      [] key = "session_file" -> Feature("session-file")
      [] OTHER -> Feature(key)

(* Mutant: the meta feature is selected whatever the overrides are.        *)
SelectedApiMeta ==
    (IF "api" \in switches THEN {Feature("api")} ELSE {})
    \cup {Api(n) : n \in {m \in DOMAIN override : override[m]}}

(* The meta feature, or the namespaces one by one.                         *)
SelectedApi ==
    IF "api" \in switches /\ DOMAIN override = {} THEN {Feature("api")}
    ELSE {Api(n) : n \in {m \in Namespaces :
             IF m \in DOMAIN override THEN override[m] ELSE "api" \in switches}}

(* selected_features                                                       *)
SelectedFeatures == {FeatureOf(key) : key \in switches \ {"api"}} \cup SelectedApi

Select ==
    /\ phase = "reading"
    /\ selected' = SelectedFeatures
    /\ phase' = "selected"
    /\ UNCHANGED <<package, switches, override, linked, lines>>

-----------------------------------------------------------------------------
AuthNamespaces == {"auth", "account", "users", "updates"}

(* Mutant: the manifest's `auth` forgets the namespace of getPassword.     *)
ImpliesWithoutAccount(f) ==
    CASE f = Feature("auth-key") -> {Feature("crypto-rustcrypto")}
      [] f = Feature("session-document") -> {Feature("crypto-rustcrypto")}
      [] f = Feature("session-file") -> {Feature("session-document"), Feature("std")}
      [] f = Feature("auth") -> {Common} \cup {Api(n) : n \in AuthNamespaces \ {"account"}}
      [] f = Feature("api") -> {Common} \cup {Api(n) : n \in Namespaces}
      [] f[1] = "api" /\ f[2] # "" -> {Common}
      [] OTHER -> {}

(* [features] of trlib-core's manifest.                                    *)
Implies(f) ==
    CASE f = Feature("auth-key") -> {Feature("crypto-rustcrypto")}
      [] f = Feature("session-document") -> {Feature("crypto-rustcrypto")}
      [] f = Feature("session-file") -> {Feature("session-document"), Feature("std")}
      [] f = Feature("auth") -> {Common} \cup {Api(n) : n \in AuthNamespaces}
      [] f = Feature("api") -> {Common} \cup {Api(n) : n \in Namespaces}
      [] f[1] = "api" /\ f[2] # "" -> {Common}
      [] OTHER -> {}

WithImplied(fs) == fs \cup UNION {Implies(f) : f \in fs}

(* Three steps reach the end: session-file, session-document, crypto.      *)
Closure(fs) == WithImplied(WithImplied(WithImplied(fs)))

(* The features the package's own manifest asks of trlib-core.             *)
Required(p) ==
    IF p = "tg-test-login"
    THEN {Feature("auth-key"), Feature("auth"), Feature("crypto-rustcrypto"),
          Feature("transport-intermediate")}
    ELSE {}

UsesCore(p) == p \in {"trlib-core", "tg-test-login"}

(* Features of trlib-core are asked for by their bare names, or, for any   *)
(* other package, as trlib-core/name, which Cargo refuses where trlib-core *)
(* is no dependency.                                                       *)
CargoRefuses ==
    package = "no-such-package" \/ (~UsesCore(package) /\ selected # {})

RunCargo ==
    /\ phase = "selected" /\ ~CargoRefuses
    /\ linked' = IF UsesCore(package) THEN Closure(selected \cup Required(package)) ELSE {}
    /\ phase' = "built"
    /\ UNCHANGED <<package, switches, override, selected, lines>>

CargoFails ==
    /\ phase = "selected" /\ CargoRefuses
    /\ phase' = "failed"
    /\ UNCHANGED <<package, switches, override, selected, linked, lines>>

Next ==
    \/ \E key \in Switches, value \in BOOLEAN : ReadSwitch(key, value)
    \/ \E n \in Namespaces, value \in BOOLEAN : ReadNamespace(n, value)
    \/ \E p \in Packages : ReadPackage(p)
    \/ Refuse \/ Select \/ RunCargo \/ CargoFails

Spec == Init /\ [][Next]_vars

-----------------------------------------------------------------------------
(* What #[cfg] compiles, and what the compiled code refers to.  A part of  *)
(* generated.rs is <<"generated", namespace>>, any other <<module, "">>.   *)
Part(name) == <<name, "">>
Generated(n) == <<"generated", n>>

CompiledWith(fs) ==
    {p \in {Part(m) : m \in {"std", "service", "auth_key", "crypto", "session", "session::file",
                             "transport::abridged", "transport::intermediate"}} :
        CASE p = Part("std") -> Feature("std") \in fs
          [] p = Part("service") -> Feature("service") \in fs
          [] p = Part("auth_key") -> Feature("auth-key") \in fs
          [] p = Part("crypto") -> Feature("crypto-rustcrypto") \in fs
          [] p = Part("session") -> Feature("session-document") \in fs
          [] p = Part("session::file") ->
                {Feature("session-document"), Feature("session-file")} \subseteq fs
          [] p = Part("transport::abridged") -> Feature("transport-abridged") \in fs
          [] p = Part("transport::intermediate") -> Feature("transport-intermediate") \in fs}
    \cup {Generated("core")}
    \cup {Generated(n) : n \in {m \in Namespaces \cup {"common"} : Api(m) \in fs}}
    \cup (IF {Feature("api"), Common} \cap fs = {} THEN {}
          ELSE {Part("api")}
               \cup {Part("api::auth") : x \in {Feature("auth")} \cap fs}
               \cup {<<"api", n>> : n \in {m \in {"messages", "updates", "users"} :
                                             Api(m) \in fs}})

Refers(part) ==
    CASE part = Part("api") -> {Generated("common"), Generated("core")}
      [] part = Part("api::auth") ->
            {Part("api")} \cup {Generated(n) : n \in {"auth", "account", "common"}}
      [] part[1] = "api" /\ part[2] # "" -> {Part("api"), Generated(part[2]), Generated("common")}
      [] part = Part("auth_key") -> {Part("crypto"), Generated("core")}
      [] part = Part("session") -> {Part("crypto")}
      [] part = Part("session::file") -> {Part("session"), Part("std")}
      [] part = Part("service") -> {Generated("core")}
      [] OTHER -> {}

(* Mutant: one namespace is enough for the API bit.                        *)
CompiledFeaturesOfCommon ==
    {f \in {Feature(n) : n \in {"transport-abridged", "transport-intermediate", "service",
                                "crypto-rustcrypto", "auth", "session-document",
                                "session-file"}} : f \in linked}
    \cup {Feature("api") : x \in {Common} \cap linked}

(* CompiledFeatures::current, the names of its bits.                       *)
CompiledFeatures ==
    {f \in {Feature(n) : n \in {"transport-abridged", "transport-intermediate", "service",
                                "crypto-rustcrypto", "api", "auth", "session-document",
                                "session-file"}} : f \in linked}

-----------------------------------------------------------------------------
(* What the file says of a key: its last line for it, if it has one.       *)
Says(i, key, n) == lines[i].key = key /\ lines[i].namespace = n
Silent(key, n) == \A i \in DOMAIN lines : ~Says(i, key, n)
SaysOn(key, n) ==
    \E i \in DOMAIN lines :
        /\ Says(i, key, n) /\ lines[i].on
        /\ \A j \in DOMAIN lines : j > i => ~Says(j, key, n)

Asked(n) == SaysOn("api_", n) \/ (Silent("api_", n) /\ SaysOn("api", ""))

Built == phase = "built" /\ UsesCore(package)

(* Whatever the file says, the code that is compiled refers to nothing     *)
(* that is left out: no configuration breaks the build.                    *)
ReferencesAreCompiled ==
    Built => \A part \in CompiledWith(linked) : Refers(part) \subseteq CompiledWith(linked)

(* The namespaces in the binary are those whose last line says so, or the  *)
(* `api` key where there is none, and those that the login helpers bring.  *)
NamespacesAsAsked ==
    Built => \A n \in Namespaces :
        Api(n) \in linked <=> Asked(n) \/ (n \in AuthNamespaces /\ Feature("auth") \in linked)

(* A host may trust the bits of CompiledFeatures: each says exactly that   *)
(* its module is compiled, and the API bit promises the whole schema.  The *)
(* API bit is a promise one way only: it is unset for a file that switches *)
(* every namespace on by itself.                                           *)
BitsReportWhatIsCompiled ==
    Built =>
        /\ \A pair \in {<<"transport-abridged", Part("transport::abridged")>>,
                        <<"transport-intermediate", Part("transport::intermediate")>>,
                        <<"service", Part("service")>>, <<"crypto-rustcrypto", Part("crypto")>>,
                        <<"auth", Part("api::auth")>>, <<"session-document", Part("session")>>,
                        <<"session-file", Part("session::file")>>} :
              Feature(pair[1]) \in CompiledFeatures <=> pair[2] \in CompiledWith(linked)
        /\ Feature("api") \in CompiledFeatures =>
              \A n \in Namespaces : Generated(n) \in CompiledWith(linked)
===============================================================================
