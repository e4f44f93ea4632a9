--------------------------- MODULE FixtureDocuments ---------------------------
(***************************************************************************)
(* What the runner hands an analyzer beside a rendering, src/corpus/run.go: *)
(* the configuration document (configOf) and the scope document (scopeOf)  *)
(* of one fixture.  A configuration is a function of the keys it sets, a   *)
(* key its section and its name; every other key keeps its default.  A     *)
(* member written as it stands is its own value.                           *)
(***************************************************************************)
EXTENDS FixtureChecks

CONSTANTS
  Names,       \* the logical names, ascending
  Platforms,   \* what each identifier of an operating system and an architecture names
  ConfigKeys   \* the closed list of configuration keys

DeclarationKeys == {"ts"} \X {"injection_registrations", "serializers", "lifecycle_contracts"}

(* The logical names are listed once each, and the key list has every key   *)
(* the runner writes by name: src/vocab/config_gen.go:93.                  *)
ASSUME NamesListedOnce ==
  /\ Names \in Seq(Range(Names))
  /\ \A i, j \in DOMAIN Names : Names[i] = Names[j] => i = j
ASSUME KeysListed ==
  /\ {<<"target", "kind">>, <<"roots", "patterns">>, <<"consumers", "complete">>} \subseteq ConfigKeys
  /\ {"analysis"} \X {"matrix", "configurations", "min_confidence", "consumer_tests"} \subseteq ConfigKeys
  /\ {"severity"} \X Vocabulary["severity"] \subseteq ConfigKeys
  /\ {"ts"} \X {"entry_files", "disabled_conventions"} \subseteq ConfigKeys
  /\ DeclarationKeys \subseteq ConfigKeys

Sorted(names) == Selected(Names, {i \in DOMAIN Names : Names[i] \in names})

(* closedWorld: the keys of the facts named; hasRootsComplete, the key list *)
(* has one for the language.                                               *)
HasRootsComplete(language) == <<language, "roots_complete">> \in ConfigKeys
DeclaredMatrix(identifiers) == [i \in DOMAIN identifiers |-> Platforms[identifiers[i]]]
ClosedWorldKeys(expect, built, language) ==
  LET sets == [consumers |-> {<<"consumers", "complete">>},
               matrix |-> {<<"analysis", "matrix">>, <<"analysis", "configurations">>},
               roots |-> IF HasRootsComplete(language) THEN {<<language, "roots_complete">>} ELSE {}]
  IN  [key \in UNION {sets[fact] : fact \in expect.closedWorld} |->
         IF key[2] = "configurations" THEN DeclaredMatrix(built) ELSE TRUE]
(* The document cannot be written: an unknown fact, or no platform. *)
ConfigRefused(expect, built) ==
  \/ expect.closedWorld \ {"consumers", "matrix", "roots"} # {}
  \/ "matrix" \in expect.closedWorld /\ Range(built) \ DOMAIN Platforms # {}

(* An entry of a lifecycle contract's list is a contract of its own. *)
EntryOf(declared) ==
  IF declared.list = None THEN declared.entry
  ELSE (declared.list :> <<declared.entry>>) @@ ("members" :> declared.members)

(* The declarations of one key, ascending.                                 *)
Under(expect, key) == Sorted({name \in expect.declarations : expect.declared[name].key = key})

(* Bug: a key holds the last entry written under it. *)
DeclarationsLast(expect, language) ==
  [key \in {<<language, expect.declared[n].key>> : n \in expect.declarations} |->
     <<EntryOf(expect.declared[Last(Under(expect, key[2]))])>>]

(* configuredDeclarations: whatever its language, a key is written in the   *)
(* section of the language analyzed.                                       *)
ConfiguredDeclarations(expect, language) ==
  [key \in {<<language, expect.declared[n].key>> : n \in expect.declarations} |->
     LET names == Under(expect, key[2]) IN [i \in DOMAIN names |-> EntryOf(expect.declared[names[i]])]]

(* configOf *)
WrittenAsTheyStand(expect, language) ==
  LET section == [min_confidence |-> "analysis", consumer_tests |-> "analysis", entry_files |-> language,
                  import_paths |-> language, disabled_conventions |-> language]
      members == expect.members \cap DOMAIN section
  IN  [key \in {<<section[m], m>> : m \in members} |-> key[2]]
RootPatterns(expect) ==
  LET names == Sorted(expect.roots)
  IN  [key \in {<<"roots", "patterns">> : name \in expect.roots} |-> [i \in DOMAIN names |-> expect.patterns[names[i]]]]
Severities(expect) == [key \in {"severity"} \X expect.severity |-> key[2]]
Over(one, other) ==
  [key \in DOMAIN one \cup DOMAIN other |-> IF key \in DOMAIN one THEN one[key] ELSE other[key]]
ConfigOf(expect, built, language) ==
  Over([key \in {<<"target", "kind">>} |-> expect.targetKind],
       Over(WrittenAsTheyStand(expect, language),
            Over(ConfiguredDeclarations(expect, language),
                 Over(RootPatterns(expect),
                      Over(Severities(expect), ClosedWorldKeys(expect, built, language))))))

(* scopeOf: written where the fixture names a consumer. *)
ScopeOf(expect) ==
  IF expect.consumers = {} THEN {}
  ELSE {<<Target, "target">>} \cup {<<name, "consumer">> : name \in expect.consumers}
=============================================================================
