------------------------------- MODULE GoWiring -------------------------------
(***************************************************************************)
(* The module wiring of a Go rendering, src/corpus/gomod.go.  A directory  *)
(* at the rendering root other than the target and the consumers is a      *)
(* dependency; the target must require each dependency's module and reach  *)
(* it by a replace directive or by the root's go.work.                     *)
(*                                                                         *)
(* A rendering's modules are a function of the directories that hold a     *)
(* module file to what it reads as: its path, None where it declares none  *)
(* or does not parse, the paths it requires, and the directory each        *)
(* replace names.  The uses of go.work are a sequence, None without one;   *)
(* a path that is no directory of the root is Elsewhere.                   *)
(***************************************************************************)
EXTENDS Ordering, FiniteSets, TLC

(* A defect is its kind and what it is about. *)
Defect(kind, about) == {<<kind, about>>}
When(wrong, kind, about) == IF wrong THEN Defect(kind, about) ELSE {}

Target == "target"
Elsewhere == "elsewhere"

NoModule == [path |-> None, requires |-> {}, replaces |-> << >>]
ModuleOf(modules, dir) == IF dir \in DOMAIN modules THEN modules[dir] ELSE NoModule
ReplacedBy(module, path) == IF path \in DOMAIN module.replaces THEN module.replaces[path] ELSE None
Dependencies(dirs, consumers) == dirs \ ({Target} \cup consumers)

(* checkGoWorkspace: the defects of go.work, and the directories it         *)
(* resolves: those it lists, when it lists the target too.                 *)
UseIsWrong(use, dependencies) == use \notin dependencies \cup {Target}
WorkspaceErrs(uses, dependencies) ==
  IF uses = None THEN {}
  ELSE {<<"workspace use", uses[i]>> : i \in {i \in DOMAIN uses : UseIsWrong(uses[i], dependencies)}}
       \cup When(~Contains(uses, Target), "workspace no target", Target)
Workspace(uses, dependencies) ==
  IF uses # None /\ Contains(uses, Target) THEN {u \in Range(uses) : ~UseIsWrong(u, dependencies)} ELSE {}

(* Bug: a dependency go.work lists needs no require either. *)
DependencyErrsListed(dependency, modules, workspace) ==
  LET module == ModuleOf(modules, dependency).path
      target == ModuleOf(modules, Target)
  IN  IF module = None THEN Defect("no module", dependency)
      ELSE IF dependency \in workspace THEN {}
      ELSE When(module \notin target.requires, "no dependency require", dependency)
           \cup When(ReplacedBy(target, module) # dependency, "no dependency replace", dependency)

DependencyErrs(dependency, modules, workspace) ==
  LET module == ModuleOf(modules, dependency).path
      target == ModuleOf(modules, Target)
  IN  IF module = None THEN Defect("no module", dependency)
      ELSE When(module \notin target.requires, "no dependency require", dependency)
           \cup When(dependency \notin workspace /\ ReplacedBy(target, module) # dependency,
                     "no dependency replace", dependency)

(* checkGoDependencyModules *)
GoDependencyErrs(consumers, dirs, modules, uses) ==
  LET dependencies == Dependencies(dirs, consumers)
  IN  WorkspaceErrs(uses, dependencies)
      \cup UNION {DependencyErrs(d, modules, Workspace(uses, dependencies)) : d \in dependencies}

(* checkGoConsumerModules: each requires the target's module and replaces  *)
(* it with the target's directory.                                         *)
ConsumerErrs(consumer, target, modules) ==
  IF consumer \notin DOMAIN modules THEN Defect("no module", consumer)
  ELSE When(target \notin modules[consumer].requires, "no require", consumer)
       \cup When(ReplacedBy(modules[consumer], target) # Target, "no replace", consumer)
GoConsumerErrs(consumers, modules) ==
  LET target == ModuleOf(modules, Target).path
  IN  IF target = None THEN Defect("no module", Target)
      ELSE UNION {ConsumerErrs(c, target, modules) : c \in consumers}

---------------------------------------------------------------------------
(* The directory a module of the rendering loads one it requires from: the *)
(* workspace's before a replace, as the go command resolves it.            *)
Loads(from, path, modules, uses) ==
  LET listed == {d \in Workspace(uses, DOMAIN modules) : modules[d].path = path}
  IN  IF from = Target /\ uses # None /\ listed # {} THEN listed
      ELSE {ReplacedBy(modules[from], path)} \ {None}

(* Check does not ask that no dependency has the module path of another or *)
(* of the target, nor that no consumer is named as the target is.          *)
DirectoriesApart(consumers, dirs, modules) ==
  LET dependencies == Dependencies(dirs, consumers)
  IN  /\ Target \notin consumers
      /\ \A d \in dependencies, e \in dependencies \cup {Target} :
           d # e => ModuleOf(modules, d).path # ModuleOf(modules, e).path

(* A rendering held to no defect loads with no network: the target requires *)
(* every dependency directory's module and loads it from there, every       *)
(* consumer present requires the target's module and loads it from target,  *)
(* and no directory is both a consumer and a member of the workspace:      *)
(* gomod.go:66 and 130.                                                    *)
WiredWithin(consumers, dirs, modules, uses) ==
  /\ \A d \in Dependencies(dirs, consumers) :
       /\ d \in DOMAIN modules /\ modules[d].path \in modules[Target].requires
       /\ d \in Loads(Target, modules[d].path, modules, uses)
  /\ \A c \in consumers \cap dirs :
       /\ modules[Target].path \in modules[c].requires
       /\ Target \in Loads(c, modules[Target].path, modules, uses)
  /\ uses # None => Range(uses) \cap consumers = {}
=============================================================================
