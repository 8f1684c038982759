---------------------------- MODULE CommandLines ----------------------------
(***************************************************************************)
(* How the framework adapters start a process: the arguments of a          *)
(* discovery and of a worker, made of what the user's command has after    *)
(* the framework's executable, and the Node options that load the Datadog  *)
(* library.                                                                *)
(*                                                                         *)
(* An argument is a word, an option, or an option with an inline value.    *)
(* How many values an option takes is a property of the framework: the     *)
(* adapters that drop arguments have it in tables.                         *)
(***************************************************************************)
EXTENDS Naturals, Sequences, FiniteSets, SequencesExt

Word(text) == [kind |-> "word", text |-> text]
Option(name) == [kind |-> "option", text |-> name]
Inline(name) == [kind |-> "inline", text |-> name]
Arguments(texts) == [kind : {"word", "option", "inline"}, text : texts]
Words(texts) == [i \in DOMAIN texts |-> Word(texts[i])]

IsWord(arg) == arg.kind = "word"
Is(arg, names) == arg.text \in names /\ ~IsWord(arg)

-----------------------------------------------------------------------------
(* Values of options.                                                      *)

(* playwrightOptionArities.                                                *)
Arity(name) ==
  CASE name \in {"--config", "--shard", "--reporter"} -> "one"
    [] name = "-u" -> "optional"
    [] name = "--project" -> "many"
    [] OTHER -> "none"

(* cucumberValueOptions and the value options of Cypress: one or none.     *)
SingleArity(name) ==
  IF name \in {"--config", "--env", "--tags", "--project", "--format"} THEN "one" ELSE "none"

(* Mutant: an option that takes several values is left with the first.     *)
BelongsOnce(arg, wanted) ==
  wanted = "one" \/ (wanted = "optional" /\ IsWord(arg))

(* Does an argument belong to the option before it?                        *)
Belongs(arg, wanted) ==
  wanted = "one" \/ (wanted \in {"optional", "many"} /\ IsWord(arg))

Texts(args) == {args[i].text : i \in DOMAIN args}
Arities(args) == [name \in Texts(args) |-> Arity(name)]
SingleArities(args) == [name \in Texts(args) |-> SingleArity(name)]

(* The elements of s at the given places, in their order.                  *)
Keeping(s, places) ==
  LET upTo[n \in 0 .. Len(s)] ==
        IF n = 0 THEN <<>>
        ELSE IF n \in places THEN Append(upTo[n - 1], s[n]) ELSE upTo[n - 1]
  IN  upTo[Len(s)]

(* The scan over the arguments: is the last one kept, and which values may *)
(* follow it?  A value goes the way of its option.                         *)
Scanned(arg, before, dropped, arity) ==
  IF Belongs(arg, before.wanted)
  THEN [before EXCEPT !.wanted = IF @ = "many" THEN "many" ELSE "none"]
  ELSE [keep   |-> arg \notin dropped,
        wanted |-> IF arg.kind = "option" THEN arity[arg.text] ELSE "none"]

(* The arguments without those that are dropped and their values.          *)
Without(args, dropped, arity) ==
  LET scan[n \in 0 .. Len(args)] ==
        IF n = 0 THEN [keep |-> TRUE, wanted |-> "none"]
        ELSE Scanned(args[n], scan[n - 1], dropped, arity)
  IN  Keeping(args, {n \in DOMAIN args : scan[n].keep})

-----------------------------------------------------------------------------
(* Playwright.                                                             *)

PlaywrightRunOverrides == {"--shard", "--list", "--ui"}
PlaywrightDiscoveryOverrides == PlaywrightRunOverrides \cup {"--reporter", "--debug"}

StartsWithWord(args) == args # <<>> /\ IsWord(args[1])

(* playwrightCLIArgs: "test" or nothing; any other subcommand is refused.  *)
PlaywrightAccepts(args) == StartsWithWord(args) => args[1].text = "test"
PlaywrightCLIArgs(args) == IF StartsWithWord(args) THEN Tail(args) ELSE args

PlaywrightFilter(args, overridden, removeFiles) ==
  Without(args, {a \in ToSet(args) : Is(a, overridden) \/ (removeFiles /\ IsWord(a))},
          Arities(args))

PlaywrightDiscoveryArgs(args) ==
  <<Word("test")>>
  \o PlaywrightFilter(PlaywrightCLIArgs(args), PlaywrightDiscoveryOverrides, FALSE)
  \o <<Option("--list"), Inline("--reporter")>>

(* Mutant: the files come last, as in the other adapters.                  *)
PlaywrightRunArgsFilesLast(args, files) ==
  <<Word("test")>>
  \o PlaywrightFilter(PlaywrightCLIArgs(args), PlaywrightRunOverrides, TRUE)
  \o Words(files)

(* Files come first: the last option may take any number of words.         *)
PlaywrightRunArgs(args, files) ==
  <<Word("test")>> \o Words(files)
  \o PlaywrightFilter(PlaywrightCLIArgs(args), PlaywrightRunOverrides, TRUE)

-----------------------------------------------------------------------------
(* Cypress, Cucumber, Vitest.                                              *)

(* removeCypressSubcommand: the first run or open, wherever it is.         *)
CypressWithoutSubcommand(args) ==
  LET at == {i \in DOMAIN args : args[i] \in {Word("run"), Word("open")}}
  IN  IF at = {} THEN args
      ELSE RemoveAt(args, CHOOSE i \in at : \A j \in at : i <= j)

(* cypressConfigurationArgs: only what chooses the configuration remains;  *)
(* its file is replaced and no spec is found.                              *)
CypressConfiguration == {"--component", "--e2e", "--config", "--env", "--project"}

CypressDiscoveryArgs(args) ==
  <<Word("run")>>
  \o Without(CypressWithoutSubcommand(args),
             {a \in ToSet(args) : ~Is(a, CypressConfiguration)}, SingleArities(args))
  \o <<Option("--config-file"), Word("wrapper"), Option("--spec"), Word("missing")>>

(* removeCypressOption.                                                    *)
CypressWithoutSpec(args) ==
  Without(args, {a \in ToSet(args) : Is(a, {"--spec"})},
          [name \in Texts(args) |-> IF name = "--spec" THEN "one" ELSE "none"])

(* The list after --spec is a single value; here it is written as several  *)
(* words.                                                                  *)
CypressRunArgs(args, files) ==
  <<Word("run")>> \o CypressWithoutSpec(CypressWithoutSubcommand(args))
  \o <<Option("--spec")>> \o Words(files)

(* cucumberArgsWithoutPaths.                                               *)
CucumberRunArgs(args, files) ==
  Without(args, {a \in ToSet(args) : IsWord(a)}, SingleArities(args)) \o Words(files)

CucumberDiscoveryArgs(args) ==
  args \o <<Option("--dry-run"), Option("--parallel"), Word("0"),
            Option("--format"), Word("message")>>

(* vitestArgsForSubcommand: the place behind the first argument that is    *)
(* named as the executable, a launcher's or a value; otherwise the front.  *)
VitestPlace(args) ==
  LET named == {i \in DOMAIN args : args[i] = Word("vitest")}
  IN  IF named = {} THEN 1 ELSE 1 + (CHOOSE i \in named : \A j \in named : i <= j)

VitestSubcommands == {Word("run"), Word("watch"), Word("dev"), Word("list")}

(* A known subcommand that stands there is replaced.                       *)
VitestArgs(args, subcommand) ==
  LET at == VitestPlace(args)
      next == IF at \in DOMAIN args /\ args[at] \in VitestSubcommands THEN at + 1 ELSE at
  IN  SubSeq(args, 1, at - 1) \o <<Word(subcommand)>> \o SubSeq(args, next, Len(args))

VitestDiscoveryArgs(args) ==
  VitestArgs(args, "list") \o <<Option("--filesOnly"), Inline("--json")>>

-----------------------------------------------------------------------------
(* The other frameworks: the files come last.                              *)

JestRunArgs(args, files) == args \o <<Option("--runTestsByPath")>> \o Words(files)

JestDiscoveryArgs(args) == Append(args, Option("--listTests"))

RSpecRunArgs(args, files) ==
  args \o <<Option("--format"), Word("progress")>> \o Words(files)

RailsRunArgs(args, files) == args \o Words(files)

(* The user's command is not looked at.                                    *)
PytestRunArgs(files) == Words(files)

-----------------------------------------------------------------------------
(* What a worker, and a discovery, of framework f is started with, after   *)
(* the executable.                                                         *)

RunArgs(f, args, files) ==
  CASE f = "playwright" -> PlaywrightRunArgs(args, files)
    [] f = "cypress" -> CypressRunArgs(args, files)
    [] f = "cucumber" -> CucumberRunArgs(args, files)
    [] f = "vitest" -> VitestArgs(args, "run") \o Words(files)
    [] f = "jest" -> JestRunArgs(args, files)
    [] f = "rspec" -> RSpecRunArgs(args, files)
    [] f = "minitest" -> RailsRunArgs(args, files)
    [] f = "pytest" -> PytestRunArgs(files)

DiscoveryArgs(f, args) ==
  CASE f = "playwright" -> PlaywrightDiscoveryArgs(args)
    [] f = "cypress" -> CypressDiscoveryArgs(args)
    [] f = "cucumber" -> CucumberDiscoveryArgs(args)
    [] f = "vitest" -> VitestDiscoveryArgs(args)
    [] f = "jest" -> JestDiscoveryArgs(args)
    [] OTHER -> args

-----------------------------------------------------------------------------
(* Node options, each a module to load and the form it is written in.      *)

RequireForms == {"-r M", "-rM", "--require M", "--require=M"}
ImportForms == {"--import M", "--import=M"}

(* The library's two modules by their names and by paths to them, a module *)
(* of the user's in whose path one of the names occurs, DDTest's adapter   *)
(* for Mocha, and any other.                                               *)
CIInit == "dd-trace/ci/init"
InitPath == "./node_modules/dd-trace/ci/init.js"
Register == "dd-trace/register.js"
RegisterPath == "./node_modules/dd-trace/register.js"
Lookalike == "./tools/dd-trace/ci/initial.js"
Modules == {CIInit, InitPath, Register, RegisterPath, Lookalike, "adapter", "other"}

(* Node loads a module of the library by any of these.                     *)
Spelled(module) ==
  CASE module = CIInit -> {CIInit, InitPath}
    [] module = Register -> {Register, RegisterPath}
    [] OTHER -> {module}

(* strings.Contains finds the name in these.                               *)
Containing(module) == Spelled(module) \cup IF module = CIInit THEN {Lookalike} ELSE {}

NodeArg == [form : RequireForms \cup ImportForms, module : Modules]
Load(form, module) == [form |-> form, module |-> module]
Loads(options, module) == \E i \in DOMAIN options : options[i].module \in Spelled(module)
Mentions(options, module) == \E i \in DOMAIN options : options[i].module \in Containing(module)
TimesLoaded(options, module) ==
  Cardinality({i \in DOMAIN options : options[i].module = module})

(* Mutant: the form in which a value is joined to -r is overlooked.        *)
StripSeparate(options, forms, module) ==
  Keeping(options, {i \in DOMAIN options :
                      ~(options[i].module = module /\ options[i].form \in forms \ {"-rM"})})

(* stripNodeOptionsRequire, stripNodeOptionsImport: the module by its name *)
(* and in these forms only.                                                *)
Strip(options, forms, module) ==
  Keeping(options, {i \in DOMAIN options :
                      ~(options[i].module = module /\ options[i].form \in forms)})

(* JavaScript.GetPlatformEnv and, for Vitest, addNodeImport: a search for  *)
(* the name in the text of all options.                                    *)
PlatformOptions(f, options) ==
  LET init == IF Mentions(options, CIInit) THEN options
              ELSE <<Load("-r M", CIInit)>> \o options
  IN  IF f # "vitest" \/ Mentions(init, Register) THEN init
      ELSE <<Load("--import M", Register)>> \o init

(* discoveryEnv of the JavaScript adapters, that of Vitest on top.         *)
WithoutInit(options) == Strip(options, RequireForms, CIInit)

DiscoveryOptions(f, options) ==
  LET plain == WithoutInit(PlatformOptions(f, options))
  IN  IF f = "vitest" THEN Strip(plain, ImportForms, Register) ELSE plain

(* RunTests: what --worker-env says replaces the platform's value.         *)
WorkerOptions(f, options, workerEnv) ==
  IF workerEnv = <<>> THEN PlatformOptions(f, options) ELSE workerEnv

-----------------------------------------------------------------------------
(* How a framework reads its arguments.                                    *)

(* A launcher has the executable of Vitest first, as in `npx vitest`.      *)
Launched(f, args) == f = "vitest" /\ args # <<>> /\ args[1] = Word("vitest")

(* How many values it takes for an option's.                               *)
ValuesOf(f, args) ==
  IF f = "playwright" THEN Arities(args)
  ELSE [name \in Texts(args) |->
          IF f = "cypress" /\ name = "--spec" THEN "many" ELSE SingleArity(name)]

(* Argument i is the option that word j is a value of.                     *)
Owns(args, arity, i, j) ==
  /\ i < j /\ args[i].kind = "option" /\ IsWord(args[j])
  /\ \/ arity[args[i].text] \in {"one", "optional"} /\ j = i + 1
     \/ arity[args[i].text] = "many" /\ \A k \in i + 1 .. j : IsWord(args[k])

(* The files it is asked for, and the values its options have.             *)
FilesRead(f, args) ==
  LET arity == ValuesOf(f, args)
      Free(j) == IsWord(args[j]) /\ ~\E i \in DOMAIN args : Owns(args, arity, i, j)
      AfterSpec(j) == \E i \in DOMAIN args :
                        args[i].text = "--spec" /\ Owns(args, arity, i, j)
      subcommand == IF Launched(f, args) THEN 2
                    ELSE IF f \in {"playwright", "cypress", "vitest"} THEN 1 ELSE 0
  IN  {args[j].text : j \in {k \in DOMAIN args : k > subcommand
                              /\ IF f = "cypress" THEN AfterSpec(k) ELSE Free(k)}}

OptionsRead(f, args) ==
  LET arity == ValuesOf(f, args)
  IN  {<<args[i].text, {args[j].text : j \in {k \in DOMAIN args : Owns(args, arity, i, k)}}>> :
          i \in {k \in DOMAIN args : ~IsWord(args[k])}}
=============================================================================
