----------------------------- MODULE WorkerRun -----------------------------
(***************************************************************************)
(* `ddtest run' without a plan, from the files that its own discovery      *)
(* lists to the processes of two workers: the command line of each worker  *)
(* (RunTests of the adapters), the start of its process and the signals    *)
(* that ddtest forwards to it (DefaultCommandExecutor.Run).                *)
(*                                                                         *)
(* Workers are goroutines that share the adapter, and with it the array    *)
(* that the words of the user's command are stored in.                     *)
(***************************************************************************)
EXTENDS TestFiles, CommandLines

CONSTANTS
  Commands,     \* arguments that users write after the executable
  NodeOptions,  \* values of NODE_OPTIONS
  MaxSpare,     \* bound on the room behind the words of the command
  MaxSignals    \* bound on signals sent to ddtest

ASSUME WorkerRunAssumption ==
  /\ MaxSpare \in Nat /\ MaxSignals \in Nat
  /\ \A c \in Commands : c \in Seq(Arguments(Texts(c)))
  /\ \A o \in NodeOptions : o \in Seq(NodeArg)

VARIABLES
  override,     \* commandOverride[1:]
  spare,        \* its capacity beyond its length
  nodeOptions,  \* NODE_OPTIONS of ddtest
  workerEnv,    \* NODE_OPTIONS of --worker-env, or none
  rails,        \* a Rails application
  handler,      \* planning left its signal handler behind
  batch,        \* worker -> its files
  pc,           \* worker -> what RunTests does
  cells,        \* the room behind the command
  written,      \* worker -> number of its files written there
  given,        \* worker -> what its process is started with
  scripts,      \* workers whose temporary Mocha adapter is on disk
  child,        \* worker -> state of its process
  pending,      \* worker -> the signal in its channel, or "none"
  sent,         \* history: worker -> signals ddtest got while it watched
  passed,       \* history: worker -> signals its process got
  exiting,      \* the handler of the planning has got a signal
  gone,         \* ddtest has exited
  signals       \* signals sent so far

inputs == <<override, spare, nodeOptions, workerEnv, rails, handler, batch>>
argvars == <<cells, written, given, scripts>>
sigvars == <<pending, sent, passed, exiting, gone, signals>>
wvars == <<inputs, pc, argvars, child, sigvars>>
vars == <<lvars, wvars>>

Workers == {0, 1}
Nothing == [args |-> <<>>, testFiles |-> {}, options |-> <<>>]
SignalKinds == {"SIGTERM", "SIGHUP"}

(* Commands the user can write: an option has its value, --spec of Cypress *)
(* a single one (a list has commas), and only Cucumber and Playwright,     *)
(* which remove them, are given files to run.                              *)
Understood(f, args) ==
  LET arity == ValuesOf(f, args)
      start == IF Launched(f, args) THEN 1 ELSE 0
  IN  /\ \A i \in DOMAIN args :
           args[i].kind = "option" /\ arity[args[i].text] \in {"one", "many"} =>
             i < Len(args) /\ IsWord(args[i + 1])
      /\ \A j \in DOMAIN args :
           \/ ~IsWord(args[j]) \/ f \in {"cucumber", "playwright"}
           \/ j = start + 1 /\ f \in {"vitest", "cypress"} /\ args[j] = Word("run")
           \/ j = start
           \/ \E i \in DOMAIN args : Owns(args, arity, i, j)
      /\ f = "cypress" => \A i, j \in DOMAIN args :
           args[i].text = "--spec" /\ Owns(args, arity, i, j) => j = i + 1

Init ==
  /\ ListInit
  /\ override = <<>> /\ spare = 0 /\ nodeOptions = <<>> /\ workerEnv = <<>>
  /\ rails = FALSE /\ handler = FALSE
  /\ batch = [w \in Workers |-> <<>>]
  /\ pc = [w \in Workers |-> "none"]
  /\ cells = [i \in 1 .. MaxSpare |-> "unused"]
  /\ written = [w \in Workers |-> 0]
  /\ given = [w \in Workers |-> Nothing] /\ scripts = {}
  /\ child = [w \in Workers |-> "none"]
  /\ pending = [w \in Workers |-> "none"]
  /\ sent = [w \in Workers |-> <<>>] /\ passed = [w \in Workers |-> <<>>]
  /\ exiting = FALSE /\ gone = FALSE /\ signals = 0

-----------------------------------------------------------------------------
(* Workers that get files are started; what discovery knew is dropped.     *)
(* They are followed for one choice of the settings they do not depend on. *)
FollowedSettings ==
  /\ ~location /\ ~exclude /\ ~full /\ direct /\ removable /\ lists
  /\ report = "absent"

(* isRailsApplication: a command that fails, or whose answer is not that   *)
(* of Rails, makes it none; getMinitestCommand then takes Rake.            *)
RailsFound == IF fw = "minitest" THEN BOOLEAN ELSE {FALSE}

(* NODE_OPTIONS only varies with the plain command, and matters to         *)
(* JavaScript alone; the room is that of the commands that are not cloned. *)
(* The adapter of pytest ignores the command.                              *)
ChooseInputs ==
  /\ override' \in IF fw \in Python THEN {<<>>} ELSE {c \in Commands : Understood(fw, c)}
  /\ spare' \in IF fw \in Ruby THEN 0 .. MaxSpare ELSE {0}
  /\ rails' \in RailsFound
  /\ LET vary == fw \in JavaScript /\ override' = <<>>
     IN  /\ nodeOptions' \in IF vary THEN NodeOptions ELSE {<<>>}
         /\ workerEnv' \in IF vary THEN {<<>>, <<Load("-r M", "other")>>} ELSE {<<>>}
  /\ handler' \in BOOLEAN

RunListed ==
  /\ outcome = "ok" /\ listed # {} /\ FollowedSettings
  /\ ChooseInputs
  /\ \E S \in SUBSET listed : \E b \in SetToSeqs(S), c \in SetToSeqs(listed \ S) :
       batch' = [w \in Workers |-> IF w = 0 THEN b ELSE c]
  /\ pc' = [w \in Workers |-> IF batch'[w] = <<>> THEN "none" ELSE "building"]
  /\ outcome' = "none" /\ tree' = NoTree
  /\ explicit' = FALSE /\ selection' = {}
  /\ UNCHANGED <<Settings, step, temps, report, listed, argvars, child, sigvars>>

-----------------------------------------------------------------------------
(* RunTests: the command line.                                             *)

(* Rake is given the files in TEST_FILES, the Mocha adapter in a request.  *)
ByEnvironment == fw = "mocha" \/ (fw = "minitest" /\ ~rails)

(* Does append write a worker's files behind the shared command?  RSpec    *)
(* appends two words before, the same for every worker.  All but the Ruby  *)
(* adapters clone the command.                                             *)
SharedByRSpec(w) == fw = "rspec" /\ spare >= 2 + Len(batch[w])
SharedByRails(w) == fw = "minitest" /\ rails /\ spare >= Len(batch[w])
Shared(w) == SharedByRSpec(w) \/ SharedByRails(w)

WriteCell(w) ==
  /\ pc[w] = "building" /\ ~gone
  /\ Shared(w) /\ written[w] < Len(batch[w])
  /\ written' = [written EXCEPT ![w] = @ + 1]
  /\ cells' = [cells EXCEPT ![written'[w]] = batch[w][written'[w]]]
  /\ UNCHANGED <<lvars, inputs, pc, given, scripts, child, sigvars>>

Refuses == fw = "playwright" /\ ~PlaywrightAccepts(override)

(* exec.CommandContext copies the arguments.  Mocha loads the adapter from *)
(* NODE_OPTIONS, after what the platform or --worker-env prepared.         *)
Given(w) ==
  LET loaded == IF fw = "mocha" THEN <<Load("--require M", "adapter")>> ELSE <<>>
      files == IF Shared(w) THEN SubSeq(cells, 1, Len(batch[w])) ELSE batch[w]
  IN  [args |-> IF ByEnvironment THEN override ELSE RunArgs(fw, override, files),
       testFiles |-> IF ByEnvironment THEN ToSet(files) ELSE {},
       options |-> IF fw \in JavaScript
                   THEN WorkerOptions(fw, nodeOptions, workerEnv) \o loaded ELSE <<>>]

(* Mutant: the adapter is only removed when the tests have run.            *)
StartProcessLeaves(w) ==
  /\ pc[w] = "building" /\ ~gone
  /\ Shared(w) => written[w] = Len(batch[w])
  /\ scripts' = scripts \cup IF fw = "mocha" THEN {w} ELSE {}
  /\ \/ /\ pc' = [pc EXCEPT ![w] = "failed"]
        /\ UNCHANGED <<given, child>>
     \/ /\ ~Refuses
        /\ given' = [given EXCEPT ![w] = Given(w)]
        /\ pc' = [pc EXCEPT ![w] = "started"]
        /\ child' = [child EXCEPT ![w] = "running"]
  /\ UNCHANGED <<lvars, inputs, cells, written, sigvars>>

StartProcess(w) ==
  /\ pc[w] = "building" /\ ~gone
  /\ Shared(w) => written[w] = Len(batch[w])
  /\ \/ /\ pc' = [pc EXCEPT ![w] = "failed"]
        /\ UNCHANGED <<given, scripts, child>>
     \/ /\ ~Refuses
        /\ given' = [given EXCEPT ![w] = Given(w)]
        /\ pc' = [pc EXCEPT ![w] = "started"]
        /\ scripts' = scripts \cup IF fw = "mocha" THEN {w} ELSE {}
        /\ child' = [child EXCEPT ![w] = "running"]
  /\ UNCHANGED <<lvars, inputs, cells, written, sigvars>>

-----------------------------------------------------------------------------
(* DefaultCommandExecutor.Run after cmd.Start.                             *)

Notify(w) ==
  /\ pc[w] = "started" /\ ~gone
  /\ pc' = [pc EXCEPT ![w] = "watching"]
  /\ UNCHANGED <<lvars, inputs, argvars, child, sigvars>>

Watching == {w \in Workers : pc[w] = "watching"}
Heard(kind) == handler /\ kind # "SIGHUP"

(* Signals that a worker watches for come to it.                           *)
SignalReaches(kind, held) ==
  /\ signals < MaxSignals /\ ~gone /\ \E w \in Workers : pc[w] # "none"
  /\ signals' = signals + 1
  /\ pending' = [w \in Workers |-> IF w \in Watching THEN held[w] ELSE pending[w]]
  /\ sent' = [w \in Workers |-> IF w \in Watching THEN Append(sent[w], kind) ELSE sent[w]]
  /\ exiting' = (exiting \/ Heard(kind))
  /\ gone' = (Watching = {} /\ ~Heard(kind))
  /\ UNCHANGED <<lvars, inputs, pc, argvars, child, passed>>

(* Mutant: a channel without a buffer, which the select is seldom at.      *)
SignalUnbuffered(kind) == SignalReaches(kind, pending)

(* ddtest gets a signal: the channels that are registered for it get it,   *)
(* with room for one: the runtime drops a signal that finds a channel      *)
(* full.  Without any channel the process dies of it.                      *)
Signal(kind) ==
  SignalReaches(kind, [w \in Workers |-> IF pending[w] = "none" THEN kind ELSE pending[w]])

(* The handler stores the caches again and exits, whatever still runs.     *)
HandlerExits ==
  /\ exiting /\ ~gone
  /\ gone' = TRUE
  /\ UNCHANGED <<lvars, inputs, pc, argvars, child, pending, sent, passed, exiting, signals>>

Forward(w) ==
  /\ pc[w] = "watching" /\ pending[w] # "none" /\ ~gone
  /\ passed' = [passed EXCEPT ![w] = Append(@, pending[w])]
  /\ pending' = [pending EXCEPT ![w] = "none"]
  /\ UNCHANGED <<lvars, inputs, pc, argvars, child, sent, exiting, gone, signals>>

(* By itself, or because of a signal; also after ddtest.                   *)
ChildEnds(w) ==
  /\ child[w] = "running"
  /\ child' = [child EXCEPT ![w] = "ended"]
  /\ UNCHANGED <<lvars, inputs, pc, argvars, sigvars>>

(* The select prefers neither the signal nor the end of the process.       *)
ReturnFromRun(w) ==
  /\ pc[w] = "watching" /\ child[w] = "ended" /\ ~gone
  /\ pc' = [pc EXCEPT ![w] = "ended"]
  /\ scripts' = scripts \ {w}
  /\ UNCHANGED <<lvars, inputs, cells, written, given, child, sigvars>>

-----------------------------------------------------------------------------

Next ==
  \/ ListNext /\ UNCHANGED wvars
  \/ RunListed
  \/ \E w \in Workers :
       \/ WriteCell(w) \/ StartProcess(w) \/ Notify(w)
       \/ Forward(w) \/ ChildEnds(w) \/ ReturnFromRun(w)
  \/ \E kind \in SignalKinds : Signal(kind)
  \/ HandlerExits

Spec == Init /\ [][Next]_vars

TypeOK ==
  /\ ListTypeOK
  /\ spare \in 0 .. MaxSpare /\ rails \in BOOLEAN /\ handler \in BOOLEAN
  /\ pc \in [Workers -> {"none", "building", "failed", "started", "watching", "ended"}]
  /\ written \in [Workers -> 0 .. Cardinality(Files)]
  /\ child \in [Workers -> {"none", "running", "ended"}]
  /\ scripts \subseteq Workers
  /\ pending \in [Workers -> SignalKinds \cup {"none"}]
  /\ sent \in [Workers -> Seq(SignalKinds)] /\ passed \in [Workers -> Seq(SignalKinds)]
  /\ exiting \in BOOLEAN /\ gone \in BOOLEAN /\ signals \in 0 .. MaxSignals

-----------------------------------------------------------------------------
(* Properties.                                                             *)

Started(w) == child[w] # "none"
Runs(w) == IF ByEnvironment THEN given[w].testFiles ELSE FilesRead(fw, given[w].args)

(* A process is asked for the files of its worker: no other file that the  *)
(* command names, no file taken for the value of an option, no option that *)
(* takes a file.  docs/running.md: each worker runs the files of its own   *)
(* split.                                                                  *)
OwnFiles == \A w \in Workers : Started(w) => Runs(w) = ToSet(batch[w])

(* A value of the command is taken for something else: one that is named   *)
(* as the executable of Vitest, in a command without a launcher, for it    *)
(* (vitest.go:239-258), so that the subcommand is put behind it; the value *)
(* run or open, in a command without a subcommand, for that of Cypress     *)
(* (cypress.go:280-287), so that it is removed.                            *)
ValueIsMistaken(f, args) ==
  \/ /\ f = "vitest" /\ ~Launched(f, args)
     /\ \E i \in DOMAIN args : args[i] = Word("vitest")
  \/ /\ f = "cypress"
     /\ \E i \in DOMAIN args : args[i] \in {Word("run"), Word("open")}
     /\ args[1] \notin {Word("run"), Word("open")}

(* The same for workers that do not write to the array they share, unless  *)
(* ddtest runs Vitest with a value that it takes for the executable, which *)
(* docs/running.md:175 does not exclude: the subcommand is then one more   *)
(* filter.                                                                 *)
OwnFilesWhenPrivate ==
  \A w \in Workers :
    Started(w) /\ ~Shared(w) /\ ~(fw = "vitest" /\ ValueIsMistaken(fw, override)) =>
      Runs(w) = ToSet(batch[w])

(* Options an adapter replaces.                                            *)
Replaced(f) ==
  CASE f = "playwright" -> PlaywrightRunOverrides [] f = "cypress" -> {"--spec"}
    [] OTHER -> {}

(* Options it adds to the user's.                                          *)
Added(f) == IF f = "rspec" THEN {"--format"} ELSE {}

(* For the listing, Cypress is only asked for its configuration.           *)
KeptForListing(f, name) ==
  CASE f = "playwright" -> name \notin PlaywrightDiscoveryOverrides
    [] f = "cypress" -> name \in CypressConfiguration
    [] OTHER -> TRUE

(* What the listing of Playwright drops of the arguments s.                *)
Removed(s, k) ==
  \/ Is(s[k], PlaywrightDiscoveryOverrides)
  \/ \E i \in DOMAIN s : Owns(s, Arities(s), i, k) /\ Is(s[i], PlaywrightDiscoveryOverrides)

(* Word j comes behind an option that still takes a value once what is     *)
(* between them is gone.                                                   *)
Reaches(s, i, j) ==
  LET takes == Arities(s)[s[i].text]
  IN  /\ i < j /\ s[i].kind = "option" /\ IsWord(s[j]) /\ ~Removed(s, i)
      /\ \/ takes = "optional" /\ \A k \in i + 1 .. j - 1 : Removed(s, k)
         \/ takes = "many" /\ \A k \in i + 1 .. j - 1 : IsWord(s[k]) \/ Removed(s, k)

(* In `--project a --shard 1 file` the listing of Playwright, which drops  *)
(* --shard and keeps the file (playwright.go:260, 286), has file as one    *)
(* more project.                                                           *)
FileIsMistaken(f, args) ==
  LET s == PlaywrightCLIArgs(args)
  IN  f = "playwright" /\ \E i, j \in DOMAIN s :
        Reaches(s, i, j) /\ ~Owns(s, Arities(s), i, j) /\ ~Removed(s, j)

(* The other options of the user's command reach the worker's process with *)
(* the values the user gave them, and no more (docs/running.md:379-382),   *)
(* and those that decide which files there are reach the process that      *)
(* lists them (361-366), so that the two speak of the same tests.  The     *)
(* code keeps neither promise to a command with ValueIsMistaken, and not   *)
(* the second one to a command with FileIsMistaken.                        *)
OptionsAreKept ==
  LET users == OptionsRead(fw, override)
  IN  \A w \in Workers : Started(w) /\ ~ValueIsMistaken(fw, override) =>
        LET run == OptionsRead(fw, given[w].args)
        IN  /\ \A o \in users : o[1] \in Replaced(fw) \/ o \in run
            /\ \A o \in run : o[1] \in {u[1] : u \in users} =>
                 o[1] \in Replaced(fw) \cup Added(fw) \/ o \in users
            /\ fw \in JavaScript /\ ~FileIsMistaken(fw, override) =>
                 \A o \in users : KeptForListing(fw, o[1]) =>
                   o \in OptionsRead(fw, DiscoveryArgs(fw, override))

(* The options that discovery removes: docs/running.md:331-333 has the     *)
(* library as -r dd-trace/ci/init and --import dd-trace/register.js; other *)
(* forms of -r and --import are removed, but neither a path to the library *)
(* nor the one module in the form of the other (jest.go:197).              *)
IsRemovable(option, module) ==
  /\ option.module = module
  /\ option.form \in IF module = CIInit THEN RequireForms ELSE ImportForms

(* A module of the user's is taken for the library (javascript.go:53).     *)
IsMistakenFor(options, module) == Mentions(options, module) /\ ~Loads(options, module)

(* docs/running.md: worker processes load the library, once when it is not *)
(* in the user's NODE_OPTIONS already, unless IsMistakenFor; the process   *)
(* that lists the files does not load it, unless the user wrote an option  *)
(* that is not removed; all other modules stay in both.  A NODE_OPTIONS of *)
(* --worker-env replaces what the platform prepared.                       *)
InstrumentationIsRight ==
  LET library == {CIInit} \cup IF fw = "vitest" THEN {Register} ELSE {}
      listing == DiscoveryOptions(fw, nodeOptions)
  IN  fw \in JavaScript =>
        /\ \A m \in library :
             Loads(listing, m) <=>
               \E i \in DOMAIN nodeOptions : /\ nodeOptions[i].module \in Spelled(m)
                                            /\ ~IsRemovable(nodeOptions[i], m)
        /\ \A m \in Modules \ library : TimesLoaded(listing, m) = TimesLoaded(nodeOptions, m)
        /\ \A w \in Workers : Started(w) /\ workerEnv = <<>> =>
             /\ \A m \in library : \/ IsMistakenFor(nodeOptions, m)
                                   \/ TimesLoaded(given[w].options, m) =
                                        IF Loads(nodeOptions, m) THEN TimesLoaded(nodeOptions, m)
                                        ELSE 1
             /\ \A m \in Modules \ (library \cup {"adapter"}) :
                  TimesLoaded(given[w].options, m) = TimesLoaded(nodeOptions, m)

(* The first signal that ddtest gets while a worker watches its process is *)
(* passed on or still waits in the worker's channel, however many follow   *)
(* and whatever the worker is doing; none is passed on twice and none that *)
(* did not come.  Those that find the channel full are lost, and those of  *)
(* the time between cmd.Start and Notify never come to it.                 *)
SignalsAreNotLost ==
  \A w \in Workers :
    LET kept == passed[w] \o IF pending[w] = "none" THEN <<>> ELSE <<pending[w]>>
    IN  /\ sent[w] # <<>> => kept # <<>> /\ kept[1] = sent[w][1]
        /\ Len(kept) <= Len(sent[w]) /\ ToSet(kept) \subseteq ToSet(sent[w])

(* A worker that is done leaves nothing behind, however it ended: neither  *)
(* a process that still runs nor a temporary file.                         *)
WorkersEndCleanly ==
  \A w \in Workers :
    pc[w] \in {"failed", "ended"} => child[w] # "running" /\ w \notin scripts

(* Neither a discovery nor a worker leaves anything behind.                *)
NothingIsLeftBehind == TempsAreRemoved /\ WorkersEndCleanly
=============================================================================
