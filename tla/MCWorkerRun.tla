---------------------------- MODULE MCWorkerRun ----------------------------
(* Instances of WorkerRun for TLC: commands with options of every arity,   *)
(* with and without a subcommand or a launcher, with values that the code  *)
(* takes for something else, and options for Node in every form.           *)
EXTENDS WorkerRun, TLC

Args == <<Option("--headed"), Option("--project"), Word("a"), Word("b"),
          Option("--shard"), Option("-u"), Inline("--project"), Option("--format"),
          Word("test"), Word("run"), Option("--spec"), Word("show"), Word("vitest")>>

Pick(indices) == [i \in DOMAIN indices |-> Args[indices[i]]]

MCCommands ==
  {Pick(s) : s \in {<<>>, <<1>>, <<2, 3>>, <<2, 3, 4>>, <<2, 3, 1>>, <<5, 3>>,
                    <<5, 3, 4>>, <<6>>, <<6, 3>>, <<7>>, <<3, 1>>, <<1, 3>>, <<8, 3>>,
                    <<9, 2, 3, 4>>, <<9, 1, 3>>, <<10, 1>>, <<10, 2, 3>>, <<1, 11, 3>>,
                    <<12, 1>>, <<5, 3, 2, 3, 4>>, <<2, 3, 4, 6>>,
                    <<13, 10, 2, 3>>, <<13, 1>>, <<10, 2, 13>>, <<2, 10>>, <<10, 2, 10>>,
                    <<2, 3, 5, 3, 4>>}}

MCNodeOptions ==
  {<<>>, <<Load("-r M", "other")>>}
    \cup {<<Load(form, CIInit), Load("--require M", "other")>> : form \in RequireForms}
    \cup {<<Load(form, Register), Load("-r M", CIInit)>> : form \in ImportForms}
    \cup {<<Load("-r M", InitPath), Load("--import M", "other")>>,
          <<Load("--import M", CIInit)>>, <<Load("-r M", Lookalike)>>,
          <<Load("--import=M", RegisterPath), Load("-rM", CIInit)>>}

FileSymmetry == Permutations(Files)
=============================================================================
