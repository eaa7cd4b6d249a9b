-------------------------- MODULE ExperimentRunner --------------------------
(***************************************************************************)
(* scripts/run_experiments.py over a prepared dataset: under a lock, it    *)
(* has the workload generated or reused                                    *)
(* (experiments/workload_generator.cpp), then runs one engine process per  *)
(* cell, skipping the cells whose metadata is there, and publishes the two *)
(* files a process wrote by renaming them.  An operator issues commands    *)
(* one at a time; whatever runs may be killed at any point, and an engine  *)
(* may outlive the runner that started it.                                 *)
(***************************************************************************)
EXTENDS DatasetFiles, ResultFiles

CONSTANTS
  Plan,             (* the cells, in order                                 *)
  Counts,           (* numbers of queries a workload is configured with    *)
  Options,          (* of "resume", "stale" and "force"                    *)
  OrphansSurvive,   (* engines outlive a killed runner                     *)
  MaxCommands,      (* bound: commands of the operator                     *)
  MaxKills          (* bound: processes killed                             *)

ASSUME RunnerAssumption ==
  /\ Plan \in Seq(Cells) /\ Counts \subseteq 1 .. MaxCount
  /\ Options \subseteq {"resume", "stale", "force"}
  /\ OrphansSurvive \in BOOLEAN

VARIABLES
  build,            (* the engine build installed                          *)
  config,           (* the workload's configured number of queries         *)
  csv,              (* the workload file: its fingerprint and queries      *)
  runner,           (* the run_experiments process                         *)
  commands, kills   (* commands and kills so far                           *)

runnerVars == <<build, config, csv, runner, commands, kills>>
vars       == <<datasetVars, resultVars, runnerVars>>

NoCsv   == [fp |-> 0, queries |-> 0]
Stopped == [pc |-> "stopped", option |-> "resume", at |-> 1, queries |-> 0,
            child |-> 0, errored |-> FALSE, exit |-> "none"]

Init ==
  /\ DatasetInit /\ ResultInit
  /\ build = 1 /\ config \in Counts /\ csv = NoCsv
  /\ runner = Stopped
  /\ commands = 0 /\ kills = 0
-----------------------------------------------------------------------------
(* Commands of the operator, who issues one when the last has ended.       *)

Resting == prep.step = "off" /\ runner.pc = "stopped"
Command == Resting /\ commands < MaxCommands /\ commands' = commands + 1
Forget  == runner' = [runner EXCEPT !.exit = "none"]

CommandPrepare ==
  /\ Command /\ \E force \in BOOLEAN : BeginPrepare(force)
  /\ Forget /\ UNCHANGED <<resultVars, build, config, csv, kills>>

CommandReplaceSource ==
  /\ Command /\ \E s \in Sources : ReplaceSource(s)
  /\ Forget /\ UNCHANGED <<resultVars, build, config, csv, kills>>

CommandEdit ==
  /\ Command
  /\ \/ build < Builds /\ build' = build + 1 /\ UNCHANGED config
     \/ config' \in Counts \ {config} /\ UNCHANGED build
  /\ Forget /\ UNCHANGED <<datasetVars, resultVars, csv, kills>>

\* The runner takes the lock and reads the plan; without a manifest it stops at once.
CommandRun ==
  /\ Command /\ Readable
  /\ \E option \in Options :
       runner' = [Stopped EXCEPT !.pc = "workload", !.option = option]
  /\ UNCHANGED <<datasetVars, resultVars, build, config, csv, kills>>
-----------------------------------------------------------------------------
(* ensure_workload: generate_workload in a process of its own.             *)

Fingerprint == config
Reusable    == csv.fp = Fingerprint

Enumerate(queries) == runner' = [runner EXCEPT !.pc = "cell", !.queries = queries]

ReuseWorkload ==
  /\ runner.pc = "workload" /\ Opens /\ Reusable
  /\ Enumerate(csv.queries)
  /\ UNCHANGED <<datasetVars, resultVars, build, config, csv, commands, kills>>

WriteWorkload ==
  /\ runner.pc = "workload" /\ Opens /\ ~Reusable
  /\ csv' = [fp |-> Fingerprint, queries |-> config]
  /\ Enumerate(config)
  /\ UNCHANGED <<datasetVars, resultVars, build, config, commands, kills>>

Exit(how) == runner' = [Stopped EXCEPT !.option = runner.option, !.exit = how,
                                       !.queries = runner.queries]

WorkloadFails ==
  /\ runner.pc = "workload" /\ ~Opens
  /\ Exit("failed")
  /\ UNCHANGED <<datasetVars, resultVars, build, config, csv, commands, kills>>
-----------------------------------------------------------------------------
(* _run_plan, one cell after the other.                                    *)

Key(i) == <<Plan[i], runner.queries>>
Content(p) == file[name[p]]

\* Mutant: the build recorded is not compared.
MutFresh(i) == name[MOut(Key(i))] # 0
\* cell_is_fresh looks at the metadata only.
Fresh(i) ==
  /\ name[MOut(Key(i))] # 0
  /\ runner.option = "stale" =>
       Content(MOut(Key(i))).whole /\ Content(MOut(Key(i))).build = build
Skipped(i) == runner.option # "force" /\ Fresh(i)

SkipCell ==
  /\ runner.pc = "cell" /\ runner.at \in DOMAIN Plan /\ Skipped(runner.at)
  /\ runner' = [runner EXCEPT !.at = @ + 1]
  /\ UNCHANGED <<datasetVars, resultVars, build, config, csv, commands, kills>>

StartCell ==
  /\ runner.pc = "cell" /\ runner.at \in DOMAIN Plan /\ ~Skipped(runner.at)
  /\ \E e \in Processes :
       /\ engine[e].step = "none"
       /\ engine' = [engine EXCEPT ![e] = [Dead EXCEPT
             !.step = "start", !.key = Key(runner.at), !.build = build]]
       /\ runner' = [runner EXCEPT !.pc = "wait", !.child = e]
  /\ UNCHANGED <<datasetVars, name, file, build, config, csv, commands, kills>>

\* The engine, the runner's child or an orphan, goes on.  (A child always finds the
\* dataset open: ensure_workload opened it, and nothing prepares another meanwhile.)
EngineStep ==
  /\ \E e \in Processes :
       \/ Opens /\ EngineOpens(e, csv.queries)
       \/ EngineRow(e)
       \/ EngineCloses(e)
       \/ EngineMeta(e)
  /\ UNCHANGED <<datasetVars, runnerVars>>

KillEngine ==
  /\ kills < MaxKills /\ kills' = kills + 1
  /\ \E e \in Processes : EngineFails(e)
  /\ UNCHANGED <<datasetVars, build, config, csv, runner, commands>>

Reap == engine' = [engine EXCEPT ![runner.child] = Dead]
Advance(errored) == runner' = [runner EXCEPT !.pc = "cell", !.at = @ + 1, !.child = 0,
                                           !.errored = @ \/ errored]
Rename(from, to) == name' = [name EXCEPT ![to] = name[from], ![from] = 0]

\* Mutants: a killed child is not noticed; any end of the child is taken for success.
MutDied(e)      == FALSE
Died(e)         == engine[e].step = "failed"
MutSucceeded(e) == engine[e].step \in {"done", "failed"}
Succeeded(e)    == engine[e].step = "done"

\* The child ended well: its results are renamed, then its metadata.  A temporary that
\* is no longer there ends the runner with an error.
PublishFirst ==
  /\ runner.pc = "wait" /\ Succeeded(runner.child)
  /\ IF name[QTmp(Key(runner.at))] # 0
     THEN Rename(QTmp(Key(runner.at)), QOut(Key(runner.at)))
          /\ runner' = [runner EXCEPT !.pc = "publish", !.child = 0]
     ELSE Exit("failed") /\ UNCHANGED name
  /\ Reap
  /\ UNCHANGED <<datasetVars, file, build, config, csv, commands, kills>>

PublishSecond ==
  /\ runner.pc = "publish"
  /\ IF name[MTmp(Key(runner.at))] # 0
     THEN Rename(MTmp(Key(runner.at)), MOut(Key(runner.at))) /\ Advance(FALSE)
     ELSE Exit("failed") /\ UNCHANGED name
  /\ UNCHANGED <<datasetVars, file, engine, build, config, csv, commands, kills>>

CellFails ==
  /\ runner.pc = "wait" /\ Died(runner.child)
  /\ name' = [name EXCEPT ![QTmp(Key(runner.at))] = 0, ![MTmp(Key(runner.at))] = 0]
  /\ Advance(TRUE)
  /\ Reap
  /\ UNCHANGED <<datasetVars, file, build, config, csv, commands, kills>>

EndRun ==
  /\ runner.pc = "cell" /\ runner.at \notin DOMAIN Plan
  /\ Exit(IF runner.errored THEN "errors" ELSE "ok")
  /\ UNCHANGED <<datasetVars, resultVars, build, config, csv, commands, kills>>
-----------------------------------------------------------------------------
(* Whatever runs is killed.                                                *)

\* A workload being written is left empty or with any number of its queries.
KillRunner ==
  /\ runner.pc # "stopped"
  /\ kills < MaxKills /\ kills' = kills + 1
  /\ Exit("killed")
  /\ \/ UNCHANGED csv
     \/ /\ runner.pc = "workload" /\ Opens /\ ~Reusable
        /\ csv' \in {NoCsv} \union [fp : {Fingerprint}, queries : 0 .. config]
  /\ engine' \in {[e \in Processes |-> IF e = runner.child THEN Dead ELSE engine[e]]}
                 \union (IF OrphansSurvive THEN {engine} ELSE {})
  /\ UNCHANGED <<datasetVars, name, file, build, config, commands>>

KillPreparation ==
  /\ kills < MaxKills /\ kills' = kills + 1
  /\ KillPrepare
  /\ UNCHANGED <<resultVars, build, config, csv, runner, commands>>

PrepareStep == Prepare /\ UNCHANGED <<resultVars, runnerVars>>
RunnerStep  == \/ ReuseWorkload \/ WriteWorkload \/ WorkloadFails
               \/ SkipCell \/ StartCell \/ PublishFirst \/ PublishSecond
               \/ CellFails \/ EndRun

Next == \/ CommandPrepare \/ CommandReplaceSource \/ CommandEdit \/ CommandRun
        \/ PrepareStep \/ RunnerStep \/ EngineStep
        \/ KillEngine \/ KillRunner \/ KillPreparation

\* A process that is running goes on; nobody need ever issue a command.
Fairness == WF_vars(PrepareStep) /\ WF_vars(RunnerStep) /\ WF_vars(EngineStep)

Spec == Init /\ [][Next]_vars /\ Fairness
-----------------------------------------------------------------------------
Whole(p, queries) == /\ name[p] # 0
                     /\ Content(p).whole /\ ~Content(p).torn
                     /\ Content(p).rows = queries

\* A result file that is there is a complete one, with a row for each query its name
\* says, whatever was killed and when (report_completeness: "atomic writes => a present
\* file is a complete cell, so this is robust to any termination").
PresentIsComplete ==
  \A key \in Keys : name[QOut(key)] # 0 => Whole(QOut(key), key[2])

\* A run that ends with success has both files of every cell of its plan: those it
\* skipped were complete although only their metadata was looked at, and with --stale
\* or --force every row, not only the metadata, comes from the build installed now.
SuccessMeansMeasured ==
  runner.exit = "ok" => \A i \in DOMAIN Plan :
    /\ Whole(QOut(Key(i)), runner.queries)
    /\ name[MOut(Key(i))] # 0 /\ Content(MOut(Key(i))).whole
    /\ runner.option # "resume" =>
         Content(QOut(Key(i))).build = build /\ Content(MOut(Key(i))).build = build

\* The contract of the generator (workload_generator.hpp: "The same configuration
\* always reproduces the same file"): the workload a run goes on with has the queries
\* that were configured.
WorkloadReproduced ==
  runner.pc \in {"cell", "wait", "publish"} => runner.queries = config

\* Every command ends, whatever is killed in the meantime: no cell is tried forever.
CommandsEnd == ~Resting ~> Resting
-----------------------------------------------------------------------------
(* The invariant the safety properties follow from, where no engine        *)
(* outlives its runner.                                                    *)

FileContent == [rows : Nat, whole : BOOLEAN, torn : BOOLEAN, build : Nat]
Steps       == {"none", "start", "rows", "meta", "done", "failed"}
Process     == [step : Steps, key : Keys, build : Nat, toRun : Nat, rows : Nat,
                q : FileIds \union {0}, m : FileIds \union {0}]
ResultTypes ==
  /\ name \in [Paths -> FileIds \union {0}]
  /\ file \in [FileIds -> FileContent]
  /\ engine \in [Processes -> {Dead} \union Process]

Looping == runner.pc \in {"cell", "wait", "publish"}
RunnerTypes ==
  /\ build \in Nat /\ config \in Counts
  /\ csv \in [fp : Nat, queries : 0 .. MaxCount]
  /\ runner \in [pc : {"stopped", "workload", "cell", "wait", "publish"},
                 option : {"resume", "stale", "force"}, at : Nat \ {0},
                 queries : 0 .. MaxCount, child : Processes \union {0},
                 errored : BOOLEAN, exit : {"none", "failed", "killed", "errors", "ok"}]
  /\ runner.pc # "stopped" => runner.exit = "none"
  /\ runner.pc = "workload" => runner.at = 1
  /\ Looping => csv.queries = runner.queries
  /\ runner.pc \in {"wait", "publish"} => runner.at \in DOMAIN Plan

NamesDistinct == \A p, q \in Paths : name[p] = name[q] /\ name[p] # 0 => p = q

\* The runner's child is the one engine alive.
OnlyTheChild ==
  /\ runner.pc = "wait" => runner.child \in Processes
  /\ \A e \in Processes :
       engine[e].step # "none" => runner.pc = "wait" /\ runner.child = e

\* It writes what the runner waits for, to the temporaries the runner will rename.
Opened(p, f) == f # 0 /\ name[p] = f
Writes(e, key) ==
  /\ e.step # "none" /\ e.key = key /\ e.build = build
  /\ e.step = "start" => e.rows = 0
  /\ e.step \in {"rows", "meta", "done"} =>
       /\ Opened(QTmp(key), e.q) /\ e.toRun = key[2] /\ e.rows <= e.toRun
       /\ file[e.q].rows = e.rows /\ ~file[e.q].torn /\ file[e.q].build = build
  /\ e.step \in {"meta", "done"} =>
       /\ e.rows = e.toRun /\ file[e.q].whole
       /\ Opened(MTmp(key), e.m) /\ file[e.m].build = build
  /\ e.step = "done" => file[e.m].whole
ChildWrites == runner.pc = "wait" => Writes(engine[runner.child], Key(runner.at))

\* Metadata stands beside results of its build or a later one, which are complete.
MetadataSound == \A key \in Keys :
  /\ name[QOut(key)] # 0 => Content(QOut(key)).build <= build
  /\ name[MOut(key)] # 0 => /\ Content(MOut(key)).whole /\ name[QOut(key)] # 0
                            /\ Content(MOut(key)).build <= Content(QOut(key)).build

\* Between the two renames the new results stand beside old metadata, or none.
HalfPublished ==
  runner.pc = "publish" =>
    LET key == Key(runner.at)
    IN  /\ name[QOut(key)] # 0 /\ Content(QOut(key)).build = build
        /\ name[MTmp(key)] # 0 /\ Content(MTmp(key)).whole
        /\ Content(MTmp(key)).build = build

Measured(i) ==
  /\ name[MOut(Key(i))] # 0
  /\ runner.option # "resume" => Content(MOut(Key(i))).build = build
MeasuredSoFar ==
  /\ Looping /\ ~runner.errored => \A i \in DOMAIN Plan : i < runner.at => Measured(i)
  /\ runner.exit = "ok" => \A i \in DOMAIN Plan : Measured(i)

RunnerInv ==
  /\ ResultTypes /\ RunnerTypes /\ NamesDistinct /\ OnlyTheChild /\ ChildWrites
  /\ PresentIsComplete /\ MetadataSound /\ HalfPublished /\ MeasuredSoFar
=============================================================================
