----------------------------- MODULE ResultFiles ----------------------------
(***************************************************************************)
(* The result files of a cell and the engine process that writes them      *)
(* (experiments/cell_runner.cpp, apps/a3i_run.cpp).  A cell is named by    *)
(* what was asked and by the number of queries of its workload; it has a   *)
(* result file, a metadata file, and a temporary of each.                  *)
(*                                                                         *)
(* A process writes to the file it opened, whatever that file is called by *)
(* then, so the names are kept apart from the files.                       *)
(***************************************************************************)
EXTENDS Integers, FiniteSetsExt

CONSTANTS
  Cells,            (* methods and parameters of the plan                  *)
  MaxCount,         (* largest number of queries of a workload             *)
  Builds,           (* engine builds, 1 .. Builds                          *)
  Processes         (* ids of engine processes                             *)

Keys    == Cells \X (0 .. MaxCount)
Paths   == Keys \X {"qresults", "runmeta"} \X {"tmp", "out"}
\* A file is named by one path at a time, or was unlinked and is still being written.
FileIds == 1 .. Cardinality(Paths) + 2 * Cardinality(Processes)

ASSUME ResultAssumption ==
  IsFiniteSet(Cells) /\ IsFiniteSet(Processes) /\ MaxCount \in Nat /\ Builds \in Nat

VARIABLES
  name,             (* the file each path names; 0: none                   *)
  file,             (* what each file holds                                *)
  engine            (* the engine processes                                *)

resultVars == <<name, file, engine>>

Blank == [rows |-> 0, whole |-> FALSE, torn |-> FALSE, build |-> 0]
Dead  == [step |-> "none", key |-> 0, build |-> 0, toRun |-> 0, rows |-> 0,
          q |-> 0, m |-> 0]

QTmp(key) == <<key, "qresults", "tmp">>
QOut(key) == <<key, "qresults", "out">>
MTmp(key) == <<key, "runmeta", "tmp">>
MOut(key) == <<key, "runmeta", "out">>

ResultInit ==
  /\ name = [p \in Paths |-> 0]
  /\ file = [f \in FileIds |-> Blank]
  /\ engine = [e \in Processes |-> Dead]

Running(e) == engine[e].step \notin {"none", "failed", "done"}

\* ofstream(path, trunc): the file the path names, or a new one, emptied.
OpenedFile(p) ==
  IF name[p] # 0 THEN name[p]
  ELSE Min(FileIds \ ({name[q] : q \in Paths}
                      \union {engine[e].q : e \in Processes}
                      \union {engine[e].m : e \in Processes}))

\* What a write of one more row makes of a file: it lands at the writer's own offset,
\* and where that is not the end of the file another process has been there.
Written(content, e) ==
  [content EXCEPT !.rows = engine[e].rows + 1, !.whole = FALSE, !.build = engine[e].build,
                  !.torn = @ \/ content.rows # engine[e].rows]

\* run_cell up to the point where it opens the results: the dataset was opened and the
\* workload read, with the queries it had then.
EngineOpens(e, queries) ==
  /\ engine[e].step = "start"
  /\ LET key == engine[e].key
         f   == OpenedFile(QTmp(key))
     IN  /\ name'   = [name EXCEPT ![QTmp(key)] = f]
         /\ file'   = [file EXCEPT ![f] = [Blank EXCEPT !.build = engine[e].build]]
         /\ engine' = [engine EXCEPT ![e].step = "rows", ![e].q = f,
                                       ![e].toRun = queries]

\* One query is executed and its row written.
EngineRow(e) ==
  /\ engine[e].step = "rows" /\ engine[e].rows < engine[e].toRun
  /\ file'   = [file EXCEPT ![engine[e].q] = Written(@, e)]
  /\ engine' = [engine EXCEPT ![e].rows = @ + 1]
  /\ UNCHANGED name

\* The results are closed and the metadata opened.
EngineCloses(e) ==
  /\ engine[e].step = "rows" /\ engine[e].rows = engine[e].toRun
  /\ LET key == engine[e].key
         f   == OpenedFile(MTmp(key))
     IN  /\ name'   = [name EXCEPT ![MTmp(key)] = f]
         /\ file'   = [file EXCEPT ![engine[e].q].whole = TRUE,
                                   ![f] = [Blank EXCEPT !.build = engine[e].build]]
         /\ engine' = [engine EXCEPT ![e].step = "meta", ![e].m = f]

EngineMeta(e) ==
  /\ engine[e].step = "meta"
  /\ file'   = [file EXCEPT ![engine[e].m].whole = TRUE]
  /\ engine' = [engine EXCEPT ![e].step = "done"]
  /\ UNCHANGED name

\* The process is killed, out of memory say, or throws.
EngineFails(e) ==
  /\ Running(e)
  /\ engine' = [engine EXCEPT ![e].step = "failed"]
  /\ UNCHANGED <<name, file>>
=============================================================================
