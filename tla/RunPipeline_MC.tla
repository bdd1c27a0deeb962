--------------------------- MODULE RunPipeline_MC ---------------------------
(***************************************************************************)
(* Small instances of RunPipeline.  The deployed system serves the two     *)
(* analysis stages with executors and the other four with workers; the     *)
(* vertical slice of the fake executor serves all six with executors.      *)
(***************************************************************************)
EXTENDS RunPipeline

Analyses == {PlatformAnalysis, C2Analysis}
AdaptersAndReports == Adaptation \cup Reporting

\* Three attempts, the default policy, for the analyses.
DeployedBudget == [s \in StageType |-> IF s \in Analyses THEN 3 ELSE 1]

\* Two attempts where two stages may be leased at once, one elsewhere.
SliceBudget == [s \in StageType |-> IF s \in Adaptation THEN 2 ELSE 1]

LivenessBudget == [s \in StageType |-> IF s \in Analyses THEN 2 ELSE 1]

=============================================================================
