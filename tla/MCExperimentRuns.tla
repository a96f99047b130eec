-------------------------- MODULE MCExperimentRuns --------------------------
EXTENDS ExperimentRuns, TLC

CONSTANTS validation, proposal, single, primary,   \* experiments
          v1, p1, p2, s1, m1                       \* cells

\* One validation, two collapse experiments that need it, and one experiment
\* that needs the resolved core.
SmallPlan ==
  [e \in Experiments |->
     CASE e = validation -> <<v1>>
       [] e = proposal -> <<p1, p2>>
       [] e = single -> <<s1>>
       [] e = primary -> <<m1>>]

SmallPrerequisites ==
  [e \in Experiments |->
     CASE e = validation -> {}
       [] e \in {proposal, single} -> {validation}
       [] e = primary -> {proposal}]

SmallCollapse == <<proposal, single>>

\* The operator's processes are interchangeable.
SameProcesses == Permutations(Processes)

=============================================================================
