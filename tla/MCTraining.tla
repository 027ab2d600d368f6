------------------------------ MODULE MCTraining ------------------------------
EXTENDS TrainingProps

NoBaseline == [key \in {1, 3} |-> 1]

\* One configuration; two values of an axis that the baseline has too, one of
\* them listed twice; two axes.
SmallAxes ==
  {[key \in {} |-> <<>>],
   [key \in {1} |-> <<2, 2, 1>>],
   [key \in {1, 2} |-> IF key = 1 THEN <<1, 2>> ELSE <<2, 1>>]}

LatencyLimit == {2}
SomeNames == {NoName, Forward, StepName}
=============================================================================
