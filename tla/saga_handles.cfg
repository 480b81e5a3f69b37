\* Two handles and the retry sweep on one step, with a crash or repository error
\* and force-resolves to the one target that reopens the step.
SPECIFICATION Spec
CONSTANTS
  Steps = {s1}
  Handles = {h1, h2}
  Sweepers = {sweep}
  WithInput = {s1}
  Registered = {s1}
  Compensable = {s1}
  MaxAttempts = 2
  Batch = 1
  ForceTargets = {"released_pessimistic"}
  MaxFaults = 1
SYMMETRY HandleSymmetry
INVARIANTS TypeOK EffectBehindStatus RunsOnce
