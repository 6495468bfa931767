SPECIFICATION Spec
CONSTANTS
  Requests = {q1, q2}
  Accounts = {a1}
  None = None
  Slugs = {s1, s2}
  Scalars = {headline}
  Lists = {languages}
  Values = {0, 1}
SYMMETRY Symmetry
INVARIANTS ProfilesWithinOverlap
PROPERTIES LifecycleUnlessOvertaken PatchTouchesOnlyItsFields
