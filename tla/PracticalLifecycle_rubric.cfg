SPECIFICATION Spec
CONSTANTS
  Student = {u1}
  Request = {q1, q2}
  Reviewer = {v1, v2}
  Tests = {t1, t2}
  Rubrics <- SmallRubrics
  Maxima = {1, 2}
  Null = null
  MaxAttempts = 2
  MaxEdits = 3
  MaxReviews = 2
SYMMETRY Symmetry
INVARIANTS
  RubricTotals
