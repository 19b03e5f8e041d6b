SPECIFICATION Spec
CONSTANTS
  m1 = m1  m2 = m2  m3 = m3  s1 = s1  s2 = s2  k1 = k1  k2 = k2  k3 = k3  a = a  b = b
  Workers = {w1, w2}
  Models = {m1, m2, m3}
  Index = Index
  Splits = {s1, s2}
  Passages = {k1, k2, k3}
  PassagesOf <- MCPassagesOf
  Entities = {a, b}
  Answers <- MCAnswers
  Jobs <- MCJobs
  NoRow = NoRow
  MaxRuns = 3
  MaxRebuilds = 1
CHECK_DEADLOCK FALSE
SYMMETRY Symmetry
INVARIANTS EmbeddedPassagesSearchable
