SPECIFICATION FetchSpec
CONSTANTS
  f1 = f1
  f2 = f2
  f3 = f3
  q1 = q1
  q2 = q2
  q3 = q3
  Families = {f1, f2, f3}
  Bodies <- MCBodies
  NoName = NoName
  Queries = {q1, q2, q3}
  MetricName <- MCMetricName
INVARIANT
  ParseErrorReported
