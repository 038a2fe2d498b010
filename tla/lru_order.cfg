CONSTANTS
  Cache = {"small", "large", "odd"}
  Sets <- SetsOf
  Ways <- WaysOf
  Block = {0, 1, 2, 3, 4, 5}
  Exclusive = FALSE
  Width = 4
  Workers = 2
  Workloads <- SingleThreaded
SPECIFICATION Spec
INVARIANT ResizedEqual
