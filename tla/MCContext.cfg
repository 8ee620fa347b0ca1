SPECIFICATION Spec
CONSTANTS
  a = a
  b = b
  main = main
  Threads = {a, b}
  Main = main
  Prepared = 0
INVARIANT StacksOk
