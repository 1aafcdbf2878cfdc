\* The instances of the components are in MCDecoding.
SPECIFICATION Spec
CONSTANTS
  x1 = x1
  x2 = x2
  Garbage = Garbage
SYMMETRY Permuted
INVARIANTS
  Faithful
  ErrorsExact
  ReadsFile
