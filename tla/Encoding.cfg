\* The instances of the components are in MCEncoding.
SPECIFICATION Spec
INVARIANTS
  
  EndExact
  FlushDelivers
  HoldsPrefix
