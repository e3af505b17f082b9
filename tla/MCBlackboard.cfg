CONSTANTS
  Unit = {u1, u2}
  MaxUpc = 3
  Kinds = {"micro", "scout", "tactics", "shared", "proxy"}
SPECIFICATION Spec
SYMMETRY Symmetric
INVARIANT AncestorsActive
INVARIANT MappedToHolder
INVARIANT ControlledByTask
INVARIANT ProxyUpToDate
 
INVARIANT AutoRemoved
