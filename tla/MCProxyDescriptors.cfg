\* Two workers, three clients, four descriptors.
CONSTANTS
  Workers = {u, w}
  Conns = {a, b, c}
  MaxFd = 4
SPECIFICATION Spec
SYMMETRY Symmetry
INVARIANT DescriptorsHeld
INVARIANT OwnPageUnlessStray
