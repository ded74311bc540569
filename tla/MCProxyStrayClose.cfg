\* The page a client receives when getaddrinfo fails for another one.
CONSTANTS
  Workers = {u, w}
  Conns = {a, b, c}
  MaxFd = 4
SPECIFICATION Spec
INVARIANT OwnPage
