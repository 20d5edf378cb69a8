SPECIFICATION Spec
CONSTANTS
  Nodes = {n1, n2}
  Default = n1
  Providers = {"local", "railway"}
  NumProtocols = 2
  Requests = {q1}
  MaxDeployments = 2
INVARIANTS StatusSettles  EveryCoreHasARow OneDefaultLink NoServiceIsLost
VIEW View
