SPECIFICATION ClusterSpec
CONSTANTS
    ComposeLifecycles = {l1, l2}
    Fixtures = {f}
    Singles = {n}
    Services = {1, 2}
    NodesOf <- MCNodesOf
    RpcPort <- MCRpcPort
SYMMETRY Symmetry
INVARIANTS NothingForgotten BodyHasOwnNodes
