SPECIFICATION Spec
CONSTANTS
    Calls = {"deploy", "takeover", "long"}
    Deploys = {"deploy"}
    Nobody = Nobody
    Chunks <- MCChunks
    Key <- MCKey
INVARIANT TypeOK
PROPERTY ImplementsAtomicProgram
