SPECIFICATION SpecCache
CONSTANTS
    a = a  b = b  s = s  t = t  u = u  bin = bin  doc = doc  cli = cli  daemon = daemon
    Absent = Absent  Broken = Broken  NoManifest = NoManifest  Damaged = Damaged
    Contents <- MCContents
    Steps <- MCSteps
    Signature <- MCSignature
    Outputs <- MCOutputs
    Produced <- MCOutputs
    Procs <- TwoProcs
INVARIANTS ManifestVouches
PROPERTY SkipIsFresh
SYMMETRY Symmetry
CONSTRAINT TwoSources
