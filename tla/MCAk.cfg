CONSTANTS
    RJarCalls <- MCRJarCalls
    Types <- MCTypes
    resTypes <- MCResTypes
    ManifestCalls <- MCManifestCalls
    DexCalls <- MCDexCalls
    FNV <- MCFNV
    AarCalls <- MCAarCalls
    RepackCalls <- MCRepackCalls
    RJavaCalls <- MCRJavaCalls
    LibCalls <- MCLibCalls
    PathBefore <- MCPathBefore
    ApkCalls <- MCApkCalls
    NameBefore <- MCNameBefore
    PatchCalls <- MCPatchCalls
    CompileManifestCalls <- MCCompileManifestCalls
    CompileCalls <- MCCompileCalls
    LinkCalls <- MCLinkCalls
    FlagFiles <- MCFlagFiles
    Known = {"a", "b", "c"}
    NoValue = NoValue
    Taken <- MCTaken
    BucketizeCalls <- MCBucketizeCalls
    Path <- MCPath
    DirOf <- MCDirOf
    Sessions <- MCSessions
    Shard <- MCShard
SPECIFICATION FairSpec
INVARIANTS
    TypeOK
    RJarRight
    MaxWritten
    Partitioned
    OutputsRight
    Repacked
    SubclassesRight
    NativeLibsRight
    ApkRight
    PatchRight
    AaptRight
    FlagsDetermined
    InOrder
    ClosedComplete
PROPERTIES
    Returns
CHECK_DEADLOCK FALSE
