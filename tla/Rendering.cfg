SPECIFICATION Spec
CONSTANTS
    Sources <- MCSources
    Schemas <- MCSchemas
    ClusterType <- MCClusterType
    Target <- MCTarget
    Width <- MCWidth
    Numerals <- MCNumerals
    Merged <- MergeObjects
    TextsIn <- Leaves
    Refs <- MCRefs
    Template <- MCTemplate
INVARIANTS
    TypeOK
    ConfigDataIsLayered
PROPERTIES
    RenderingEnds
