\* Two chains over one permit and two backends, one of which stops once; some 700
\* results; three tools that come and go beside two searches or walks.
CONSTANTS
    c1 = c1
    c2 = c2
    Chains = {c1, c2}
    Codes <- SomeCodes
    Tools <- TwoTools
    Permits = 1
    MaxOutages = 1
    IntentThreshold = 8
    GroupLines = 2
    ChunkTarget = 12
    ChunkThreshold = 14
    Preview = 2
    Shown = 1
    Footer = 4
    Terms = {"a", "b", "c"}
    MaxDepth = 3
    Values <- SomeValues
    Inputs <- SomeInputs
    Alphabet = {"a", "d", "e", "n", "o", "r", "u"}
    Catalog <- SomeCatalog
    Queries <- SomeQueries
    PageSize = 1
    MaxChanges = 3
    MaxUses = 2
    Subjects = {"chain", "output", "search"}
SPECIFICATION Spec
INVARIANTS  OutputFaithful DiscoverySound
 
CHECK_DEADLOCK FALSE
