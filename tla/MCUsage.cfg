SPECIFICATION UsageSpec
CONSTANTS
  Unknown = Unknown
  Anonymous = Anonymous
  NonCitation = {nm}
  nf = nf ng = ng nh = nh nk = nk nm = nm nb = nb
  Corpora <- MCCorpora
  Menu <- MCMenu
  MayOpen <- MCMayOpen
  MaxLive = 2
  Queried <- MCQueried
  Provable <- MCProvable
  Keeps <- MCKeeps
  Written <- MCWritten
  Typable <- MCTypable
  Tree <- MCTree
  Theories <- MCTheories
  Size <- MCSize
  EntryLines <- MCEntryLines
  WorkDir <- MCWorkDir
  HomeDir <- MCHomeDir
  Piped <- MCPiped
  Project = "p"
  ColdOnly = {"dump-theories"}
INVARIANTS UsesExact VerbsExact FixedPointsExact AnswersExact
CHECK_DEADLOCK FALSE
