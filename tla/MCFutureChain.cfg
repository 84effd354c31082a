SPECIFICATION FairChainSpec
CONSTANTS MaxInputs = 3
          MaxLinks = 2
          Executors = {e1, e2}
          NoExecutor = nullptr
INVARIANTS OutcomeRight ResultsFlow
PROPERTIES ChainCompletes
