SPECIFICATION FairChainSpec
CONSTANTS MaxInputs = 2
          MaxLinks = 1
          Executors = {e1}
          NoExecutor = nullptr
PROPERTIES AsyncErrorPasses
