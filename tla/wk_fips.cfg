\* The start-up of every environment; bounds as in wk_serve.
SPECIFICATION WorkerSpec
CONSTANTS
  Attempts = 3
  Sends = 2
  MaxFaults = 1
  Environment <- Environments
  Host <- Hosts
  Input <- Inputs
INVARIANT RealClientsUseFips
