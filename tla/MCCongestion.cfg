CONSTANTS
  MaxPayload = 1200
  Scripts <- MixedScripts
  InitialWindows = {1500, 9000}
  Windows = {1000, 9000}
  NoTsn = NoTsn
SPECIFICATION Spec
PROPERTIES RecoveryHoldsWindow NeverSilenced WindowsRespected
