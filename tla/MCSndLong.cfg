SPECIFICATION SendFairSpec
CONSTANTS
  Senders = {t1, t2}
  Keys = {1}
  Data <- MCData
PROPERTIES HandedOverIntact
VIEW View
