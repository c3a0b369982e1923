SPECIFICATION SendFairSpec
CONSTANTS
  Senders = {t1, t2}
  Keys = {1}
  Data <- ShortData
PROPERTIES SendToCore3Returns
VIEW View
