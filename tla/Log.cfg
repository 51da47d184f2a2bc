SPECIFICATION Spec
CONSTANTS
  Types = {"gpx", "nmea", "textfile", "binfile"}
  limit = 3
  flush_size = 1
  MaxRecords = 5
  MaxNow = 1
  MaxKills = 2
INVARIANTS FilesAreWhole RecordsKept
