SPECIFICATION Spec
CONSTANTS
  Fetchers = {f1, f2}
  Converters = {}
  Runners = {}
PROPERTIES DownloadsKeepForeignFiles
