SPECIFICATION FairSpec
CONSTANTS Exporters <- ExportersDef
          Lazy = {"a"}
          Drains = {"flush", "dispose"}
          Disposes = {"dispose"}
          MaxJobs = 2
          MaxInits = 2
          N = 3
          M = 1
          MaxTraces = 2
          MaxRetries = 1
INVARIANTS FlushCovers InitOnce LruIsRunning NoOrphans
PROPERTIES DrainsReturn
CHECK_DEADLOCK FALSE
