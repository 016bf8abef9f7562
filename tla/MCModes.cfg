SPECIFICATION Spec
CONSTANTS
  console = console
  observer = observer
  libconsole = libconsole
  Threads = {t1}
  Streams = {console, libconsole}
  Observers = {observer}
  Queued = {q1, q2}
  Direct = {d1}
  LastResort = lastResort
  None = None
  RootHas <- OnRoot
  LibHas <- OnLib
  Calls = 2
  Depth = 2
  Configs = 3
INVARIANTS TypeOK JsonOnce LegacyUnchanged MarkedHidden MarkerGone HiddenInnermost OnceEach
