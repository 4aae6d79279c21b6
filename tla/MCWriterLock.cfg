SPECIFICATION Spec
CONSTANTS
  runner = runner
  human = human
  t1 = t1
  t2 = t2
  u1 = u1
  main = main
  linked = linked
  other = other
  repo = repo
  alone = alone
  Processes = {runner, human}
  Threads = {t1, t2, u1}
  ProcessOf <- ProcessOfThreads
  Roots = {main, linked, other}
  Folders = {repo, alone}
  FolderOf <- FolderOfRoots
  None = None
  MaxDepth = 4
INVARIANTS MutualExclusion
