\* A branch on which nothing changes.
SPECIFICATION Spec
CONSTANTS
  branch = branch project = project key = key
  None = None
  Sources = {branch}
  Projects = {project}
  Kind <- MCKind
  ProjectOf <- MCProjectOf
  CommitOf <- MCNoPipeline
  Texts = {key}
  KeyTexts = {key}
  WordTexts = {}
  Budgets <- MCBudgets
PROPERTY RevalidatedForCause
CHECK_DEADLOCK FALSE
