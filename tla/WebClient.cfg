SPECIFICATION Spec
CONSTANTS
  LinkGroups = {1, 2}
  LinkPolicies = {1, 2, 3}
  LinkModules = {1, 2}
  LinkOps = 3
  Events = {1, 2}
  ModuleOf <- MCModuleOf
  NeededFields <- MCNeededFields
  FieldsOf <- MCFieldsOf
  DefaultActions <- MCDefaultActions
  FirstActions <- MCFirstActions
  ActionOps = 6
INVARIANTS StoresSound ViewSettled EditorSettled FilesKept ServerAccepts SectionsAgree
PROPERTY EditsCarryOver
CHECK_DEADLOCK FALSE
