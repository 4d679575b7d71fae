SPECIFICATION Spec
INVARIANTS
  DeclarationsFound
  MembersFound
  TextsAgree
  
  FilesDiscovered
  SettingsEffective
CHECK_DEADLOCK FALSE
