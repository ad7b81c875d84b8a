\* A file of every kind, every order of the settings, hints that agree and not.
SPECIFICATION Spec
CONSTANTS
  Signed = {"pdf", "tif", "docm", "exe"}
  Parts = {"content", "word", "odt", "other"}
  Looks = {"html", "csv"}
  Hints = {"docx", "docm", "pdf", "tif", "foo"}
  ContentTypes = {"pdf", "html"}
  Ruled = {"docx"}
  Thresholds = {550, 700, 1000}
  Depths = {0, 1}
INVARIANT TypeOK
INVARIANT NeverSilent
PROPERTY BytesDecide
PROPERTY LaxerSettingsForward
PROPERTY OwnNameHelps
