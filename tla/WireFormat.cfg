SPECIFICATION Spec
CONSTANTS
  Char = {"n", "colon", "text", "quote", "backslash", "newline", "ctrl", "e-acute", "raw", "u00e9"}
  Origin = {"dashboard", "agent"}
  MaxLen = 5
INVARIANTS OneLine EventsReadable FieldsSeparate NamesDistinct
CHECK_DEADLOCK FALSE
