\* All days of the 400 years after which the calendar repeats, milliseconds;
\* data up to five bytes at the borders of the bit groups; texts of up to eight
\* tokens; files of up to eight lines, the length of config.template.yaml.
CONSTANTS
  Width = 3
  LastDay = 146097
  Bytes = {0, 1, 15, 16, 63, 64, 192, 255}
  DigestLength = 5
  Tokens = {"LeftCurlyBracket", "RightCurlyBracket", "LeftBracket", "RightBracket",
            "Comma", "Colon", "string", "number", "word", "space"}
  MaxTokens = 8
  Root = "coinbasepro"
  Sections = {"live", "sandbox"}
  Keys = {"apiKey", "secretKey"}
  WidthOf <- MCWidthOf
  Texts = {"text1", "text2"}
  Nothing = ""
  LineEnd = "line end"
  Indents = {2, 4, 6}
  MaxLines = 8

SPECIFICATION Spec

INVARIANTS
  DaysAreCalendarDays
  TimesReadBack
  DecodeUndoesEncode
  ParsersAgree
  WritingUndoesReading
  ConfigReadsBack

CHECK_DEADLOCK FALSE
