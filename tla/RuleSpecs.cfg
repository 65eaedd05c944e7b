CONSTANTS
    Bar = Bar
    Bang = Bang
    At = At
    Backslash = Backslash
    Letter = Letter
    Newline = Newline
    Chars <- MCChars
    Delimiters <- MCDelimiters
    TokenChars <- MCTokenChars
    Control <- MCControl
    Escapes <- MCEscapes
    Requests <- MCRequests
SPECIFICATION Spec
INVARIANT TypeOK
INVARIANT RuleMeansRequest
INVARIANT HeaderStaysOneLine
CHECK_DEADLOCK FALSE
