SPECIFICATION Spec
CONSTANTS
  Inputs <- MCInputs
  Letters <- MCLetters
  Digits <- MCDigits
  Spaces <- MCSpaces
  Quote <- MCQuote
  Escape <- MCEscape
  Escaped <- MCEscaped
  Quotables <- MCQuotables
INVARIANTS
  TokensTile
  EveryTextQuotable
  ParsedAsGrammar
PROPERTIES
  EveryQueryAnswered
