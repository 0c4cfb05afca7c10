SPECIFICATION MatchSpec
CONSTANTS
  Toks <- MCToks
  Years <- MCYears
INVARIANTS
  MatchMeaning
  RepeatSpaced
