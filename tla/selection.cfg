SPECIFICATION Spec
CONSTANTS
  data = data
  web = web
  ops = ops
  excel = excel
  anExcel = anExcel
  sheet = sheet
  react = react
  report = report
  unpaid = unpaid
  Blank = Blank
  None = None
  Words <- MCWords
  Width <- MCWidth
  Clitics <- MCClitics
  Order <- MCOrder
  Profile <- MCProfile
  MaxText = 4
  MaxTitle = 1
  Titles <- MCTitles
  Descriptions <- MCDescriptions
CHECK_DEADLOCK FALSE
INVARIANT TypeOK
INVARIANT HitsClaimTheirWords
INVARIANT SelectsWhatPrevails
INVARIANT NoCandidateDropped
