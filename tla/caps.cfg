SPECIFICATION Spec
CONSTANT Answers <- MCAnswers
INVARIANTS OperationsOfferSoap NonSoapGone OthersKept ProfilesRight
CHECK_DEADLOCK FALSE
