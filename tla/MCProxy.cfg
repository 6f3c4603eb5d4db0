SPECIFICATION Spec
CONSTANT None = None
INVARIANTS
    FilesMatchTheReceipt
PROPERTY
    OperatorsFileSurvives
