CONSTANTS
    TinyBits = 3
    SmallBits = 4
    IntBits = 8
    BigBits = 9
    MantissaBits = 7
    Statements <- MCStatements
    Databases <- MCDatabases
    MaxRows = 6
    PageSize = 56
SPECIFICATION Spec
INVARIANTS ColumnsResolveOnce PlanMeansQuery AnswerIsRight IndexesKeepStep DmlMeansStatement
PROPERTIES RulesPreserveResult StatementEnds
