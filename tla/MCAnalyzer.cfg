CONSTANTS
    Lines <- MCContractLines
    MaxLines = 4
    MaxScan = 3
    MaxDesc = 2
    MaxFunctions = 2
    OpcodeTokens <- MCOpcodeTokens
    MaxOpcodes = 2
    StrStartsWith <- MCStrStartsWith
SPECIFICATION Spec
INVARIANT OrdinaryDescriptionIsCommentText
INVARIANT ContractDescribesLastOverload
CHECK_DEADLOCK FALSE
