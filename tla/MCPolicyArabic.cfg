SPECIFICATION Spec
CONSTANTS
    Letters = {"a", "ah", "ai"}
    Compat <- MCCompat
    Marks = {"fatha", "hamza_below", "hamza_above", "sign"}
    Class <- MCClass
    Composition <- MCComposition
    Tatweel = {"tatweel"}
    ArabicPunctuation = {"arabic_comma"}
    Separators = {"blank", "bang"}
    Blank = "blank"
    UrgencyTerms <- MCTerms
    Intents = {"praise"}
    Departments = {"customer_relations", "safety"}
    SafetyDepartment = "safety"
    DepartmentByIntent <- MCDepartmentByIntent
    MaxConfidence = 1
    MaxLength = 3
PROPERTIES
    ArabicPunctuationInvariance
