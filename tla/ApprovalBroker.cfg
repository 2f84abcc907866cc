CONSTANTS
    NoOne = NoOne
    Plans = {plan}
    Replans = {}
    Questions = {q}
    Writes = {}
    AskRuled = {a}
    Background = {}
    Setters = {s1}
    Ops = {"tool", "plan", "both"}
SPECIFICATION Spec
CHECK_DEADLOCK FALSE
INVARIANTS
    PromptsInTurn
    YoloLeavesNoPrompt
    UserDecides
