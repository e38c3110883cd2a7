SPECIFICATION Spec
CONSTANTS
    Used = {"invoices", "llm_audit_entries", "users"}
    MaxInserts = 1
INVARIANTS
    SchemaIsSound
    RevisionsApply
PROPERTIES
    UpgradesKeepData
CHECK_DEADLOCK FALSE
