SPECIFICATION Spec
CONSTANTS
    ctrl = ctrl
    appr = appr
    prof = prof
    certA = certA
    certB = certB
    doc = doc
    openDoc = openDoc
    hiddenDoc = hiddenDoc
    NoDraft = NoDraft
    Chunks <- MCChunks
    SourceType <- MCSourceType
    Certs <- MCCerts
    Docs <- MCDocs
    Register <- MCRegister
    SimpleInputs <- MCSimpleInputs
    PartInputs <- MCPartInputs
    MaxParts = 2
INVARIANTS CleanMeansSound PartsGrounded UnsupportedFlagged OnlyHeldCertsAffirmed NothingUndatedProvided InjectionSurfaces
