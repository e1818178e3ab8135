---------------------------- MODULE MCAnswering ----------------------------
(* Instances of Answering for TLC: three chunks, two certifications, three   *)
(* documents.  Combinations that differ in documents nobody named are left   *)
(* out, and for parts also the prose outcome beside claims and injections    *)
(* in what is not cited.                                                     *)
EXTENDS Answering, TLC

CONSTANTS ctrl, appr, prof, certA, certB, doc, openDoc, hiddenDoc

MCSourceType == (ctrl :> "control" @@ appr :> "approved_answer" @@ prof :> "company_profile")
MCChunks == {ctrl, appr, prof}
MCCerts == {certA, certB}
MCDocs == {doc, openDoc, hiddenDoc}

\* One report is done with its findings or has a date for them; one has an open finding
\* to show without a date, one such a finding that is not shown.
Finding(d, open, dated, shareable) ==
    [document |-> d, open |-> open, dated |-> dated, shareable |-> shareable]
MCRegister ==
    {Finding(doc, TRUE, TRUE, TRUE), Finding(doc, FALSE, FALSE, TRUE),
     Finding(openDoc, TRUE, FALSE, TRUE), Finding(hiddenDoc, TRUE, FALSE, FALSE)}

Claim(s, st, b) == [subject |-> s, status |-> st, based |-> b]
ClaimLists ==
    {<<>>} \cup {<<Claim(certA, st, b)>> : st \in {"affirmed", "denied"}, b \in BOOLEAN}
    \cup {<<Claim(certA, st, TRUE), Claim(certB, su, TRUE)>> :
            st \in {"affirmed", "qualified"}, su \in {"affirmed", "denied", "unknown"}}

Combinations ==
    [outcome : RESPOND_DRAFTED, cites : SUBSET MCChunks, claims : ClaimLists,
     flawed : BOOLEAN, injected : {{}, {ctrl}}, resolves : BOOLEAN,
     request : {"none", "named", "generic"}, docs : {{doc}, {doc, openDoc}, {doc, hiddenDoc}},
     missing : BOOLEAN, relevance : {0, 100}, coverage : {0, 100}]
MCSimpleInputs ==
    {x \in Combinations : x.request # "named" => x.docs = {doc} /\ ~x.missing} \cup {NoDraft}

PartClaims ==
    {<<>>, <<Claim(certA, "affirmed", TRUE)>>, <<Claim(certA, "denied", TRUE)>>}
PartCombinations ==
    [outcome : RESPOND_DRAFTED, cites : {{}, {ctrl}, {appr}, {ctrl, prof}}, claims : PartClaims,
     flawed : {FALSE}, injected : {{}, {ctrl}}, resolves : {TRUE},
     request : {"none", "named"}, docs : {{doc}, {openDoc}, {hiddenDoc}},
     missing : {FALSE}, relevance : {50}, coverage : {0, 100}]
MCPartInputs ==
    {x \in PartCombinations : /\ x.claims # <<>> => x.outcome = "attested"
                              /\ x.request = "none" => x.docs = {doc}
                              /\ x.injected \subseteq x.cites} \cup {NoDraft}
=============================================================================
