---------------------------- MODULE MCDlpGateway ----------------------------
(* Small policies for DlpGateway. *)
EXTENDS DlpGateway

CONSTANTS key, mail, note

MCContents == {key, mail, note}

rule(hits, action) == [hits |-> hits, action |-> action]

\* Both block a key: the first before a rule that would only redact; the second as
\* an allow list, in which the mail that the first redacts is blocked by default.
MCUsual  == [rules |-> <<rule({key}, "block"), rule({key, mail}, "redact")>>, default |-> "allow"]
MCStrict == [rules |-> <<rule({note}, "allow"), rule({key}, "block")>>, default |-> "block"]

MCPresent == {MCUsual, MCStrict, Broken}
MCAny     == MCPresent \cup {Missing}
=============================================================================
