---------------------------- MODULE MCCallMedia -----------------------------
(* Environments of the model-checking run of CallMedia.                    *)
EXTENDS CallMedia

MCEnvironments == {
    [calls |-> {1}, sip |-> {1}, web |-> {1}, asks |-> 1, acts |-> {"voicemail"}],
    [calls |-> {1}, sip |-> {}, web |-> {1}, asks |-> 2, acts |-> {"hold", "voicemail", "record"}],
    [calls |-> {1, 2}, sip |-> {}, web |-> {2}, asks |-> 1, acts |-> {"voicemail"}],
    [calls |-> {1, 2}, sip |-> {1}, web |-> {}, asks |-> 1, acts |-> {}],
    [calls |-> {1, 2}, sip |-> {}, web |-> {1}, asks |-> 1, acts |-> {"record"}],
    [calls |-> {1}, sip |-> {1}, web |-> {}, asks |-> 1, acts |-> {"voicemail", "again"}]}
=============================================================================
