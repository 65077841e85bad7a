---------------------------- MODULE MCIntakePoll ----------------------------
(***************************************************************************)
(* Runs of /run-polls over one credential, whose second note cannot be     *)
(* parsed, since its owner's address is null, so that a run fails behind a *)
(* note it has stored; the push routes are idle.                           *)
(***************************************************************************)
EXTENDS StructuredIntake, Adapters

CONSTANTS ann, acme, call, torn, crm

MCItems == {call, torn}

NoteOf(i) == [has |-> {"id", "createdAt", "summary"},
              owner |-> IF i = torn THEN Null ELSE ann]
MCBlank == {i \in MCItems : GranolaNote(NoteOf(i)).result = "skipped"}
MCUnparsable == {i \in MCItems : GranolaNote(NoteOf(i)).result = "malformed"}
MCParticipants == [i \in MCItems |-> GranolaNote(NoteOf(i)).people]
MCOwner == [e \in Emails |-> acme]
MCRequest == [r \in Requests |-> r]
MCNotes == [c \in Credentials |-> <<call, torn>>]
=============================================================================
