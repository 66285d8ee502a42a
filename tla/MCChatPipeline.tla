--------------------------- MODULE MCChatPipeline ---------------------------
(***************************************************************************)
(* Two requests for one connection: two messages, or one sent again; one   *)
(* user, there until deleted; an extraction that can be stored.            *)
(***************************************************************************)
EXTENDS ChatPipeline

CONSTANTS a1, a2, u1

MCTexts == {"hello", "bye"}

Req(text, token, valid_body) ==
  [text |-> text, token |-> token, user |-> u1, valid_body |-> valid_body]

MCInputs ==
  {Req(t, "valid", TRUE) : t \in MCTexts}
  \cup {Req("hello", token, TRUE) : token \in Tokens}
  \cup {Req("hello", "valid", FALSE)}

MCExtractions == {[chunks |-> 1, entities |-> <<>>, relations |-> <<>>, suggestions |-> {}]}

=============================================================================
