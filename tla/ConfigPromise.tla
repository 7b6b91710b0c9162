--------------------------- MODULE ConfigPromise ----------------------------
(***************************************************************************)
(* What the parser promises, as a specification of its own: whenever it is *)
(* asked for the meaning of a configuration it answers, if at all, with    *)
(* that meaning.                                                           *)
(***************************************************************************)
EXTENDS ConfigProtocol, ConfigMeaning

AnswerMeaning == Answer /\ answers' = {Meaning(conf) : conf \in asked}

Promise == ProtocolInit /\ [][Ask \/ AnswerMeaning \/ Forget]_protocol
=============================================================================
