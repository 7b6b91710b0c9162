--------------------------- MODULE ConfigProtocol ---------------------------
(***************************************************************************)
(* How a program and its parser take turns: the program asks for the       *)
(* meaning of a configuration, and the parser answers once, if at all,     *)
(* before it is asked again or told more.  What the answer is, is left to  *)
(* ConfigPromise.                                                          *)
(***************************************************************************)
VARIABLES
  asked,   \* the configuration it is asked for, at most one
  answers  \* what it answered, at most one

protocol == <<asked, answers>>

ProtocolInit == asked = {} /\ answers = {}

Ask == (asked = {} \/ answers # {}) /\ asked' # {} /\ answers' = {}

(* An answer stays until the program does something. *)
Answer ==
  /\ asked # {} /\ answers = {}
  /\ \E answer \in answers' : answers' = {answer}
  /\ UNCHANGED asked

(* The program goes on, and what was asked is of no interest any more. *)
Forget == answers # {} /\ asked' = {} /\ answers' = {}
=============================================================================
