------------------------------ MODULE Replies ------------------------------
(***************************************************************************)
(* How the bot answers an interaction (utility/response.cpp): Discord      *)
(* takes one response per interaction, which creates what the user sees,   *)
(* and from then on edits of it.  event_data_lite_t remembers in           *)
(* is_first_reply whether the bot has still to create it.                  *)
(*                                                                         *)
(* A dialog is a response, too, but it is opened with the library's own    *)
(* call, which knows nothing of is_first_reply, and it leaves no message   *)
(* that could be edited.                                                   *)
(***************************************************************************)
EXTENDS Integers

CONSTANTS
  Interactions       \* commands, and the button or form of a command

VARIABLES
  is_first_reply,    \* of the event_data_lite_t of each interaction
  response,          \* Discord: what the user sees of it
  failed             \* history: interactions whose last call to Discord failed

replies == <<is_first_reply, response, failed>>

Content(what, page) == [what |-> what, page |-> page]

Nothing == Content("nothing", 0)
Thinking == Content("thinking", 0)
Dialog == Content("dialog", 0)
Text == Content("text", 0)
Prompt == Content("prompt", 0)           \* a text with buttons
Page(n) == Content("page", n)

RepliesTypeOK ==
  /\ is_first_reply \in [Interactions -> BOOLEAN]
  /\ \A i \in Interactions :
       /\ response[i].what \in {"nothing", "thinking", "dialog", "text", "prompt", "page"}
       /\ response[i].page \in Nat
  /\ failed \subseteq Interactions

RepliesInit ==
  /\ is_first_reply = [i \in Interactions |-> TRUE]
  /\ response = [i \in Interactions |-> Nothing]
  /\ failed = {}

\* New interactions arrive where some were before: a command, and the form or
\* the button that may follow.
Arrive(new) ==
  /\ is_first_reply' = [i \in Interactions |-> i \in new \/ is_first_reply[i]]
  /\ response' = [i \in Interactions |-> IF i \in new THEN Nothing ELSE response[i]]
  /\ failed' = failed \ new

-----------------------------------------------------------------------------
(* The calls to Discord.                                                   *)

CanCreate(i) == response[i] = Nothing
CanEdit(i) == response[i] \notin {Nothing, Dialog}

Becomes(i, c) == response' = [response EXCEPT ![i] = c]

\* The call does what it says, and the bot hears of it.
Succeeds(i, allowed, c) ==
  /\ allowed
  /\ Becomes(i, c)
  /\ failed' = failed \ {i}

\* Discord refuses a call out of place; or a call, or only its answer, is lost.
Fails(i, allowed, c) ==
  IF allowed
    THEN /\ Becomes(i, c) \/ UNCHANGED response
         /\ failed' = failed \cup {i}
    ELSE UNCHANGED <<response, failed>>

\* The first reply creates the response, every later one edits it.  Whether it
\* was the first is settled before the outcome is known.
Allowed(i) == IF is_first_reply[i] THEN CanCreate(i) ELSE CanEdit(i)

\* Mutant: the flag stays as it was.
KeepsFirst(i) == UNCHANGED is_first_reply

NoLongerFirst(i) == is_first_reply' = [is_first_reply EXCEPT ![i] = FALSE]

\* co_respond: co_make_response, which the caller hears the outcome of, or does
\* not ask for it.
RespondOk(i, c) == NoLongerFirst(i) /\ Succeeds(i, Allowed(i), c)
RespondError(i, c) == NoLongerFirst(i) /\ Fails(i, Allowed(i), c)
Respond(i, c) == RespondOk(i, c) \/ RespondError(i, c)

\* co_think creates the response whatever the flag says.
ThinkOk(i) == NoLongerFirst(i) /\ Succeeds(i, CanCreate(i), Thinking)
ThinkError(i) == NoLongerFirst(i) /\ Fails(i, CanCreate(i), Thinking)
Think(i) == ThinkOk(i) \/ ThinkError(i)

\* co_dialog, a call of the library.
DialogOk(i) == Succeeds(i, CanCreate(i), Dialog) /\ UNCHANGED is_first_reply
DialogError(i) == Fails(i, CanCreate(i), Dialog) /\ UNCHANGED is_first_reply
=============================================================================
