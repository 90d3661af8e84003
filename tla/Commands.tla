------------------------------ MODULE Commands ------------------------------
(***************************************************************************)
(* What the /db and /mog commands have in common (commands/slash/db/db.cpp *)
(* and commands/slash/mog/mog.cpp): most think first, that is, create a    *)
(* response which tells the user to wait, look up what they need, and give *)
(* their answer in the end, or leave that to a list.  A command of either  *)
(* module waits at each step for a call to Discord.                        *)
(***************************************************************************)
EXTENDS Pagination

VARIABLE
  run                \* the command in progress of each handler

ASSUME CommandsAssumption ==
  /\ \A h \in Handlers : {<<h, "command">>, <<h, "second">>} \subseteq Interactions
  /\ TextLimit \in Nat
  /\ MaxClicks \in Nat

\* The form or the button that a command asked for.
Second(h) == <<h, "second">>

\* Where a command is, what it was given, the interaction that it answers as it
\* ends, and what it has read to list.
Idle == [step |-> "idle", req |-> "none", answer |-> "command", rows |-> <<>>]

RunSteps == {"idle", "begun", "ready", "naming", "opened", "waiting", "submitted",
             "filled", "refused", "confirmed", "many", "close"}

\* A handler has a command, or the list that one has started.
Busy(h) == run[h].step # "idle" \/ list[h].step # "none"

\* get_requested_initialization_type: insert text opens a dialog instead.
ThinksFirst(r) == r.kind # "text"

Do(h, r) == run' = [run EXCEPT ![h] = r]
Goto(h, s) == Do(h, [run[h] EXCEPT !.step = s])
At(h, s, kinds) == run[h].step = s /\ run[h].req.kind \in kinds

\* The command still has to give its last answer, to the command or the second.
Close(h, to) == Do(h, [run[h] EXCEPT !.step = "close", !.answer = to])

-----------------------------------------------------------------------------
(* Every command.                                                          *)

Begin(h, r) ==
  /\ ~ Busy(h)
  /\ Arrive({Command(h), Second(h)})
  /\ Do(h, [Idle EXCEPT !.step = IF ThinksFirst(r) THEN "begun" ELSE "ready",
                        !.req = r])
  /\ UNCHANGED list

\* co_think; a command that cannot even think says so and ends.
ThinkFirst(h) ==
  /\ run[h].step = "begun"
  /\ \/ ThinkOk(Command(h)) /\ Goto(h, "ready")
     \/ ThinkError(Command(h)) /\ Close(h, "command")
  /\ UNCHANGED list

\* A lookup, a parameter or a permission is missing, or the database fails.
Refuse(h) ==
  /\ run[h].step = "ready"
  /\ Close(h, "command")
  /\ UNCHANGED <<replies, list>>

Conclude(h) ==
  /\ run[h].step = "close"
  /\ Respond(<<h, run[h].answer>>, Text)
  /\ Do(h, Idle)
  /\ UNCHANGED list

CommandStep(h) == ThinkFirst(h) \/ Refuse(h) \/ Conclude(h)

=============================================================================
