---------------------------- MODULE SerialWriter ----------------------------
(***************************************************************************)
(* What the storage executor promises its callers, without lanes, gate,    *)
(* thread steps or overload accounting: commands are executed one at a     *)
(* time and at most once, a cancelled command is never executed, an answer *)
(* tells the truth about the transaction, and once admission is closed     *)
(* nothing more is accepted and at most the command already picked begins. *)
(***************************************************************************)
CONSTANT Command

VARIABLES
  phase,   \* Command -> how far the command has come
  told,    \* Command -> the answer its submitter got
  closed   \* admission is closed
vars == <<phase, told, closed>>

Phase == {"new", "queued", "picked", "begun", "committed", "aborted",
          "cancelled", "lost"}

Init == /\ phase = [c \in Command |-> "new"]
        /\ told = [c \in Command |-> "none"]
        /\ closed = FALSE

Move(S, to) == phase' = [c \in Command |-> IF c \in S THEN to ELSE phase[c]]

Accept(c) == /\ phase[c] = "new" /\ told[c] = "none" /\ ~closed
             /\ Move({c}, "queued") /\ UNCHANGED <<told, closed>>

Refuse(c) == /\ phase[c] = "new" /\ told[c] = "none"
             /\ \E answer \in {"Overloaded", "WorkerUnavailable", "WatermarkPending"} :
                  told' = [told EXCEPT ![c] = answer]
             /\ UNCHANGED <<phase, closed>>

Close == ~closed /\ closed' = TRUE /\ UNCHANGED <<phase, told>>

\* The writer commits itself to c; it never does so after the close.
Pick(c) == /\ phase[c] = "queued" /\ ~closed
           /\ \A d \in Command : phase[d] \notin {"picked", "begun"}
           /\ Move({c}, "picked") /\ UNCHANGED <<told, closed>>

Begin(c) == /\ phase[c] = "picked"
            /\ Move({c}, "begun") /\ UNCHANGED <<told, closed>>

Finish(c) == /\ phase[c] = "begun"
             /\ Move({c}, "committed") \/ Move({c}, "aborted")
             /\ UNCHANGED <<told, closed>>

Cancel == \E S \in SUBSET {c \in Command : phase[c] \in {"queued", "picked"}} :
            Move(S, "cancelled") /\ UNCHANGED <<told, closed>>

\* The writer dies or leaves: what it had not finished is lost, except that a
\* begun transaction may have committed.
Lose == \E kept \in SUBSET {c \in Command : phase[c] = "begun"} :
          /\ phase' = [c \in Command |->
                         IF c \in kept THEN "committed"
                         ELSE IF phase[c] \in {"queued", "begun"} THEN "lost"
                         ELSE phase[c]]
          /\ UNCHANGED <<told, closed>>

Truth(c) == CASE phase[c] = "committed" -> {"Ok", "WorkerUnavailable"}
              [] phase[c] = "aborted"   -> {"Backend"}
              [] phase[c] = "cancelled" -> {"Cancelled"}
              [] phase[c] = "lost"      -> {"WorkerUnavailable"}
              [] OTHER -> {}

Tell(c) == /\ told[c] = "none"
           /\ \E answer \in Truth(c) : told' = [told EXCEPT ![c] = answer]
           /\ UNCHANGED <<phase, closed>>

\* The slot is used for the next submission.
Renew(c) == /\ phase[c] \notin {"queued", "picked", "begun"}
            /\ Move({c}, "new")
            /\ told' = [told EXCEPT ![c] = "none"]
            /\ UNCHANGED closed

Next == \/ Close \/ Cancel \/ Lose
        \/ \E c \in Command : Accept(c) \/ Refuse(c) \/ Pick(c) \/ Begin(c)
                              \/ Finish(c) \/ Tell(c) \/ Renew(c)

Spec == Init /\ [][Next]_vars
=============================================================================
