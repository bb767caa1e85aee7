-------------------------- MODULE MCCrashHandshake --------------------------
(***************************************************************************)
(* One run for what happens when a child crashes: how the child and the    *)
(* parent wait for each other, and how the parent has gdb look at the      *)
(* child, which is one step (Inspected) of the first.  Each behaviour is   *)
(* one part's and the other stays in one initial state.                    *)
(***************************************************************************)
EXTENDS CrashHandshake, GdbSession

VARIABLE part

\* up to more than the buffer holds
MCFrames == {<<>>, <<"x">>, <<"x", "x">>, <<"x", "x", "x", "x">>}

MCInit ==
  /\ part \in {"handshake", "gdb"}
  /\ IF part = "handshake" THEN on_crash_action \in CrashAction /\ exec \in BOOLEAN
     ELSE on_crash_action = "backtrace" /\ exec = FALSE
  /\ IF part = "gdb" THEN gdbKnows \in [python : BOOLEAN, frame : Frames]
     ELSE gdbKnows = [python |-> TRUE, frame |-> <<>>]
  /\ Init /\ GdbInit

MCNext ==
  /\ UNCHANGED part
  /\ \/ part = "handshake" /\ Next /\ UNCHANGED gdbVars
     \/ part = "gdb" /\ GdbNext /\ UNCHANGED vars

\* each part has the fairness of its own specification
MCSpec ==
  /\ MCInit /\ [][MCNext]_<<part, vars, gdbVars>>
  /\ WF_vars(part = "handshake" /\ Parent)
  /\ \A s \in Slices, t \in Threads : WF_vars(part = "handshake" /\ Handler(s, t))
  /\ WF_gdbVars(part = "gdb" /\ GdbGoesOn)
=============================================================================
