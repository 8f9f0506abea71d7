-------------------------- MODULE MCSessionManager --------------------------
(***************************************************************************)
(* An instance of SessionManager for TLC: manager ma has an operation of    *)
(* every kind but finalize, manager mb a detached commit.                   *)
(***************************************************************************)
EXTENDS SessionManager

CONSTANTS ma, mb, turn, command, edit, mutate, mark, turnB, finalizeB

MCManagerOf == [o \in Ops |-> IF o \in {turnB, finalizeB} THEN mb ELSE ma]
MCKindOf ==
  [o \in Ops |->
     CASE o \in {turn, turnB} -> "turn" [] o = command -> "command"
       [] o = edit -> "edit" [] o = mutate -> "mutate" [] o = mark -> "mark"
       [] OTHER -> "finalize"]
=============================================================================
