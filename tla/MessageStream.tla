----------------------------- MODULE MessageStream -----------------------------
(***************************************************************************)
(* What a connection is to the layers above BL1: in each direction the     *)
(* messages sent on it are handled by the other end one by one, in the     *)
(* order in which they were sent, none twice and none left out.  A         *)
(* connection that ends may leave some unhandled.                          *)
(***************************************************************************)
EXTENDS Naturals, Sequences

CONSTANTS Stream,     \* the directions of the connections
          Message

VARIABLES sent,       \* sent[s]: everything given to SendMsgToPeer
          handled     \* handled[s]: what the other end has handled

Init ==
  /\ sent = [s \in Stream |-> << >>]
  /\ handled = [s \in Stream |-> << >>]

Send(s, m) ==
  /\ sent' = [sent EXCEPT ![s] = Append(@, m)]
  /\ UNCHANGED handled

Handle(s) ==
  /\ Len(handled[s]) < Len(sent[s])
  /\ handled' = [handled EXCEPT ![s] = Append(@, sent[s][Len(@) + 1])]
  /\ UNCHANGED sent

Next == \E s \in Stream : Handle(s) \/ \E m \in Message : Send(s, m)

Spec == Init /\ [][Next]_<< sent, handled >>
=============================================================================
