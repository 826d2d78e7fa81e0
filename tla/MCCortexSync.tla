---------------------------- MODULE MCCortexSync ----------------------------
(* Three untraced events in order, and a cursor file that is damaged once. *)
EXTENDS CortexSync

InOrder ==
    {[time |-> <<1, 2, 3>>, trace |-> <<"untraced", "untraced", "untraced">>,
      invalid |-> {}, tail |-> FALSE]}
Damaged == {[crash |-> 1, fault |-> 0, corrupt |-> 1]}

=============================================================================
