------------------------------ MODULE Reliable ------------------------------
(***************************************************************************)
(* What IL promises the processes at the two ends of a conversation: two   *)
(* streams of messages, one each way, delivered without loss, duplication  *)
(* or reordering for as long as the conversation lasts, and only between   *)
(* two ends each of which took the other for its peer.  Either end may go  *)
(* away at any time; what was not delivered by then never is.              *)
(*                                                                         *)
(* Conversation Caller is the one that calls; the others are the           *)
(* conversations the called machine makes for the calls it hears, among    *)
(* them calls that no living caller made (None).                           *)
(***************************************************************************)
EXTENDS Naturals, Sequences

CONSTANTS Caller, Calls, None

VARIABLES
    mate,    \* whom a conversation takes for its peer; None: nobody (yet)
    wrote,   \* how many messages were written on a conversation
    got      \* the messages a conversation's reader was given, in order

vars == <<mate, wrote, got>>

Convs == {Caller} \cup Calls

Init ==
    /\ mate = [c \in Convs |-> None]
    /\ wrote = [c \in Convs |-> 0]
    /\ got = [c \in Convs |-> << >>]

\* The called machine hears a call of the caller.
Hear(c) ==
    /\ c \in Calls /\ mate[c] = None /\ got[c] = << >>
    /\ mate' = [mate EXCEPT ![c] = Caller]
    /\ UNCHANGED <<wrote, got>>

\* The caller hears the answer to its call, once.
Answered(c) ==
    /\ mate[Caller] = None /\ mate[c] = Caller
    /\ mate' = [mate EXCEPT ![Caller] = c]
    /\ UNCHANGED <<wrote, got>>

\* The n-th message written on a conversation is the message n.
Write(c) ==
    /\ wrote' = [wrote EXCEPT ![c] = @ + 1]
    /\ UNCHANGED <<mate, got>>

\* Some of the messages still outstanding are delivered, the oldest first.
Deliver(c) ==
    LET d == mate[c] IN
    /\ d # None /\ mate[d] = c
    /\ \E n \in 1..(wrote[d] - Len(got[c])) :
          got' = [got EXCEPT ![c] = @ \o [i \in 1..n |-> Len(@) + i]]
    /\ UNCHANGED <<mate, wrote>>

Next == \E c \in Convs : Hear(c) \/ Answered(c) \/ Write(c) \/ Deliver(c)

Spec == Init /\ [][Next]_vars
=============================================================================
