-------------------------------- MODULE MCIl --------------------------------
(* The behaviours of Il that TLC explores, one kind of load at a time.     *)
EXTENDS Il, TLC

TwoStarts == <<21, 31>>

Plan(listens, calls, cw, sw, closers, idlers, old) ==
    [listens |-> listens, calls |-> calls, old |-> old,
     writes |-> ("caller" :> cw @@ "server" :> sw),
     closers |-> closers, idlers |-> idlers]

Opening == {"sync", "data", "close"}
Answers == {"ack", "query", "state", "data", "dataquery"}

Loads ==
    {Plan(TRUE, 1, 2, 0, {"caller"}, {}, {}),       \* a stream, then a close
     Plan(TRUE, 1, 1, 1, {}, {}, {}),               \* messages both ways
     Plan(TRUE, 1, 0, 0, End, {}, {}),              \* both ends close
     Plan(TRUE, 1, 1, 0, {}, {"server"}, {}),       \* an idle listener
     Plan(TRUE, 2, 1, 0, {}, {}, Opening),          \* an old call, a message
     Plan(TRUE, 2, 0, 0, {"caller"}, {}, Opening),  \* an old call, a close
     Plan(TRUE, 1, 1, 0, {}, {}, Answers),          \* an old answer, a message
     Plan(TRUE, 1, 0, 1, {}, {}, Answers),          \* ... from the listener
     Plan(FALSE, 0, 1, 0, {"caller"}, {}, {})}      \* nobody listens
=============================================================================
