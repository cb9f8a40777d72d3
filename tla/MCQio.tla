------------------------------- MODULE MCQio -------------------------------
(* The kinds of queues that qopen() makes in the kernel, for TLC. *)
EXTENDS Qio

AllKinds == {<<"pipe", {}>>, <<"output", {}>>, <<"output", {"Qmsg"}>>,
             <<"input", {}>>, <<"input", {"Qmsg"}>>, <<"input", {"Qcoalesce"}>>,
             <<"kprint", {"Qcoalesce"}>>}
ConsoleKinds == {<<"console", {}>>}
=============================================================================
