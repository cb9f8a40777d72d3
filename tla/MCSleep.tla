------------------------------- MODULE MCSleep ------------------------------
(***************************************************************************)
(* Sleeping processes for TLC: a behaviour is about sleep(), wakeup() and  *)
(* postnote() (the variables of SleepWakeup) or about tsleep() and the     *)
(* timers under it (the variables declared here).  Timers has the wakeups  *)
(* of twakeup() by the contract that SleepWakeup is about; they have no    *)
(* state in common.                                                        *)
(***************************************************************************)
EXTENDS SleepWakeup

CONSTANTS
    Tsleepers,   \* the processes that call tsleep()
    Trendezes,   \* what they sleep on
    Cpus, Delays, Period, MaxLate, Never

VARIABLES
    kind,        \* what this behaviour is about
    list, twhen, tt, hw, tpc, on, trend, rend, ipc, inow, it, irend

T == INSTANCE Timers WITH Procs <- Tsleepers, Rendezes <- Trendezes, pc <- tpc

ASSUME TimersConstants == T!TimersAssumption

tvars == <<list, twhen, tt, hw, tpc, on, trend, rend, ipc, inow, it, irend>>

SleepsInit == kind \in {"sleep", "tsleep"} /\ Init /\ T!Init

SleepsNext ==
    \/ kind = "sleep" /\ Next /\ UNCHANGED <<kind, tvars>>
    \/ kind = "tsleep" /\ T!Next /\ UNCHANGED <<kind, vars>>

\* The fairness of Timers, in the behaviours that are about it; that of
\* SleepWakeup asks for nothing where nobody has called sleep().
TimersFairness ==
    /\ \A p \in Tsleepers : SF_tvars(kind = "tsleep" /\ T!ProcStep(p))
    /\ \A c \in Cpus : WF_tvars(kind = "tsleep" /\ T!IntrStep(c))
    /\ WF_tvars(kind = "tsleep" /\ T!Tick)

SleepsSpec ==
    /\ SleepsInit /\ [][SleepsNext]_<<kind, vars, tvars>>
    /\ Fairness /\ TimersFairness

\* tadd() and tdel() keep every timer in one sorted list, the one t->tt names,
\* while processes move between processors; a process outside tsleep() has
\* none in any list.
ListsOK == T!ListsOK

\* timerset(): a processor's clock is set for its first timer, or earlier.
Armed == T!Armed

\* sleep() returns after its event, and tsleep() after its time, with nobody
\* else's help, except for what TimeoutLost of Timers describes.
SleepsEnd == EventWakes /\ T!TsleepEnds
=============================================================================
