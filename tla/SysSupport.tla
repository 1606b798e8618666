----------------------------- MODULE SysSupport -----------------------------
(***************************************************************************)
(* sysSupport.c: the system calls of user processes, and the program of a  *)
(* user process itself as far as the support level sees it: it stores into *)
(* its pages, faults, traps, and calls.  A load changes nothing and is not *)
(* a step unless it faults.                                                *)
(***************************************************************************)
EXTENDS Pager

ToExit == <<"exit", "V">>

(* A store to a page whose translation is found; another version of it.    *)
Store(a) ==
    /\ At(a, "user", "run")
    /\ \E x \in Stores[a], ver \in {1, 2} :
           LET content == <<Table(a, x.seg), Entry(x), ver>>
           IN  /\ \E f \in Reach(a, x) : ram' = [ram EXCEPT ![f] = content]
               /\ written' = [written EXCEPT
                                 ![Table(a, x.seg)][Entry(x)] = content]
    /\ UNCHANGED <<pc, semVars, i, pagerVars, disk, cylinder, diskCmd,
                   garbage>>

UserFault(a) ==
    /\ At(a, "user", "run")
    /\ \E x \in Touches[a] : TLBException(a, x, <<"user", "run">>)

(* A program trap, SYS18, a call nobody implements, or SYS10 with an       *)
(* address or a length that is not legal: all come to SYS18.               *)
UserTrap(a) ==
    /\ At(a, "user", "run") /\ "TRAP" \in Calls[a]
    /\ GoTo(a, ToExit)
    /\ UNCHANGED <<semVars, i, pagerVars, diskVars, garbage, written>>

(* ReadFromTerminal and WriteToPrinter are empty, and the handler runs off *)
(* its end, to an address that uProcInit left unset: the processor is lost *)
(* in kernel mode, or it traps.                                            *)
EmptyCall(a) ==
    /\ At(a, "user", "run") /\ "EMPTYCALL" \in Calls[a]
    /\ \E point \in {<<"lost", "">>, ToExit} : GoTo(a, point)
    /\ UNCHANGED <<semVars, i, pagerVars, diskVars, garbage, written>>

-----------------------------------------------------------------------------
(* WriteToTerminal: P, a loop that loads and transmits one character at a  *)
(* time, V.  The transmitter is used by this process alone, so a command   *)
(* and its completion are one step.                                        *)
PrintCall(a) ==
    /\ At(a, "user", "run") /\ "WRITETOTERMINAL" \in Calls[a]
    /\ P(a, Terminal(a))
    /\ i' = [i EXCEPT ![a] = 0]
    /\ GoTo(a, <<"print", "char">>)
    /\ UNCHANGED <<pagerVars, diskVars, garbage, written>>

PrintDone(a) ==
    /\ V(Terminal(a))
    /\ i' = [i EXCEPT ![a] = 0]
    /\ GoTo(a, <<"user", "run">>)
    /\ UNCHANGED <<pagerVars, diskVars, garbage, written>>

(* CHARTRANSMITTED, or an error, which ends the call.                      *)
PrintChar(a) ==
    /\ At(a, "print", "char")
    /\ i[a] + 1 < Len(String) /\ Valid(a, String[i[a] + 1])
    /\ \/ /\ i' = [i EXCEPT ![a] = @ + 1]
          /\ UNCHANGED <<pc, semVars, pagerVars, diskVars, garbage, written>>
       \/ PrintDone(a)

(* *s is a reference, to a character or to the EOS.                         *)
PrintFault(a) ==
    /\ At(a, "print", "char")
    /\ i[a] < Len(String)
    /\ TLBException(a, String[i[a] + 1], <<"print", "char">>)

(* EOS.                                                                    *)
PrintEnd(a) ==
    /\ At(a, "print", "char")
    /\ i[a] + 1 = Len(String) /\ Valid(a, String[i[a] + 1])
    /\ PrintDone(a)

WriteToTerminal(a) == PrintChar(a) \/ PrintFault(a) \/ PrintEnd(a)

-----------------------------------------------------------------------------
ReturnsToUser(a) ==     \* mutant: the SYS2 is missing
    /\ At(a, "exit", "V")
    /\ V(masterSema4)
    /\ GoTo(a, <<"user", "run">>)
    /\ UNCHANGED <<i, pagerVars, diskVars, garbage, written>>

NotCounted(a) ==     \* mutant: the V of masterSema4 is missing
    /\ At(a, "exit", "V")
    /\ GoTo(a, <<"dead", "">>)
    /\ UNCHANGED <<semVars, i, pagerVars, diskVars, garbage, written>>

(* V(masterSema4), then SYS2.  No mutex is released.                       *)
UserTerminate(a) ==
    \/ /\ At(a, "exit", "V")
       /\ V(masterSema4)
       /\ GoTo(a, <<"exit", "SYS2">>)
       /\ UNCHANGED <<i, pagerVars, diskVars, garbage, written>>
    \/ /\ At(a, "exit", "SYS2")
       /\ GoTo(a, <<"dead", "">>)
       /\ UNCHANGED <<semVars, i, pagerVars, diskVars, garbage, written>>

User(a) == Store(a) \/ UserFault(a) \/ UserTrap(a) \/ EmptyCall(a)
           \/ PrintCall(a)
=============================================================================
