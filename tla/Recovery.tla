------------------------------ MODULE Recovery ------------------------------
(***************************************************************************)
(* The way out of every state the material can get into.  One process of   *)
(* LocalTLS is the operator who keeps the machine provisioned and does     *)
(* what the error of ProvisionMachine says (composition_windows.go:56-60): *)
(* after an error "a full re-provisioning cleanup", then ProvisionMachine  *)
(* again.  The other processes call what they like.                        *)
(***************************************************************************)
EXTENDS LocalTLS

CONSTANTS
  Operator,  \* the process of the operator
  FreeCalls, \* bound: calls that answer no error are among the first FreeCalls
  MaxFaultsInCompany, MaxTimeInCompany  \* bounds: as MaxFaults and MaxTime,
                                        \* while others call

ASSUME OperatorAssumption ==
  /\ Operator \in Proc
  /\ FreeCalls \in Nat /\ MaxFaultsInCompany \in Nat /\ MaxTimeInCompany \in Nat

VARIABLES
  todo,   \* what the operator does next
  others  \* who else calls: nobody, or all other processes

rvars == <<vars, todo, others>>

RecoveryInit ==
  /\ Init
  /\ todo = "provision"
  /\ others \in {{}, Proc \ {Operator}}

\* The entry points that do what is to be done.
Does(task) == CASE task = "provision" -> {"ProvisionMachine"}
                [] task = "clean up"  -> {"CleanupMachine", "CleanupMachineBySHA256"}
                [] task = "serve"     -> {}

OperatorBegins ==
  /\ Begin(Operator)
  /\ op'[Operator] \in Does(todo)
  /\ UNCHANGED todo

\* An error of ProvisionMachine calls for a cleanup.  A cleanup, whatever it
\* reports, is followed by another attempt.
OperatorFinishes ==
  /\ Finish(Operator)
  /\ todo' = CASE todo = "clean up"    -> "provision"
               [] pc[Operator] = "err" -> "clean up"
               [] OTHER                -> "serve"

\* The machine has served for some time and is provisioned again, to renew.
OperatorReturns ==
  /\ todo = "serve" /\ calls < FreeCalls
  /\ todo' = "provision"
  /\ UNCHANGED vars

\* A call of the operator's goes on; when it died, the operator repeats it.
OperatorCalls == (Step(Operator) \/ Crash(Operator)) /\ UNCHANGED todo

OtherProcess(p) ==
  /\ \/ calls < FreeCalls /\ Begin(p)
     \/ Step(p) \/ Finish(p) \/ Crash(p)
  /\ UNCHANGED todo

Outside == (SetClock \/ Damaged) /\ UNCHANGED todo

RecoveryNext ==
  /\ \/ OperatorBegins \/ OperatorFinishes \/ OperatorReturns \/ OperatorCalls
     \/ \E p \in others : OtherProcess(p)
     \/ Outside
  /\ others # {} => faults' <= MaxFaultsInCompany /\ now' <= MaxTimeInCompany
  /\ UNCHANGED others

\* The operating system runs every process, and the operator does not give up.
RecoverySpec ==
  /\ RecoveryInit /\ [][RecoveryNext]_rvars
  /\ WF_rvars(OperatorBegins /\ UNCHANGED others)
  /\ WF_rvars(OperatorFinishes /\ UNCHANGED others)
  /\ \A p \in Proc : WF_rvars(Step(p) /\ UNCHANGED <<todo, others>>)

--------------------------------------------------------------------------
(* Properties *)

\* Whatever is damaged, fails or dies, once that ends the operator gets a
\* Material: no state is a dead end for a cleanup followed by
\* ProvisionMachine, and the two never chase each other for ever.
OperatorSucceeds == (todo # "serve") ~> (todo = "serve")
=============================================================================
