--------------------------- MODULE ServicesProofs ---------------------------
(***************************************************************************)
(* The services side by side.  IntakeProofs, PlatformProofs and            *)
(* CommerceProofs prove each component over the shared specification, in   *)
(* which one component is chosen at the start and only its module steps;   *)
(* here their type invariants are put together.                            *)
(***************************************************************************)
EXTENDS IntakeProofs, PlatformProofs, CommerceProofs

\* Whatever component a behaviour is of, every variable of it keeps its type
\* and every record the code writes is one its readers can take.
THEOREM TypeCorrect == Spec => []TypeOK
<1>1. /\ Media!TypeOK /\ Domain!TypeOK /\ Study!TypeOK /\ Queue!TypeOK /\ Market!TypeOK
      /\ Scheduler!TypeOK /\ Broker!TypeOK /\ Api!TypeOK
      /\ Buyer!TypeOK /\ Thread!TypeOK /\ Upkeep!TypeOK /\ Dispatch!TypeOK
      /\ Arithmetic!TypeOK /\ Remote!TypeOK
      => TypeOK
  BY DEF TypeOK
<1>. QED
  BY <1>1, MediaTypeCorrect, DomainTypeCorrect, StudyTypeCorrect, QueueTypeCorrect,
     MarketTypeCorrect, SchedulerTypeCorrect, BrokerTypeCorrect, ApiTypeCorrect,
     BuyerTypeCorrect, ThreadTypeCorrect, UpkeepTypeCorrect, DispatchTypeCorrect,
     ArithmeticTypeCorrect, RemoteTypeCorrect, PTL
=============================================================================
