----------------------------- MODULE MCPlatform -----------------------------
(***************************************************************************)
(* The platform's three parts above Execution, each on its own: the        *)
(* transport under BandLink, a room's membership, and the AgentRuntime's   *)
(* rooms.  A behaviour is one of the part the initial state picks.         *)
(***************************************************************************)
EXTENDS Transport, RoomMembership, AgentRooms

VARIABLE part

platformVars == <<part, transportVars, membershipVars, roomsVars>>

PlatformInit ==
  /\ part \in {"transport", "membership", "rooms"}
  /\ TransportInit /\ MembershipInit /\ AgentRoomsInit

TransportPart ==
  /\ part = "transport" /\ TransportNext
  /\ UNCHANGED <<part, membershipVars, roomsVars>>
MembershipPart ==
  /\ part = "membership" /\ MembershipNext
  /\ UNCHANGED <<part, transportVars, roomsVars>>
RoomsPart ==
  /\ part = "rooms" /\ AgentRoomsNext
  /\ UNCHANGED <<part, transportVars, membershipVars>>

PlatformNext == TransportPart \/ MembershipPart \/ RoomsPart

PlatformSpec == PlatformInit /\ [][PlatformNext]_platformVars /\ TransportFairness

\* Events reach the room after the catch-up their socket owes it, and none outlives the
\* session it came over.
EventsFollowTheirSession == CatchUpFirst /\ NothingOutlivesItsSession

\* A stop of the runtime reaches every room: those it has, and those a start it
\* overtook has joined or still joins.
StopsReachEveryRoom == RoomsEndWithTheStop /\ StopReachesJoiningRooms
=============================================================================
