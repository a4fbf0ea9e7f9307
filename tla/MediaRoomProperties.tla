------------------------ MODULE MediaRoomProperties ------------------------
(* What the media service promises the people in a room.                    *)
EXTENDS MediaRoom

Still == \A t \in Tasks : Awaits(t, "free")

\* Routers that a later join overwrote in localRooms: releaseRoom finds them no
\* more, and they run until the process ends.
Overwritten(i) == running[i] \ {router[i]}
\* Two connections of the instance joined while another handler ran.
Overlapped(i) ==
  \E s, r \in crossed : s # r /\ link[s].inst = i /\ link[r].inst = i

(* The last one out releases the router (removeSession, releaseRoom), however *)
(* joins, leaves, kicks, teardowns and disconnects interleave. Where nobody  *)
(* is listed (roomMembers) and nothing runs, a router still runs only if the *)
(* last member joined another room, which releases nothing, or if two joins  *)
(* overlapped and one overwrote the router of the other in localRooms.       *)
EmptyRoomClosed ==
  \A i \in Instances :
    MediaIdle(i) /\ members[i] = {} =>
      /\ router[i] \in running[i] => i \in deserted
      /\ Overwritten(i) # {} => Overlapped(i)

(* A socket that is gone leaves no session behind, unless it went while its  *)
(* own join was running: join never asks whether the socket is still there.  *)
OnlyOrphansStay ==
  \A i \in Instances, u \in Users :
    LET s == present[i][u]
    IN  Still /\ s # None /\ link[s].state = "closed" => s \in orphans

\* All connections of the room went to this instance.
OnlyInstance(i) == \A s \in Sockets : link[s].inst \in {i, None}

(* On the instance that owns the room, or that all connections go to, whoever *)
(* joined while no other handler joined, left or released has a router:      *)
(* releaseRoom closes none under a member, and getOrCreateLocalRoom hands    *)
(* out none that is closed.                                                  *)
OwnerServesMembers ==
  \A i \in Instances, u \in Users :
    LET s == present[i][u]
    IN  /\ Still /\ s # None /\ s \notin crossed
        /\ owner = i \/ OnlyInstance(i)
        => router[i] # 0

(* Two members whose joins crossed nothing can hear each other: what they    *)
(* send and receive is on one router, although localRooms is overwritten by  *)
(* whoever creates last. A room that connections of two instances fight for  *)
(* promises less: it may lose its router, and get two.                       *)
SameRouter ==
  \A i \in Instances, u, v \in Users :
    LET s == present[i][u]
        r == present[i][v]
    IN  /\ OnlyInstance(i)
        /\ s # None /\ s \notin crossed /\ transport[s] # 0
        /\ r # None /\ r \notin crossed /\ transport[r] # 0
        => transport[s] = transport[r]

\* A member of the room that is connected no more: an orphan, or one whose
\* session was deleted by what ended in another room.
Forgotten(i) ==
  \E u \in members[i] : present[i][u] \in orphans \cup {None}

(* When the connections have ended, so has the room: all its routers are     *)
(* closed in the end. Those that overlapping joins overwrote are not, and    *)
(* the room's own is kept by a member who is only listed, and where the last *)
(* member joined another room.                                               *)
RoomEnds ==
  \A i \in Instances :
    running[i] # {} ~> \/ running[i] = {}
                       \/ running[i] = Overwritten(i) /\ Overlapped(i)
                       \/ Forgotten(i) \/ i \in deserted

(* guest-trial-architecture.md lists as accepted: rejoin of the same room    *)
(* after a brief disconnect works. Whoever is joined on the only connection  *)
(* that is left has the session.                                             *)
RejoinWorks ==
  \A s \in Sockets :
    LET u == link[s].user
        only == \A r \in Sockets \ {s} : link[r].user = u => link[r].state \in {"new", "closed"}
    IN  /\ Still /\ webhooks = 0 /\ moves = 0 /\ crashes = 0 /\ orphans = {}
        /\ link[s].state \in {"joined", "ready"} /\ only
        => present[link[s].inst][u] = s

=============================================================================
