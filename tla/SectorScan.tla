----------------------------- MODULE SectorScan ------------------------------
(***************************************************************************)
(* The head of a Ping360 that is scanned by request and reply              *)
(* (Ping360::legacyProfileRequest, deltaStep, angle, setSectorSize,        *)
(* set_angular_speed, and the angle of a DEVICE_DATA message).             *)
(*                                                                         *)
(* Angles are 0 .. Res-1; the centre of the sector is at head = Res/2, the *)
(* angle offset.  A scan goes to and fro between the edges of the sector,  *)
(* or round and round if the sector is the full circle.                    *)
(*                                                                         *)
(* The timer of a profile is shorter than a device may take to answer, so  *)
(* that a request may be repeated while it, or its reply, is on the way:   *)
(* each is answered, in their order, unless it is lost.  A log that is     *)
(* played answers nothing: its profiles come at the angles of the record.  *)
(***************************************************************************)
EXTENDS Integers, Sequences

CONSTANTS Res,        \* _angularResolutionGrad, 400 in the code
          Sectors,    \* the sector sizes a user can choose
          Speeds,     \* the angular speeds a user can choose
          LogAngles,  \* the angles at which a log that is played was recorded
          MaxOnWay,   \* bound: requests that are not answered yet
          MaxChanges  \* bound: changes of the settings

ASSUME ScanAssumption ==
  /\ Res \in Nat \ {0} /\ Res % 2 = 0
  /\ Sectors \subseteq 1..Res /\ Res \in Sectors
  /\ Speeds \subseteq 1..Res /\ Speeds # {}
  /\ LogAngles \subseteq 0..(Res - 1)
  /\ MaxOnWay \in Nat \ {0} /\ MaxChanges \in Nat

VARIABLES head,      \* _angle, the last angle the device reported
          sector,    \* _sectorSize
          speed,     \* _angular_speed
          reverse,   \* _reverse_direction
          target,    \* the angle of the last request
          requests,  \* those not answered yet: the angle, what the profile is
                     \* measured with, and history: the scan is still set so
          fresh,     \* history: the scan is still set as for the last request
          settled,   \* history: and as for the request of the last profile
          changes    \* bound: changes of the settings

vars == <<head, sector, speed, reverse, target, requests, fresh, settled, changes>>

Angle == 0..(Res - 1)
Half  == Res \div 2

\* angle(): where the head is seen from the centre of the sector.
Seen(a) == (a + Half) % Res

\* The angle so many steps from angle a, as -Half .. Half-1 from the centre.
Relative(a, steps) == LET seen == (steps + Seen(a) + Res) % Res
                      IN IF seen >= Half THEN seen - Res ELSE seen

\* Mutant: only the far edge of the sector is looked at.
IsInsideOneEdge(a, steps) == Relative(a, steps) <= sector \div 2

IsInside(a, steps) == Relative(a, steps) \in -(sector \div 2)..(sector \div 2)

\* deltaStep(): the angle that is asked for.
DeltaStep(a, steps) == (a + steps) % Res

\* A step in the direction of the scan.
Forth == IF reverse THEN -speed ELSE speed

Init == /\ head = Half /\ target = Half
        /\ sector = Res /\ speed \in Speeds
        /\ reverse = FALSE /\ requests = <<>>
        /\ fresh = FALSE /\ settled = FALSE
        /\ changes = 0

\* Mutant: a turn is forgotten.
LegacyProfileRequestNoTurn(a) ==
  /\ UNCHANGED reverse
  /\ target' = DeltaStep(a, IF IsInside(a, Forth) THEN Forth
                            ELSE IF IsInside(a, -Forth) THEN -Forth
                            ELSE -Seen(a))

\* Mutant: the direction is turned after the request instead of before it.
LegacyProfileRequestLate(a) ==
  \/ /\ IsInside(a, Forth)
     /\ target' = DeltaStep(a, Forth)
     /\ reverse' = IF IsInside(a, 2 * Forth) THEN reverse ELSE ~reverse
  \/ /\ ~IsInside(a, Forth)
     /\ target' = DeltaStep(a, IF IsInside(a, -Forth) THEN -Forth ELSE -Seen(a))
     /\ reverse' = ~reverse

\* legacyProfileRequest() with the head at a: a step on, or the first step
\* back, or to the centre when neither stays in the sector.
LegacyProfileRequest(a) ==
  \/ /\ IsInside(a, Forth)
     /\ target' = DeltaStep(a, Forth) /\ UNCHANGED reverse
  \/ /\ ~IsInside(a, Forth) /\ IsInside(a, -Forth)
     /\ target' = DeltaStep(a, -Forth) /\ reverse' = ~reverse
  \/ /\ ~IsInside(a, Forth) /\ ~IsInside(a, -Forth)
     /\ target' = DeltaStep(a, -Seen(a)) /\ UNCHANGED reverse

-----------------------------------------------------------------------------
\* The next profile is asked for with the head at a, behind those that are
\* asked for already; it will be measured with m.
Ask(a, before, m) ==
  /\ LegacyProfileRequest(a)
  /\ requests' = Append(before, [angle |-> target', measured |-> m, current |-> TRUE])
  /\ fresh' = TRUE

\* A profile arrives: handleMessage(DEVICE_DATA).
DeviceData(m) ==
  /\ requests # <<>>
  /\ head' = Head(requests).angle /\ settled' = Head(requests).current
  /\ Ask(head', Tail(requests), m)
  /\ UNCHANGED <<sector, speed, changes>>

\* So does one of a log, at whatever angle it was recorded; the next request
\* is made, too, but its link is not writable.
RecordedData ==
  /\ head' \in LogAngles /\ settled' = FALSE
  /\ LegacyProfileRequest(head') /\ fresh' = TRUE
  /\ UNCHANGED <<sector, speed, requests, changes>>

\* The timer asks again, whether or not a reply is still to come.
ProfileTimeout(m) ==
  /\ Len(requests) < MaxOnWay
  /\ Ask(head, requests, m)
  /\ UNCHANGED <<head, sector, speed, settled, changes>>

\* The oldest request or its reply is lost.  (Whether a later one is shows
\* only when it would be its turn.)
Lose == /\ requests # <<>>
        /\ requests' = Tail(requests)
        /\ UNCHANGED <<head, sector, speed, reverse, target, fresh, settled, changes>>

\* The scan is not set any more as it was for any of the requests.
Outdate == /\ requests' = [i \in DOMAIN requests |-> [requests[i] EXCEPT !.current = FALSE]]
           /\ fresh' = FALSE /\ settled' = FALSE

\* "Reset reverse direction when back to full scan"
SetSectorSize(s) == /\ s # sector /\ changes < MaxChanges
                    /\ sector' = s
                    /\ reverse' = (reverse /\ s # Res)
                    /\ Outdate
                    /\ changes' = changes + 1
                    /\ UNCHANGED <<head, speed, target>>

SetAngularSpeed(s) == /\ s # speed /\ changes < MaxChanges
                      /\ speed' = s
                      /\ Outdate
                      /\ changes' = changes + 1
                      /\ UNCHANGED <<head, sector, reverse, target>>

-----------------------------------------------------------------------------
TypeOK == /\ head \in Angle /\ target \in Angle
          /\ sector \in Sectors /\ speed \in Speeds
          /\ reverse \in BOOLEAN /\ fresh \in BOOLEAN /\ settled \in BOOLEAN
          /\ Len(requests) \in 0..MaxOnWay
          /\ changes \in 0..MaxChanges

InSector(a) == Relative(a, 0) \in -(sector \div 2)..(sector \div 2)

\* What is asked for lies in the sector the user chose, wherever the head was
\* left by the settings before; and once a reply to it has come, so does the
\* head, through late replies and repeated requests.
StaysInSector == /\ fresh => InSector(target)
                 /\ settled => InSector(head)
                 /\ \A i \in DOMAIN requests :
                      requests[i].current => InSector(requests[i].angle)

\* What stands is what would be asked for now, and the direction is turned
\* already: the inductive part of AskedAgainAlike.
RequestStands ==
  fresh => \/ IsInside(head, Forth) /\ target = DeltaStep(head, Forth)
           \/ /\ ~IsInside(head, Forth) /\ ~IsInside(head, -Forth)
              /\ target = DeltaStep(head, -Seen(head))

\* Asking again asks for the same angle: a request that is lost at an edge of
\* the sector does not turn the scan a second time.
AskedAgainAlike ==
  [][fresh /\ fresh' /\ head' = head /\ changes' = changes
       => target' = target]_vars

\* The edges of the sector: a step further would leave it or pass its back.
Ahead(a) == Relative(a, 0) + speed > sector \div 2
            \/ Relative(a, 0) + speed >= Half
Behind(a) == Relative(a, 0) - speed < -(sector \div 2)
             \/ Relative(a, 0) - speed < -Half

\* A full circle is scanned in one direction.
FullCircleForward == sector = Res => ~reverse
=============================================================================
