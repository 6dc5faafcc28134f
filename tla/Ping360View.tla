------------------------------ MODULE Ping360View -----------------------------
(***************************************************************************)
(* What a Ping360 shows: the scan of SectorScan together with the settings *)
(* that make up the range (ping360.h: set_range, set_speed_of_sound,       *)
(* adjustTransmitDuration; ping360.cpp: calculateSamplePeriod,             *)
(* resetSettings, and the branch for a NACK) and the polar plot that draws *)
(* the profiles (polarplot.cpp).                                           *)
(*                                                                         *)
(* A profile is measured with the settings of its request and drawn with   *)
(* those of the moment it arrives; the plot is cleared when the range or   *)
(* the sector changes.  Numbers are the program's: ticks of 25 ns,         *)
(* microseconds, metres and metres per second.  What the doubles of the    *)
(* code round is rounded exactly here.                                     *)
(***************************************************************************)
EXTENDS SectorScan, FiniteSetsExt

CONSTANTS Ranges,     \* the ranges of the slider, in metres
          Sounds,     \* speeds of sound of the slider, in m/s
          Durations,  \* transmit durations a user tries
          Recordings  \* ranges at which a log that is played was recorded

ASSUME ViewAssumption ==
  /\ Ranges \subseteq 1..60
  /\ Sounds \subseteq 1450..1550
  /\ Durations \subseteq 5..500
  /\ Recordings \subseteq 1..60

VARIABLES settings,  \* num_points, sample_period, _speed_of_sound, transmit_duration
          chosen,    \* history: the range that was chosen last
          recorded,  \* the range of the log, or None with a device
          distances, \* _distances
          maxDistance,
          old,       \* history: profiles of other settings drawn since clear()
          late       \* history: requests that were on the way at that moment

range == <<settings, chosen>>
plot  == <<distances, maxDistance, old, late>>
view  == <<vars, range, recorded, plot>>

None == 0

FirmwareMaxNumberOfPoints   == 1200
FirmwareMinSamplePeriod     == 80
FirmwareMaxTransmitDuration == 500
FirmwareMinTransmitDuration == 5
MaxSamplePeriod             == 65535   \* of its 16 bits
SoundSpeeds == 1450..1550
ViewerDefault == [points |-> 1200, period |-> 88, sound |-> 1500, duration |-> 11]
ViewerDefaultRange == 2

\* The part of the settings that a profile carries and its range depends on.
Measured(s) == [points |-> s.points, period |-> s.period]

\* a * b \div m, in parts that fit TLC's integers.
TimesOver(a, b, m) == b * (a \div m) + (b * (a % m)) \div m

\* range() in millimetres, in metres as round() makes them, and whether it is
\* exactly d metres.
Millimetres(s) == TimesOver(s.points * s.sound, s.period, 80000)
Metres(s)      == (Millimetres(s) + 500) \div 1000
IsRange(s, d)  == /\ Millimetres(s) = 1000 * d
                  /\ (s.period * ((s.points * s.sound) % 80000)) % 80000 = 0

\* calculateSamplePeriod()
SamplePeriod(d, n, c) ==
  LET p == TimesOver(80000000, d, n * c)
  IN IF p > MaxSamplePeriod THEN ViewerDefault.period ELSE p

TransmitDurationMax(s) == Min({FirmwareMaxTransmitDuration, (s.period * 8) \div 5})

\* adjustTransmitDuration() in automatic mode.  (Its second step multiplies
\* seconds as if they were nanoseconds and never has an effect.)
AdjustTransmitDuration(s) ==
  LET auto == (s.period * s.points + 5000) \div 10000
  IN [s EXCEPT !.duration =
        Max({FirmwareMinTransmitDuration, Min({TransmitDurationMax(s), auto})})]

\* The points that d metres take with the least sample period.
MostPoints(d, c) == (1000000 * d) \div c

\* The most points up to n with which the sample period for d metres is one
\* the firmware can do: the loops of set_range() and set_speed_of_sound().
WithRange(d, n, c, s) ==
  LET points == Min({n, MostPoints(d, c)})
  IN AdjustTransmitDuration([points |-> points, period |-> SamplePeriod(d, points, c),
                             sound |-> c, duration |-> s.duration])

\* What the profiles of the log were measured with.
Record == Measured(WithRange(recorded, FirmwareMaxNumberOfPoints, ViewerDefault.sound,
                             ViewerDefault))

ViewInit == /\ Init
            /\ settings = [ViewerDefault EXCEPT !.duration = 32]
            /\ chosen = ViewerDefaultRange
            /\ recorded \in Recordings \cup {None}
            /\ distances = [a \in Angle |-> 0]
            /\ maxDistance = 0
            /\ old = 0 /\ late = 0

-----------------------------------------------------------------------------
\* Mutant: the distances are kept.
ClearKeepsDistances(n) == /\ old' = 0 /\ late' = n
                          /\ UNCHANGED <<distances, maxDistance>>

\* PolarPlot::clear(), on rangeChanged and sectorSizeChanged, with n requests
\* on the way.
Clear(n) == /\ old' = 0 /\ late' = n
            /\ distances' = [a \in Angle |-> 0] /\ maxDistance' = 0

\* draw() of a profile measured with m and seen at angle a, at the range of the
\* settings.  (The colours of its columns are left out.)
Draw(a, m) ==
  /\ distances' = [distances EXCEPT ![a] = Millimetres(settings)]
  /\ maxDistance' = Max({distances'[x] : x \in Angle})
  /\ old' = IF m = Measured(settings) THEN old ELSE Min({MaxOnWay + 1, old + 1})
  /\ UNCHANGED late

\* A profile measured with m has moved the head: it is drawn if it lies in the
\* sector.
Arrived(m) == /\ IF InSector(head') THEN Draw(Seen(head'), m) ELSE UNCHANGED plot
              /\ UNCHANGED <<range, recorded>>

\* Mutant: a profile that arrives overwrites the settings of the next request.
ShowOverwrites ==
  /\ recorded = None
  /\ DeviceData(Head(requests).measured)
  /\ Arrived(Head(requests).measured)

\* handleMessage(DEVICE_DATA): the next profile is requested, with the settings
\* of this moment, then this one is drawn.
Show == /\ recorded = None
        /\ DeviceData(Measured(settings))
        /\ Arrived(Head(requests).measured)

\* From a log, whose link is not writable, settings would be taken over only
\* where they are those of the viewer already: nothing changes.
ShowRecord == /\ recorded # None
              /\ RecordedData
              /\ Arrived(Record)

AskAgain == /\ recorded = None
            /\ ProfileTimeout(Measured(settings))
            /\ UNCHANGED <<range, recorded, plot>>

LoseOne == Lose /\ UNCHANGED <<range, recorded, plot>>

\* "transducer control was NACKED, reverting to default settings"
Nack == /\ recorded = None /\ requests # <<>> /\ changes < MaxChanges
        /\ changes' = changes + 1
        /\ settings' = [ViewerDefault EXCEPT !.sound = settings.sound]
        /\ chosen' = ViewerDefaultRange
        /\ Ask(head, Tail(requests), Measured(settings'))
        /\ Clear(Len(requests) - 1)
        /\ UNCHANGED <<head, sector, speed, settled, recorded>>

\* A change of the settings by the user, who leaves the scan alone.
Change(s) == /\ changes < MaxChanges /\ changes' = changes + 1
             /\ settings' = s
             /\ UNCHANGED <<head, sector, speed, reverse, target, requests, fresh,
                            settled, recorded>>

\* set_range()
SetRange(d) == /\ ~IsRange(settings, d)
               /\ Change(WithRange(d, FirmwareMaxNumberOfPoints, settings.sound, settings))
               /\ chosen' = d
               /\ Clear(Len(requests))

\* Mutant: the range is what the new speed makes of the old settings.
SetSpeedOfSoundKeepsPeriod(c) ==
  /\ c # settings.sound
  /\ Change([settings EXCEPT !.sound = c])
  /\ UNCHANGED chosen /\ Clear(Len(requests))

\* set_speed_of_sound(): the range stays, and with it the number of points at
\* most what it was.
SetSpeedOfSound(c) ==
  /\ c # settings.sound
  /\ Change(WithRange(Metres(settings), settings.points, c, settings))
  /\ UNCHANGED chosen /\ Clear(Len(requests))

\* set_transmit_duration() from its slider, which goes up to the maximum.
SetTransmitDuration(t) ==
  /\ t # settings.duration /\ t <= TransmitDurationMax(settings)
  /\ Change([settings EXCEPT !.duration = t])
  /\ UNCHANGED <<chosen, plot>>

\* resetSettings(), which ends with set_range().
ResetSettings == /\ Change(AdjustTransmitDuration(ViewerDefault))
                 /\ chosen' = ViewerDefaultRange
                 /\ Clear(Len(requests))

ChooseSector(s) == SetSectorSize(s) /\ Clear(Len(requests)) /\ UNCHANGED <<range, recorded>>
ChooseSpeed(s)  == SetAngularSpeed(s) /\ UNCHANGED <<range, recorded, plot>>

ViewNext == \/ Show \/ ShowRecord \/ AskAgain \/ LoseOne \/ Nack \/ ResetSettings
            \/ \E d \in Ranges : SetRange(d)
            \/ \E c \in Sounds : SetSpeedOfSound(c)
            \/ \E t \in Durations : SetTransmitDuration(t)
            \/ \E s \in Sectors : ChooseSector(s)
            \/ \E s \in Speeds : ChooseSpeed(s)

\* The timer runs, and a device answers now and then.
ViewSpec == ViewInit /\ [][ViewNext]_view /\ WF_view(AskAgain) /\ SF_view(Show)

-----------------------------------------------------------------------------
\* The settings that can come about: the fewest points are those for one metre
\* at the greatest speed of sound.
MinPoints == 645
SettingsSet ==
  [points: MinPoints..FirmwareMaxNumberOfPoints,
   period: FirmwareMinSamplePeriod..MaxSamplePeriod,
   sound: SoundSpeeds,
   duration: FirmwareMinTransmitDuration..FirmwareMaxTransmitDuration]

SettingsType == settings \in SettingsSet /\ chosen \in Ranges \cup {ViewerDefaultRange}

MeasuredSet == [points: MinPoints..FirmwareMaxNumberOfPoints,
                period: FirmwareMinSamplePeriod..MaxSamplePeriod]

\* A distance was measured at the range of the settings, or is none.
DistancesInv == distances \in [Angle -> {0, Millimetres(settings)}]

\* With a device: the requests that were made since the last clear() carry the
\* settings of now, so that only those that were on the way at that moment can
\* bring a profile of others.
OldInv == /\ old \in 0..(MaxOnWay + 1) /\ late \in 0..MaxOnWay
          /\ recorded = None =>
               /\ old <= late
               /\ \A i \in DOMAIN requests :
                    i > late - old => requests[i].measured = Measured(settings)

RequestsType == /\ requests \in Seq([angle: Angle, measured: MeasuredSet, current: BOOLEAN])
                /\ recorded # None => requests = <<>>

\* The invariants of the state, which are inductive together with the three
\* properties below.
Inv == /\ TypeOK /\ StaysInSector /\ FullCircleForward /\ RequestStands
       /\ SettingsType /\ RequestsType /\ DistancesInv /\ OldInv
       /\ recorded \in Recordings \cup {None}

\* "we adjust _speed_of_sound, without affecting the current range setting"
\* (ping360.h): whatever is changed, reset or rejected in whatever order, the
\* range in whole metres is the one that was chosen last, the sample period one
\* the firmware can do, and the pulse neither longer than the hardware stands
\* nor shorter than the least.
RangeIsTheChosen ==
  /\ Metres(settings) = chosen
  /\ settings.period >= FirmwareMinSamplePeriod
  /\ settings.duration \in FirmwareMinTransmitDuration..TransmitDurationMax(settings)

\* The scale of the plot is the range of the settings: no distance of an
\* earlier range or of an angle that has left the sector lingers in it.
ScaleIsTheRange == maxDistance \in {0, Millimetres(settings)}

\* With a device, no more profiles are drawn at a range they were not measured
\* with than were on the way when the plot was cleared, however often they are
\* asked for again; the comment on Ping360Settings (ping360.h) fears that old
\* settings stay.
OnlyLateOnesAreOld == recorded = None => old <= late

\* The scan of a device covers its sector: with settled settings both edges are
\* reached again and again, through late and lost replies.
CoversSector == recorded = None => []<>Ahead(head) /\ []<>Behind(head)

\* "This properties are changed internally only when the link is not writable"
\* (ping360.cpp:411): profiles of a log are shown at the range of the log.
LogShownAsRecorded == recorded # None => old = 0
=============================================================================
