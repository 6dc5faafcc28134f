------------------------------- MODULE Playback -------------------------------
(***************************************************************************)
(* The playback of a log: ProcessLog::run() on a thread of its own and the *)
(* interface thread, which pauses, starts, seeks, changes the replay speed *)
(* and at last stops it.  They share five atomic variables and no lock;    *)
(* every step reads or writes one of them, and whatever touches none of    *)
(* them is part of the step before.                                        *)
(*                                                                         *)
(* FileLink starts the thread when the log has been read, so the packages  *)
(* do not change.  Time is counted in the 10 ms for which the thread       *)
(* sleeps at once.                                                         *)
(***************************************************************************)
EXTENDS Integers

CONSTANTS Size,      \* packages in the log
          Time,      \* their times
          Replay,    \* the replay times that can be set: 0 is real time
          MaxCalls   \* bound: calls of the interface

\* The loop reads the first package before it looks at the size.
ASSUME PlaybackAssumption ==
  /\ Size \in Nat \ {0} /\ MaxCalls \in Nat
  /\ Replay \subseteq Nat /\ Replay # {}
  /\ Time \in [0..(Size - 1) -> Int]

VARIABLES index, play, replay, sleep, stop,   \* _logIndex, _play, ...
          pc,       \* where the thread is; "off" when run() has returned
          data,     \* the package that run() is sending
          lastTime, \* lastMSecs
          wait,     \* diffMSecs
          next,     \* the value that is to be stored in _sleepTime
          gui,      \* what the interface thread does next
          target,   \* the argument of its call
          due,      \* history: the packages that may be read next
          calls

shared == <<index, play, replay, sleep, stop>>
local  == <<data, lastTime, wait, next>>
caller == <<gui, target, calls>>
playbackVars == <<shared, pc, local, caller, due>>

Packages == 0..(Size - 1)

Next1(i) == IF i + 1 < Size THEN i + 1 ELSE 0

Min2(a, b) == IF a < b THEN a ELSE b

PlaybackInit ==
    /\ index = 0 /\ play = TRUE /\ replay \in Replay /\ sleep = 0
    /\ stop = FALSE
    /\ pc = "top" /\ data = 0 /\ lastTime = 0 /\ wait = 0 /\ next = 0
    /\ gui = "idle" /\ target = 0 /\ calls = 0
    /\ due = {0}

-----------------------------------------------------------------------------
\* run()

At(here, there) == pc = here /\ pc' = there

\* while (!_stop)
Top == /\ pc = "top"
       /\ pc' = IF stop THEN "off" ELSE "play"
       /\ UNCHANGED <<shared, local, due>>

\* Mutant: a paused thread does not look at the flag.
CheckPlayOnly == /\ pc = "play"
                 /\ pc' = IF play THEN "read" ELSE "play"
                 /\ UNCHANGED <<shared, local, due>>

\* A paused thread does nothing more.
CheckPlay == /\ pc = "play"
             /\ pc' = IF play THEN "read" ELSE "top"
             /\ UNCHANGED <<shared, local, due>>

ReadData == /\ At("read", "time")
            /\ data' = index
            /\ due' = {Next1(index)}
            /\ UNCHANGED <<shared, lastTime, wait, next>>

\* The index is read again, for the time and for packageIndexChanged().
ReadTime == /\ At("time", "advance")
            /\ lastTime' = Time[index]
            /\ UNCHANGED <<shared, data, wait, next, due>>

\* Mutant: the index is set to what follows the package that was sent.
AdvanceFromData == /\ At("advance", "bound")
                   /\ index' = data + 1
                   /\ UNCHANGED <<play, replay, sleep, stop, local, due>>

Advance == /\ At("advance", "bound")
           /\ index' = index + 1
           /\ UNCHANGED <<play, replay, sleep, stop, local, due>>

\* Mutant: off by one.
BoundLate == /\ pc = "bound"
             /\ pc' = IF index > Size THEN "rewind" ELSE "diff"
             /\ UNCHANGED <<shared, local, due>>

Bound == /\ pc = "bound"
         /\ pc' = IF index >= Size THEN "rewind" ELSE "diff"
         /\ UNCHANGED <<shared, local, due>>

Rewind == /\ At("rewind", "halt")
          /\ index' = 0
          /\ UNCHANGED <<play, replay, sleep, stop, local, due>>

\* Mutant: the log starts again.
HaltNot == At("halt", "top") /\ UNCHANGED <<shared, local, due>>

Halt == /\ At("halt", "top")
        /\ play' = FALSE
        /\ UNCHANGED <<index, replay, sleep, stop, local, due>>

\* A package with an earlier time than the last is warned of and not waited for.
Diff == /\ pc = "diff"
        /\ wait' = Time[index] - lastTime
        /\ pc' = IF wait' < 0 THEN "previous" ELSE "choose"
        /\ UNCHANGED <<shared, data, lastTime, next, due>>

\* The warning reads the time at _logIndex - 1, ...
WarnPrevious == At("previous", "current") /\ UNCHANGED <<shared, local, due>>

\* ... and then the time at _logIndex.
WarnCurrent == At("current", "top") /\ UNCHANGED <<shared, local, due>>

\* _sleepTime is the replay time or the difference, whichever is set, ...
Choose == /\ pc = "choose"
          /\ IF replay # 0 THEN pc' = "replay" /\ UNCHANGED next
                           ELSE pc' = "store" /\ next' = wait
          /\ UNCHANGED <<shared, data, lastTime, wait, due>>

LoadReplay == /\ At("replay", "store")
              /\ next' = replay
              /\ UNCHANGED <<shared, data, lastTime, wait, due>>

Store == /\ At("store", "limit")
         /\ sleep' = next
         /\ UNCHANGED <<index, play, replay, stop, local, due>>

\* ... but no more than the difference.
Limit == /\ At("limit", "shorten")
         /\ next' = Min2(sleep, wait)
         /\ UNCHANGED <<shared, data, lastTime, wait, due>>

Shorten == /\ At("shorten", "loop")
           /\ sleep' = next
           /\ UNCHANGED <<index, play, replay, stop, local, due>>

\* Mutant: the wait ends at exactly zero.
LoopToZero == /\ pc = "loop"
              /\ pc' = IF sleep # 0 THEN "nap" ELSE "top"
              /\ UNCHANGED <<shared, local, due>>

Loop == /\ pc = "loop"
        /\ pc' = IF sleep > 0 THEN "nap" ELSE "top"
        /\ UNCHANGED <<shared, local, due>>

Nap == /\ At("nap", "loop")
       /\ sleep' = sleep - 1
       /\ UNCHANGED <<index, play, replay, stop, local, due>>

Thread == /\ \/ Top \/ CheckPlay \/ ReadData \/ ReadTime \/ Advance \/ Bound
             \/ Rewind \/ Halt \/ Diff \/ WarnPrevious \/ WarnCurrent
             \/ Choose \/ LoadReplay \/ Store \/ Limit \/ Shorten \/ Loop \/ Nap
          /\ UNCHANGED caller

-----------------------------------------------------------------------------
\* The interface thread: each call is a few stores, one after the other.

Begin == gui = "idle" /\ calls < MaxCalls /\ calls' = calls + 1

Pause == /\ Begin /\ play' = FALSE
         /\ UNCHANGED <<index, replay, sleep, stop, gui, target, due>>

Start == /\ Begin /\ play' = TRUE /\ gui' = "unstop"
         /\ UNCHANGED <<index, replay, sleep, stop, target, due>>

\* start(), second store
Unstop == /\ gui = "unstop" /\ stop' = FALSE /\ gui' = "wake"
          /\ UNCHANGED <<index, play, replay, sleep, target, calls, due>>

\* The last store of start(), setPackageIndex() and setReplayTimeMs().
Wake == /\ gui = "wake" /\ sleep' = 0 /\ gui' = "idle"
        /\ UNCHANGED <<index, play, replay, stop, target, calls, due>>

\* setPackageIndex(k), k from the slider: 0..packageSize()
Seek(k) == /\ Begin /\ index < Size
           /\ gui' = "seek" /\ target' = k
           /\ UNCHANGED <<shared, due>>

\* The store.  A thread that has not yet counted the package that it sends
\* goes on with the one after k, and one that is about to rewind with the first.
SeekTo == /\ gui = "seek" /\ index' = target /\ gui' = "wake"
          /\ due' = IF pc = "rewind" THEN {0} ELSE {target, Next1(target)}
          /\ UNCHANGED <<play, replay, sleep, stop, target, calls>>

SetReplayTime(ms) == /\ Begin /\ replay' = ms /\ gui' = "wake"
                     /\ UNCHANGED <<index, play, sleep, stop, target, due>>

\* finishConnection(): stop, quit, and wait for the thread.
Finish == /\ gui = "idle" /\ stop' = TRUE /\ gui' = "waiting"
          /\ UNCHANGED <<index, play, replay, sleep, target, calls, due>>

Finished == /\ gui = "waiting" /\ pc = "off" /\ gui' = "done"
            /\ UNCHANGED <<shared, target, calls, due>>

Gui == /\ \/ Pause \/ Start \/ Unstop \/ Wake \/ SeekTo \/ Finish \/ Finished
          \/ \E k \in Packages : Seek(k)
          \/ \E ms \in Replay : SetReplayTime(ms)
       /\ UNCHANGED <<pc, local>>

PlaybackNext == Thread \/ Gui

\* Both threads run; whether the user ever closes the log is up to the user.
PlaybackFairness ==
    /\ WF_playbackVars(Thread)
    /\ WF_playbackVars((Unstop \/ Wake \/ SeekTo \/ Finished) /\ UNCHANGED <<pc, local>>)

PlaybackSpec == PlaybackInit /\ [][PlaybackNext]_playbackVars /\ PlaybackFairness

-----------------------------------------------------------------------------
PlaybackTypeOK ==
    /\ index \in 0..Size /\ play \in BOOLEAN /\ replay \in Replay
    /\ sleep \in Int /\ sleep >= -1 /\ stop \in BOOLEAN
    /\ pc \in {"top", "play", "read", "time", "advance", "bound", "rewind", "halt",
               "diff", "previous", "current", "choose", "replay", "store", "limit",
               "shorten", "loop", "nap", "off"}
    /\ data \in Packages /\ lastTime \in Int /\ wait \in Int
    /\ next \in Int /\ next >= -1
    /\ gui \in {"idle", "unstop", "wake", "seek", "waiting", "done"}
    /\ target \in Packages /\ due \subseteq Packages
    /\ calls \in 0..MaxCalls

\* A seek to the first package since the thread has read one.
SoughtFirst == due = {0, Next1(0)}

\* run() reads the log only at indices that are in it, although the check of
\* the index, the increment and the reads are steps between which the
\* interface can seek.  The warning about an earlier time is not part of this:
\* it reads one before the index, which is outside the log if the interface
\* has just sought the first package, and only then.
ReadsInLog ==
    /\ pc \in {"read", "time", "diff", "current"} => index \in Packages
    /\ pc = "previous" => index - 1 \in Packages \/ SoughtFirst

\* The packages are sent in the order of the log, each once; a seek is
\* followed by the package sought or, when the thread was sending one, by its
\* successor; only a thread that is at the end of the log overrides a seek.
PlaysInOrder == pc = "read" => index \in due

\* Why both hold, whatever the order of the steps: outside the steps that
\* look for the end of the log the index is in it, and where the thread goes
\* on reading depends on whether it has counted the package that it sends.
IndexInv == pc \notin {"bound", "rewind"} => index \in Packages

WaitInv == /\ pc \in {"choose", "replay", "store", "limit", "shorten"} => wait >= 0
           /\ pc = "nap" => sleep >= 0

DueInv == /\ pc \in {"time", "advance"} => Next1(index) \in due
          /\ pc = "bound" => IF index < Size THEN index \in due ELSE 0 \in due
          /\ pc = "rewind" => 0 \in due
          /\ pc \notin {"time", "advance", "bound", "rewind"} => index \in due

FirstInv == pc \in {"bound", "diff", "previous"} /\ index = 0 => SoughtFirst

IInv == PlaybackTypeOK /\ IndexInv /\ WaitInv /\ DueInv /\ FirstInv

\* When a log is closed, the interface thread waits for the playback to end,
\* which it does from any place, paused, asleep or sending.
CloseEnds == (gui = "waiting") ~> (gui = "done")

\* The playback reaches the end of the log, where it stays.
LogEnds == play ~> (~play \/ pc = "off")
=============================================================================
